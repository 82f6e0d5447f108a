SPECIFICATION Spec
CONSTANTS
    Drivers = {driver1, driver2}
    PairsBefore = 2
    MaxPairs = 4
    MaxBackups = 4
    MaxResumes = 1
    MaxPairTroubles = 1
    NoDriver = NoDriver
    Corpse = Corpse
    MaxScriptRuns = 3
    MaxScriptCrashes = 1
    Stale = Stale
    Commands = {command1, command2}
    MaxCommands = 3
    MaxDisturbances = 2
    MaxSetups = 3
    MaxSetupTroubles = 1
    MaxConvergences = 3
    BusinessSteps = 2
    MaxMishaps = 1
SYMMETRY Symmetry
CHECK_DEADLOCK FALSE
INVARIANT TypeOK
INVARIANT HostIsSound
