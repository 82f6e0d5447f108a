SPECIFICATION Spec
CONSTANTS
    p1 = p1
    p2 = p2
    Procs <- TwoProcs
    Anonymous <- One
    MaxDeaths = 1
    Nobody = Nobody
    NoFile = NoFile
    MaxAttempts = 2
    MaxCrashes = 1
    CoreServices = {dispatcher}
    OwnServices = {telegram}
    AddedServices = {supervisor}
    dispatcher = dispatcher
    telegram = telegram
    supervisor = supervisor
CHECK_DEADLOCK FALSE
INVARIANT TypeOK
INVARIANT MutualExclusion
INVARIANT EvictsOnlyTheDead
INVARIANT InstallationIsWhole
PROPERTY LockReturns
PROPERTY CommittedIsFinished
