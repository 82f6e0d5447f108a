SPECIFICATION Spec
CONSTANTS
    Beats = {b1, b2}
    NoBeat = NoBeat
    Probes = {p1}
    Notices = {n1}
    MaxFaults = 3
    Tasks = {t1}
    NoTask = NoTask
    Callers = {c1, c2}
    MaxCommands = 4
    MaxMishaps = 2
CHECK_DEADLOCK FALSE
INVARIANT TypeOK
INVARIANT StoryAgrees
PROPERTY HealthReturns
PROPERTY WorkIsSettled
