SPECIFICATION FairSpec
CONSTANTS
    Tasks = {t1}
    Runs = {r1, r2}
    RunWorkers = {w1, w2}
    Owner = owner
    Acceptor = acceptor
    Assignee = agent
    NoOne = NoOne
    CommandTypes <- OneSameState
    MaxVersion = 4
    MaxRunVersion = 2
    SweepLimit = 1
    Supervisors = {s1, s2}
    MaxLapses = 2
    Nobody = Nobody
INVARIANT SweepTypeOK
INVARIANT ActiveRunOwnsTask
INVARIANT StoriesAgree
PROPERTY LeasesDecide
PROPERTY ExpiredRunsEnd
CHECK_DEADLOCK FALSE
