SPECIFICATION Spec
CONSTANTS
    Tasks = {t1}
    Runs = {}
    RunWorkers = {}
    Owner = owner
    Acceptor = acceptor
    Assignee = agent
    NoOne = NoOne
    CommandTypes <- OneReport
    MaxVersion = 2
    MaxRunVersion = 1
    SweepLimit = 1
    Publishers = {p1, p2}
    BatchSize = 2
    MaxAttempts = 2
    MaxRedrives = 1
    MaxFaults = 1
    Unregistered = Unregistered
    Natural = {n1, n2}
    Streamed = {n2}
    Explicit = {e1}
    Receivers = {c1, c2}
    IntakeWorkers = {w1, w2}
    MaxCalls = 3
    IntakeRetries = 2
    MaxGenerations = 1
    MaxDeaths = 1
    NoMessage = NoMessage
    Requests = {r1, r2}
    Stubborn = {r1}
    Subscribers = {s1, s2, s3}
    LogLength = 2
    MaxInFlight = 2
    MaxMishaps = 1
    NoClaim = NoClaim
    Streams = {q1, q2}
    Brief = {q2}
    StreamLength = 3
    MaxAppended = 3
    Deliverers = {d1, d2}
    ClaimLimit = 2
    DeliveryTries = 2
    MaxTroubles = 1
    MaxRedriven = 1
    NoStream = NoStream
INVARIANT TypeOK
INVARIANT NewestWasPublished
INVARIANT IntakeKeepsItsWord
INVARIANT EventsInOrder
PROPERTY QueuesDrain
CHECK_DEADLOCK FALSE
