SPECIFICATION Spec
CONSTANTS
    k1 = k1  k2 = k2
    p1 = p1  p2 = p2
    lane1 = lane1  lane2 = lane2
    Keys = {k1, k2}
    Payloads = {p1, p2}
    Lanes = {lane1, lane2}
    Commands <- LifecycleCommands
    x1 = x1  x2 = x2
    CancelKeys = {x1, x2}
    Sessions = {s1}
    NoPayload = NoPayload  NoLane = NoLane  NoSession = NoSession
    MaxRequests = 2
    MaxGeneration = 2
    MaxAdmissions = 3
    MaxOrdinal = 1
    MaxOutputs = 1
SYMMETRY CancelSymmetry
CHECK_DEADLOCK FALSE
INVARIANT TypeOK
INVARIANT OneOwner
INVARIANT LaneOrder
INVARIANT RunsTellOneStory
PROPERTY EndIsFinal
