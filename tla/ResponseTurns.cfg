SPECIFICATION TurnsSpec
CONSTANTS
    Items = {1, 2}
    Streamed = {1, 2}
    Sessions = {s1, s2}
    NoRequest = NoRequest
    NoSession = NoSession
    Steps <- ToolsAndAnswers
    MaxSteps = 2
    MaxInFlight = 2
    MaxFaults = 1
CHECK_DEADLOCK FALSE
INVARIANT TurnsTypeOK
INVARIANT TurnsTellOneStory
INVARIANT SomebodyEndsIt
