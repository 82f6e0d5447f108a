SPECIFICATION FairSpec
CONSTANTS
    ControlKinds <- ProbesAndKeys
    ConversationKinds <- NoMessages
    AgentStates <- RestOrGone
    Contents <- AllContents
    NoKind = NoKind
    MaxControls = 2
    MaxConversations = 0
    MaxRetries = 2
    MaxTime = 2
    MaxFaults = 1
INVARIANT TypeOK
INVARIANT DoneWasShown
PROPERTY VerdictsCome
