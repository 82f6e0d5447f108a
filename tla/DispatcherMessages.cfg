SPECIFICATION FairSpec
CONSTANTS
    ControlKinds <- Alerts
    ConversationKinds <- EveryEntry
    AgentStates <- RestOrWork
    Contents <- AllContents
    NoKind = NoKind
    MaxControls = 1
    MaxConversations = 2
    MaxRetries = 1
    MaxTime = 1
    MaxFaults = 1
PROPERTY MessagesInTurn
PROPERTY AllDelivered
