SPECIFICATION FairSpec
CONSTANTS
    Ids = {2}
    NumSessions = 2
    MaxCommands = 1
    MaxMessages = 1
    MaxExits = 1
    Fds = {5, 6}
    Patterns <- OnePattern
    Topics <- OneTopic
    Killable = {1}
    Menu <- StoreOnly
    Matches <- MatchesByDefinition
INVARIANTS
    RefCountExact
    StreamsOrdered
PROPERTIES
    RequestsServed
    ConnectionsReleased
    ShutdownEndsSessions
CHECK_DEADLOCK FALSE
