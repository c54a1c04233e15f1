SPECIFICATION Spec
CONSTANTS
    Ids = {2}
    NumSessions = 3
    MaxCommands = 1
    MaxMessages = 2
    MaxExits = 0
    Fds = {5, 6}
    Patterns <- OnePattern
    Topics <- OneTopic
    Killable = {1}
    Menu <- StoreOnly
    Matches <- MatchesByDefinition
INVARIANTS
    QueuesOrdered
    ConnectedHasNoQueue
    StreamsOrdered
    OncePerClient
PROPERTIES
    DeliversAsPromised
    DiesOnlyOf
CHECK_DEADLOCK FALSE
