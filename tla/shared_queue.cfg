SPECIFICATION Spec
CONSTANTS
    Ids = {2, 3}
    NumSessions = 3
    MaxCommands = 2
    MaxMessages = 1
    MaxExits = 0
    Fds = {5}
    Patterns <- OnePattern
    Topics <- OneTopic
    Killable = {}
    Menu <- StoreOnly
    Matches <- MatchesByDefinition
INVARIANT
    RefCountExact
CHECK_DEADLOCK FALSE
