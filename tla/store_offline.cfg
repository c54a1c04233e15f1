SPECIFICATION Spec
CONSTANTS
    Ids = {2}
    NumSessions = 2
    MaxCommands = 1
    MaxMessages = 1
    MaxExits = 0
    Fds = {5, 6}
    Patterns <- OnePattern
    Topics <- OneTopic
    Killable = {}
    Menu <- StoreOnly
    Matches <- MatchesByDefinition
PROPERTY
    StoredWhenOffline
CHECK_DEADLOCK FALSE
