SPECIFICATION Spec
CONSTANTS
    Ids = {2, 3}
    NumSessions = 2
    MaxCommands = 2
    MaxMessages = 1
    MaxExits = 0
    Fds = {5, 6}
    Patterns <- TwoPatterns
    Topics <- TwoTopics
    Killable = {}
    Menu <- Routing
    Matches <- MatchesByDefinition
INVARIANTS
    SubscriptionsAgree
    QueuesOrdered
    RefCountExact
PROPERTY
    DeliversAsPromised
CHECK_DEADLOCK FALSE
