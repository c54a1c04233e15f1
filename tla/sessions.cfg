SPECIFICATION Spec
CONSTANTS
    Ids = {1, 2, 3}
    NumSessions = 3
    MaxCommands = 0
    MaxMessages = 0
    MaxExits = 0
    Fds = {5, 6}
    Patterns <- OnePattern
    Topics <- OneTopic
    Killable = {1, 2, 3}
    Menu <- NoCommands
    Matches <- MatchesByDefinition
INVARIANTS
    TypeOK
    PollSetExact
    RegistrySoundUnlessMixup
    JoinedIsRegistered
    EventsHold
PROPERTY
    RoundsServe
CHECK_DEADLOCK FALSE
