SPECIFICATION Spec
CONSTANTS
    TopicParts <- AllTopics
    PatternParts <- ManyPatterns
INVARIANTS
    TypeOK
    CorrectForPlainTopics
    LastManyIsEnough
    OnlyAccepted
PROPERTIES
    Returns
    ScanAdvances
CHECK_DEADLOCK FALSE
