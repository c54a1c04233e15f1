SPECIFICATION Spec
CONSTANTS
    TopicParts <- LiteralTopics
    PatternParts <- FewPatterns
INVARIANT
    Correct
CHECK_DEADLOCK FALSE
