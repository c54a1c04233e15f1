---------------------------- MODULE MCTopicMatch ----------------------------
(***************************************************************************)
(* Constants for checking TopicMatch: every topic and every pattern of a   *)
(* few levels.  A level of a topic may be the text "*" in LiteralTopics,   *)
(* and the text "+" in OneTopics.                                          *)
(***************************************************************************)
EXTENDS TopicMatch

PlainTopics == Paths({"a", "b"}, 4)
LiteralTopics == Paths({"a", "*"}, 4)
OneTopics == Paths({"a", ONE}, 3)
AllTopics == PlainTopics \cup LiteralTopics \cup OneTopics
ManyPatterns == Paths({"a", "b", ONE, MANY}, 4)
FewPatterns == Paths({"a", MANY}, 3)
=============================================================================
