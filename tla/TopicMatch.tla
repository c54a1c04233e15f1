----------------------------- MODULE TopicMatch -----------------------------
(***************************************************************************)
(* topic_matches_pattern (src/server.cpp): the scan of a topic against a   *)
(* pattern, one iteration of its loops per step.  Indices are the code's,  *)
(* from 0; the scan returns to the last '*' it met when it cannot go on.   *)
(***************************************************************************)
EXTENDS Topics

CONSTANTS
    TopicParts,    \* the topics scanned, split into levels
    PatternParts   \* the patterns they are scanned against

ASSUME TopicMatchAssumption ==
    /\ TopicParts \subseteq Seq(STRING) \ {<<>>}
    /\ PatternParts \subseteq Seq(STRING) \ {<<>>}

VARIABLES
    topic_parts,
    pattern_parts,
    t_idx, p_idx,      \* the scan is at this level of the topic, of the pattern
    t_back, p_back,    \* where it returns to: a level of the topic, and of the '*'
    backtrack,         \* a '*' was met
    result             \* "scanning", then what is returned: "true" or "false"

scan == <<t_idx, p_idx, t_back, p_back, backtrack>>
vars == <<topic_parts, pattern_parts, scan, result>>

Init ==
    /\ topic_parts \in TopicParts
    /\ pattern_parts \in PatternParts
    /\ t_idx = 0 /\ p_idx = 0
    /\ t_back = 0 /\ p_back = 0
    /\ backtrack = FALSE
    /\ result = "scanning"

---------------------------------------------------------------------------

Scanning == result = "scanning" /\ t_idx < Len(topic_parts)

AtPattern == p_idx < Len(pattern_parts)

\* Mutant: '+' is no wildcard.
LevelEqual ==
    /\ AtPattern
    /\ pattern_parts[p_idx + 1] = topic_parts[t_idx + 1]

\* Case 1: an equal level, or '+'.
LevelFits ==
    /\ AtPattern
    /\ pattern_parts[p_idx + 1] \in {ONE, topic_parts[t_idx + 1]}

\* Case 2, tried after case 1: '*'.
AtMany ==
    /\ AtPattern
    /\ ~LevelFits
    /\ pattern_parts[p_idx + 1] = MANY

MatchLevel ==
    /\ Scanning
    /\ LevelFits
    /\ t_idx' = t_idx + 1
    /\ p_idx' = p_idx + 1
    /\ UNCHANGED <<topic_parts, pattern_parts, t_back, p_back, backtrack, result>>

MeetMany ==
    /\ Scanning
    /\ AtMany
    /\ t_back' = t_idx
    /\ p_back' = p_idx
    /\ p_idx' = p_idx + 1
    /\ backtrack' = TRUE
    /\ UNCHANGED <<topic_parts, pattern_parts, t_idx, result>>

\* Mutants: the '*' takes a level more than was scanned; or no level more.
NextTryForward == t_idx + 1
NextTrySame == t_back

\* The level at which the scan is tried again.
NextTry == t_back + 1

\* Mutant: the level of the pattern after the '*' is skipped.
SecondAfterMany == p_back + 2

AfterMany == p_back + 1

CanBacktrack == backtrack /\ p_back < Len(pattern_parts)

\* Case 3: the last '*' takes one more level.
Backtrack ==
    /\ Scanning
    /\ ~LevelFits /\ ~AtMany
    /\ CanBacktrack
    /\ t_back' = NextTry
    /\ t_idx' = NextTry
    /\ p_idx' = AfterMany
    /\ UNCHANGED <<topic_parts, pattern_parts, p_back, backtrack, result>>

Fail ==
    /\ Scanning
    /\ ~LevelFits /\ ~AtMany
    /\ ~CanBacktrack
    /\ result' = "false"
    /\ UNCHANGED <<topic_parts, pattern_parts, scan>>

\* The topic is used up: what is left of the pattern may only be '*'.
SkipMany ==
    /\ result = "scanning" /\ t_idx >= Len(topic_parts)
    /\ AtPattern
    /\ pattern_parts[p_idx + 1] = MANY
    /\ p_idx' = p_idx + 1
    /\ UNCHANGED <<topic_parts, pattern_parts, t_idx, t_back, p_back, backtrack, result>>

\* Mutant: what is left of the pattern is forgotten.
TopicUsed == t_idx = Len(topic_parts)

AllUsed == t_idx = Len(topic_parts) /\ p_idx = Len(pattern_parts)

Finish ==
    /\ result = "scanning" /\ t_idx >= Len(topic_parts)
    /\ AtPattern => pattern_parts[p_idx + 1] # MANY
    /\ result' = IF AllUsed THEN "true" ELSE "false"
    /\ UNCHANGED <<topic_parts, pattern_parts, scan>>

Next == MatchLevel \/ MeetMany \/ Backtrack \/ Fail \/ SkipMany \/ Finish

Spec == Init /\ [][Next]_vars /\ WF_vars(Next)

---------------------------------------------------------------------------
(* Properties *)

TypeOK ==
    /\ t_idx \in 0..Len(topic_parts)
    /\ p_idx \in 0..Len(pattern_parts)
    /\ t_back \in 0..Len(topic_parts)
    /\ p_back \in 0..Len(pattern_parts)
    /\ backtrack \in BOOLEAN
    /\ result \in {"scanning", "true", "false"}

\* README.md, "`*` wildcard: matches zero or more levels", and the other
\* forms: the scan returns TRUE exactly for the topics the pattern accepts.
Correct ==
    result # "scanning" => (result = "true" <=> Accepts(topic_parts, pattern_parts))

\* Correct, for topics none of whose levels is the text "*".  In such a level
\* case 1 takes a '*' of the pattern for an equal level and keeps no way back.
CorrectForPlainTopics ==
    (\A k \in 1..Len(topic_parts) : topic_parts[k] # MANY) => Correct

\* Whatever the text of the levels, "*" and "+" included, the scan returns TRUE
\* only for topics that the pattern accepts: what Correct lacks for a topic with
\* a level "*" are matches, and no subscriber gets a message it did not ask for.
OnlyAccepted ==
    result = "true" => Accepts(topic_parts, pattern_parts)

\* What is left of pattern p from level j on accepts the rest of t from i on.
Ahead(t, p, i, j) ==
    Accepts(SubSeq(t, i + 1, Len(t)), SubSeq(p, j + 1, Len(p)))

\* What the scan has set aside is never needed: whether the pattern accepts the
\* topic is decided by what lies ahead of the scan and of the last '*', however
\* many '*' came before that one.
LastManyIsEnough ==
    /\ result = "scanning"
    /\ \A k \in 1..Len(topic_parts) : topic_parts[k] # MANY
    => (Accepts(topic_parts, pattern_parts) <=>
          \/ Ahead(topic_parts, pattern_parts, t_idx, p_idx)
          \/ backtrack /\ Ahead(topic_parts, pattern_parts, t_back, p_back))

\* Going back is progress too: an iteration that does not end the scan moves
\* the place it returns to, first in the topic and then in the pattern, or else
\* the level of the pattern it is at.  So the loops turn at most once for each
\* level of the topic, each '*' and each level of the pattern.
ScanAdvances ==
    [][\/ result' # "scanning"
       \/ t_back' > t_back
       \/ t_back' = t_back /\ p_back' > p_back
       \/ t_back' = t_back /\ p_back' = p_back /\ p_idx' > p_idx]_vars

\* Every scan returns, however often it goes back.
Returns == <>(result # "scanning")
=============================================================================
