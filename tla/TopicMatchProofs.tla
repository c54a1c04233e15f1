-------------------------- MODULE TopicMatchProofs --------------------------
(***************************************************************************)
(* Proofs about TopicMatch, for topics and patterns of any length: the     *)
(* scan that remembers only the last '*' returns TRUE exactly for the      *)
(* topics that an alignment of the pattern exists for, if no level of the  *)
(* topic is the text "*", and for no other topic whatever its levels are.  *)
(***************************************************************************)
EXTENDS TopicMatch, SequenceTheorems, WellFoundedInduction, TLAPS

---------------------------------------------------------------------------
(* Alignments of what is left of a pattern *)

\* Level l of pattern p is aligned.
Fits(a, t, p, l) ==
    IF p[l] = MANY THEN a[l] <= a[l + 1]
    ELSE /\ a[l] <= Len(t)
         /\ a[l + 1] = a[l] + 1
         /\ p[l] \in {ONE, t[a[l]]}

Alignment(t, p) == [1..(Len(p) + 1) -> 1..(Len(t) + 1)]

\* The levels of p from j on (from 0) are aligned to those of t from i on.
Continues(a, t, p, i, j) ==
    /\ a[j + 1] = i + 1
    /\ a[Len(p) + 1] = Len(t) + 1
    /\ \A l \in (j + 1)..Len(p) : Fits(a, t, p, l)

From(t, p, i, j) == \E a \in Alignment(t, p) : Continues(a, t, p, i, j)

LEMMA AcceptsFromStart ==
    ASSUME NEW t, NEW p, Len(p) \in Nat
    PROVE  Accepts(t, p) <=> From(t, p, 0, 0)
  BY DEF Accepts, Aligns, From, Alignment, Continues, Fits

\* An alignment that goes on from the next level is one from this level, if
\* this level is aligned by it.
LEMMA Prepend ==
    ASSUME NEW t, NEW p, Len(t) \in Nat, Len(p) \in Nat,
           NEW i \in 0..Len(t), NEW k \in 0..Len(t), NEW j \in 0..(Len(p) - 1),
           From(t, p, k, j + 1),
           IF p[j + 1] = MANY THEN i <= k
           ELSE i < Len(t) /\ k = i + 1 /\ p[j + 1] \in {ONE, t[i + 1]}
    PROVE  From(t, p, i, j)
<1>1. PICK a \in Alignment(t, p) : Continues(a, t, p, k, j + 1)
  BY DEF From
<1> DEFINE b == [a EXCEPT ![j + 1] = i + 1]
<1>2. /\ b \in Alignment(t, p)
      /\ b[j + 1] = i + 1
      /\ \A l \in 1..(Len(p) + 1) : l # j + 1 => b[l] = a[l]
  BY <1>1 DEF Alignment
<1>3. a[j + 2] = k + 1 /\ a[Len(p) + 1] = Len(t) + 1
  BY <1>1 DEF Continues
<1> HIDE DEF b
<1>4. b[j + 2] = k + 1 /\ b[Len(p) + 1] = Len(t) + 1
  BY <1>2, <1>3
<1>5. ASSUME NEW l \in (j + 1)..Len(p) PROVE Fits(b, t, p, l)
  <2>1. CASE l = j + 1
    BY <1>2, <1>4, <2>1 DEF Fits
  <2>2. CASE l # j + 1
    <3>1. l \in (j + 1 + 1)..Len(p)
      BY <2>2
    <3>2. b[l] = a[l] /\ b[l + 1] = a[l + 1]
      BY <1>2, <3>1
    <3>3. QED BY <1>1, <3>1, <3>2 DEF Continues, Fits
  <2>3. QED BY <2>1, <2>2
<1>6. QED BY <1>2, <1>4, <1>5 DEF From, Continues

\* A level of the pattern that is no '*' takes exactly one level of the topic.
LEMMA OneLevel ==
    ASSUME NEW t, NEW p, Len(t) \in Nat, Len(p) \in Nat,
           NEW i \in 0..Len(t), NEW j \in 0..(Len(p) - 1), p[j + 1] # MANY
    PROVE  From(t, p, i, j) <=>
             i < Len(t) /\ p[j + 1] \in {ONE, t[i + 1]} /\ From(t, p, i + 1, j + 1)
<1>1. ASSUME From(t, p, i, j)
      PROVE  i < Len(t) /\ p[j + 1] \in {ONE, t[i + 1]} /\ From(t, p, i + 1, j + 1)
  <2>1. PICK a \in Alignment(t, p) : Continues(a, t, p, i, j)
    BY <1>1 DEF From
  <2>2. a[j + 1] = i + 1 /\ Fits(a, t, p, j + 1)
    BY <2>1 DEF Continues
  <2>3. i + 1 <= Len(t) /\ a[j + 2] = i + 2 /\ p[j + 1] \in {ONE, t[i + 1]}
    BY <2>2 DEF Fits
  <2>4. Continues(a, t, p, i + 1, j + 1)
    BY <2>1, <2>3 DEF Continues
  <2>5. QED BY <2>3, <2>4 DEF From
<1>2. ASSUME i < Len(t), p[j + 1] \in {ONE, t[i + 1]}, From(t, p, i + 1, j + 1)
      PROVE  From(t, p, i, j)
  <2>1. i + 1 \in 0..Len(t)
    BY <1>2
  <2>2. QED BY <1>2, <2>1, Prepend
<1>3. QED BY <1>1, <1>2

\* A '*' takes any number of levels of the topic.
LEMMA ManyLevels ==
    ASSUME NEW t, NEW p, Len(t) \in Nat, Len(p) \in Nat,
           NEW i \in 0..Len(t), NEW j \in 0..(Len(p) - 1), p[j + 1] = MANY
    PROVE  From(t, p, i, j) <=> \E k \in i..Len(t) : From(t, p, k, j + 1)
<1>1. ASSUME From(t, p, i, j) PROVE \E k \in i..Len(t) : From(t, p, k, j + 1)
  <2>1. PICK a \in Alignment(t, p) : Continues(a, t, p, i, j)
    BY <1>1 DEF From
  <2>2. a[j + 1] = i + 1 /\ Fits(a, t, p, j + 1) /\ a[j + 2] \in 1..(Len(t) + 1)
    <3>1. j + 1 \in (j + 1)..Len(p) /\ j + 2 \in 1..(Len(p) + 1)
      OBVIOUS
    <3>2. a[j + 1] = i + 1 /\ Fits(a, t, p, j + 1)
      BY <2>1, <3>1 DEF Continues
    <3>3. a[j + 2] \in 1..(Len(t) + 1)
      BY <3>1 DEF Alignment
    <3>4. QED BY <3>2, <3>3
  <2>3. PICK k \in i..Len(t) : a[j + 2] = k + 1
    <3>1. i + 1 <= a[j + 2]
      BY <2>2 DEF Fits
    <3>2. a[j + 2] - 1 \in i..Len(t) /\ a[j + 2] = a[j + 2] - 1 + 1
      BY <2>2, <3>1
    <3>3. QED BY <3>2
  <2>4. Continues(a, t, p, k, j + 1)
    BY <2>1, <2>3 DEF Continues
  <2>5. QED BY <2>4 DEF From
<1>2. ASSUME NEW k \in i..Len(t), From(t, p, k, j + 1) PROVE From(t, p, i, j)
  <2>1. k \in 0..Len(t) /\ i <= k
    OBVIOUS
  <2>2. QED BY <1>2, <2>1, Prepend
<1>3. QED BY <1>1, <1>2

\* Behind the pattern there is nothing but the end of the topic.
LEMMA NothingLeft ==
    ASSUME NEW t, NEW p, Len(t) \in Nat, Len(p) \in Nat, NEW i \in 0..Len(t)
    PROVE  From(t, p, i, Len(p)) <=> i = Len(t)
<1>1. From(t, p, i, Len(p)) => i = Len(t)
  BY DEF From, Continues
<1>2. ASSUME i = Len(t) PROVE From(t, p, i, Len(p))
  <2> DEFINE a == [l \in 1..(Len(p) + 1) |-> Len(t) + 1]
  <2>1. a \in Alignment(t, p) /\ a[Len(p) + 1] = Len(t) + 1
    BY DEF Alignment
  <2> HIDE DEF a
  <2>2. QED BY <1>2, <2>1 DEF From, Continues
<1>3. QED BY <1>1, <1>2

---------------------------------------------------------------------------
(* Types.  The index of the topic that is set aside is not ahead of the    *)
(* scan, or the scan would leave the topic when it goes back.              *)

Inputs ==
    /\ topic_parts \in TopicParts
    /\ pattern_parts \in PatternParts

SetAside ==
    /\ t_back <= t_idx
    /\ IF backtrack THEN p_back < p_idx ELSE t_back = 0 /\ p_back = 0

LEMMA Lengths ==
    ASSUME Inputs
    PROVE  Len(topic_parts) \in Nat /\ Len(pattern_parts) \in Nat
  BY TopicMatchAssumption DEF Inputs

THEOREM TypeCorrect == Spec => [](Inputs /\ TypeOK /\ SetAside)
<1>1. Init => Inputs /\ TypeOK /\ SetAside
  <2> SUFFICES ASSUME Init PROVE Inputs /\ TypeOK /\ SetAside
    OBVIOUS
  <2>1. Inputs
    BY DEF Init, Inputs
  <2>2. backtrack \in BOOLEAN /\ ~backtrack
    BY DEF Init
  <2>3. t_idx = 0 /\ p_idx = 0 /\ t_back = 0 /\ p_back = 0 /\ result = "scanning"
    BY DEF Init
  <2>4. QED BY <2>1, <2>2, <2>3, Lengths DEF TypeOK, SetAside
<1>2. Inputs /\ TypeOK /\ SetAside /\ [Next]_vars => (Inputs /\ TypeOK /\ SetAside)'
  <2> SUFFICES ASSUME Inputs, TypeOK, SetAside, [Next]_vars
               PROVE  Inputs' /\ TypeOK' /\ SetAside'
    OBVIOUS
  <2>1. Len(topic_parts) \in Nat /\ Len(pattern_parts) \in Nat
    BY Lengths
  <2>2. CASE MatchLevel
    BY <2>1, <2>2 DEF MatchLevel, Scanning, LevelFits, AtPattern, Inputs, TypeOK, SetAside
  <2>3. CASE MeetMany
    BY <2>1, <2>3 DEF MeetMany, Scanning, AtMany, AtPattern, Inputs, TypeOK, SetAside
  <2>4. CASE Backtrack
    BY <2>1, <2>4
    DEF Backtrack, Scanning, CanBacktrack, NextTry, AfterMany, Inputs, TypeOK, SetAside
  <2>5. CASE SkipMany
    BY <2>1, <2>5 DEF SkipMany, AtPattern, Inputs, TypeOK, SetAside
  <2>6. CASE Fail \/ Finish
    BY <2>6 DEF Fail, Finish, scan, Inputs, TypeOK, SetAside
  <2>7. CASE UNCHANGED vars
    BY <2>7 DEF vars, scan, Inputs, TypeOK, SetAside
  <2>8. QED BY <2>2, <2>3, <2>4, <2>5, <2>6, <2>7 DEF Next
<1>3. QED BY <1>1, <1>2, PTL DEF Spec

\* Every index stays within its sequence and no further than its end, whatever
\* the topic and the pattern: the scan reads no level that is not there.
THEOREM IndicesInRange == Spec => []TypeOK
BY TypeCorrect, PTL

\* Each iteration makes progress, the ones that go back included.
THEOREM IterationsAdvance == Spec => ScanAdvances
<1>1. /\ Inputs /\ TypeOK /\ SetAside /\ [Next]_vars
      => [\/ result' # "scanning"
          \/ t_back' > t_back
          \/ t_back' = t_back /\ p_back' > p_back
          \/ t_back' = t_back /\ p_back' = p_back /\ p_idx' > p_idx]_vars
  <2> SUFFICES ASSUME Inputs, TypeOK, SetAside, Next
               PROVE  \/ result' # "scanning"
                      \/ t_back' > t_back
                      \/ t_back' = t_back /\ p_back' > p_back
                      \/ t_back' = t_back /\ p_back' = p_back /\ p_idx' > p_idx
    OBVIOUS
  <2>1. Len(topic_parts) \in Nat /\ Len(pattern_parts) \in Nat
    BY Lengths
  <2>2. CASE MatchLevel \/ SkipMany
    BY <2>1, <2>2 DEF MatchLevel, SkipMany, TypeOK
  <2>3. CASE MeetMany
    BY <2>1, <2>3 DEF MeetMany, TypeOK, SetAside
  <2>4. CASE Backtrack
    BY <2>1, <2>4 DEF Backtrack, NextTry, TypeOK
  <2>5. CASE Fail \/ Finish
    BY <2>5 DEF Fail, Finish
  <2>6. QED BY <2>2, <2>3, <2>4, <2>5 DEF Next
<1>2. QED BY <1>1, TypeCorrect, PTL DEF Spec, ScanAdvances

---------------------------------------------------------------------------
(* The scan.  That the answer is decided ahead of the scan and of the last *)
(* '*' is not inductive: when a '*' is met the place set aside is dropped, *)
(* which loses nothing because what lies ahead of it can be reached from   *)
(* the new one, and when the scan goes back by a level, the level it had   *)
(* tried is refuted by what it has met since.                              *)

Plain == \A k \in 1..Len(topic_parts) : topic_parts[k] # MANY

\* What lies ahead of level i of the topic and j of the pattern.
Rest(i, j) == From(topic_parts, pattern_parts, i, j)

Decided ==
    Accepts(topic_parts, pattern_parts) <=>
        Rest(t_idx, p_idx) \/ (backtrack /\ Rest(t_back, p_back))

AfterLast ==
    backtrack =>
        /\ pattern_parts[p_back + 1] = MANY
        /\ Rest(t_back, p_back + 1) <=> Rest(t_idx, p_idx)
        /\ Rest(t_back, p_back) => \E k \in t_idx..Len(topic_parts) : Rest(k, p_idx)

ScanInv ==
    Plain => /\ result = "scanning" => Decided /\ AfterLast
             /\ Correct

Base == Inputs /\ TypeOK /\ SetAside

\* The lemmas about alignments, for the topic and the pattern of the scan.
LEMMA RestOne ==
    ASSUME Inputs, NEW i \in 0..Len(topic_parts), NEW j \in 0..(Len(pattern_parts) - 1),
           pattern_parts[j + 1] # MANY
    PROVE  Rest(i, j) <=> /\ i < Len(topic_parts)
                          /\ pattern_parts[j + 1] \in {ONE, topic_parts[i + 1]}
                          /\ Rest(i + 1, j + 1)
  BY Lengths, OneLevel DEF Rest

LEMMA RestMany ==
    ASSUME Inputs, NEW i \in 0..Len(topic_parts), NEW j \in 0..(Len(pattern_parts) - 1),
           pattern_parts[j + 1] = MANY
    PROVE  Rest(i, j) <=> \E k \in i..Len(topic_parts) : Rest(k, j + 1)
  BY Lengths, ManyLevels DEF Rest

LEMMA RestEnd ==
    ASSUME Inputs, NEW i \in 0..Len(topic_parts)
    PROVE  Rest(i, Len(pattern_parts)) <=> i = Len(topic_parts)
  BY Lengths, NothingLeft DEF Rest

\* Where neither case 1 nor case 2 applies, nothing lies ahead.
LEMMA Stuck ==
    ASSUME Base, Scanning, ~LevelFits, ~AtMany
    PROVE  ~Rest(t_idx, p_idx)
<1>1. /\ Len(topic_parts) \in Nat /\ Len(pattern_parts) \in Nat
      /\ t_idx \in 0..Len(topic_parts) /\ t_idx < Len(topic_parts)
      /\ p_idx \in 0..Len(pattern_parts)
  BY Lengths DEF Base, TypeOK, Scanning
<1>2. CASE p_idx = Len(pattern_parts)
  BY <1>1, <1>2, RestEnd DEF Base
<1>3. CASE AtPattern
  <2>1. /\ p_idx \in 0..(Len(pattern_parts) - 1)
        /\ pattern_parts[p_idx + 1] # MANY
        /\ pattern_parts[p_idx + 1] \notin {ONE, topic_parts[t_idx + 1]}
    BY <1>1, <1>3 DEF AtPattern, AtMany, LevelFits
  <2>2. QED BY <1>1, <2>1, RestOne DEF Base
<1>4. QED BY <1>1, <1>2, <1>3 DEF AtPattern

\* Case 1 takes a level of the pattern that is no '*', as none of the topic is.
LEMMA MatchLevelKeeps ==
    ASSUME Base, Plain, Decided, AfterLast, MatchLevel
    PROVE  Decided' /\ AfterLast'
<1>1. /\ Len(topic_parts) \in Nat /\ Len(pattern_parts) \in Nat
      /\ t_idx \in 0..Len(topic_parts) /\ t_idx < Len(topic_parts)
      /\ p_idx \in 0..(Len(pattern_parts) - 1)
      /\ t_idx' = t_idx + 1 /\ p_idx' = p_idx + 1
      /\ UNCHANGED <<topic_parts, pattern_parts, t_back, p_back, backtrack>>
  BY Lengths DEF Base, TypeOK, MatchLevel, Scanning, LevelFits, AtPattern
<1>2. pattern_parts[p_idx + 1] \in {ONE, topic_parts[t_idx + 1]}
  BY DEF MatchLevel, LevelFits
<1>3. pattern_parts[p_idx + 1] # MANY
  <2>1. topic_parts[t_idx + 1] # MANY
    BY <1>1 DEF Plain
  <2>2. QED BY <1>2, <2>1 DEF ONE, MANY
<1>4. Rest(t_idx, p_idx) <=> Rest(t_idx + 1, p_idx + 1)
  BY <1>1, <1>2, <1>3, RestOne DEF Base
<1>5. Decided'
  BY <1>1, <1>4 DEF Decided, Rest
<1>6. ASSUME backtrack, Rest(t_back, p_back)
      PROVE  \E k \in (t_idx + 1)..Len(topic_parts) : Rest(k, p_idx + 1)
  <2>1. PICK k \in t_idx..Len(topic_parts) : Rest(k, p_idx)
    BY <1>6 DEF AfterLast
  <2>2. k < Len(topic_parts) /\ Rest(k + 1, p_idx + 1)
    BY <1>1, <1>3, <2>1, RestOne DEF Base
  <2>3. k + 1 \in (t_idx + 1)..Len(topic_parts)
    BY <1>1, <2>2
  <2>4. QED BY <2>2, <2>3
<1>7. AfterLast'
  BY <1>1, <1>4, <1>6 DEF AfterLast, Rest
<1>8. QED BY <1>5, <1>7

\* The new '*' can take what the one before it would.
LEMMA MeetManyKeeps ==
    ASSUME Base, Decided, AfterLast, MeetMany
    PROVE  Decided' /\ AfterLast'
<1>1. /\ Len(topic_parts) \in Nat /\ Len(pattern_parts) \in Nat
      /\ t_idx \in 0..Len(topic_parts)
      /\ p_idx \in 0..(Len(pattern_parts) - 1)
      /\ t_back' = t_idx /\ p_back' = p_idx /\ p_idx' = p_idx + 1 /\ backtrack'
      /\ UNCHANGED <<topic_parts, pattern_parts, t_idx>>
      /\ pattern_parts[p_idx + 1] = MANY
  BY Lengths DEF Base, TypeOK, MeetMany, AtMany, AtPattern
<1>2. Rest(t_idx, p_idx) <=> \E k \in t_idx..Len(topic_parts) : Rest(k, p_idx + 1)
  BY <1>1, RestMany DEF Base
<1>3. Rest(t_idx, p_idx + 1) => Rest(t_idx, p_idx)
  BY <1>1, <1>2
<1>4. ASSUME backtrack, Rest(t_back, p_back) PROVE Rest(t_idx, p_idx)
  <2>1. PICK k \in t_idx..Len(topic_parts) : Rest(k, p_idx)
    BY <1>4 DEF AfterLast
  <2>2. PICK l \in k..Len(topic_parts) : Rest(l, p_idx + 1)
    BY <1>1, <2>1, RestMany DEF Base
  <2>3. l \in t_idx..Len(topic_parts)
    BY <1>1
  <2>4. QED BY <1>2, <2>2, <2>3
<1>5. Decided'
  BY <1>1, <1>3, <1>4 DEF Decided, Rest
<1>6. AfterLast'
  BY <1>1, <1>2 DEF AfterLast, Rest
<1>7. QED BY <1>5, <1>6

\* The level tried was wrong: the '*' takes it, or there is no match.
LEMMA BacktrackKeeps ==
    ASSUME Base, Decided, AfterLast, Backtrack
    PROVE  Decided' /\ AfterLast'
<1>1. /\ Len(topic_parts) \in Nat /\ Len(pattern_parts) \in Nat
      /\ backtrack /\ backtrack' = backtrack
      /\ t_back \in 0..Len(topic_parts) /\ t_back + 1 \in 0..Len(topic_parts)
      /\ p_back \in 0..(Len(pattern_parts) - 1)
      /\ t_back' = t_back + 1 /\ t_idx' = t_back + 1 /\ p_idx' = p_back + 1
      /\ UNCHANGED <<topic_parts, pattern_parts, p_back>>
  BY Lengths
  DEF Base, TypeOK, SetAside, Backtrack, Scanning, CanBacktrack, NextTry, AfterMany
<1>2. pattern_parts[p_back + 1] = MANY
  BY <1>1 DEF AfterLast
<1>3. ~Rest(t_idx, p_idx)
  BY Stuck DEF Backtrack
<1>4. ~Rest(t_back, p_back + 1)
  BY <1>1, <1>3 DEF AfterLast
<1>5. Rest(t_back, p_back) <=> \E k \in t_back..Len(topic_parts) : Rest(k, p_back + 1)
  BY <1>1, <1>2, RestMany DEF Base
<1>6. Rest(t_back + 1, p_back) <=> \E k \in (t_back + 1)..Len(topic_parts) : Rest(k, p_back + 1)
  BY <1>1, <1>2, RestMany DEF Base
<1>7. Rest(t_back, p_back) <=> Rest(t_back + 1, p_back)
  <2>1. \A k \in t_back..Len(topic_parts) : k = t_back \/ k \in (t_back + 1)..Len(topic_parts)
    BY <1>1
  <2>2. \A k \in (t_back + 1)..Len(topic_parts) : k \in t_back..Len(topic_parts)
    BY <1>1
  <2>3. QED BY <1>4, <1>5, <1>6, <2>1, <2>2
<1>8. Rest(t_back + 1, p_back + 1) => Rest(t_back + 1, p_back)
  BY <1>1, <1>6
<1>9. Decided'
  BY <1>1, <1>3, <1>7, <1>8 DEF Decided, Rest
<1>10. AfterLast'
  BY <1>1, <1>2, <1>6 DEF AfterLast, Rest
<1>11. QED BY <1>9, <1>10

\* At the end of the topic a '*' of the pattern takes no level.
LEMMA SkipManyKeeps ==
    ASSUME Base, Decided, AfterLast, SkipMany
    PROVE  Decided' /\ AfterLast'
<1>1. /\ Len(topic_parts) \in Nat /\ Len(pattern_parts) \in Nat
      /\ t_idx = Len(topic_parts)
      /\ p_idx \in 0..(Len(pattern_parts) - 1)
      /\ p_idx' = p_idx + 1
      /\ UNCHANGED <<topic_parts, pattern_parts, t_idx, t_back, p_back, backtrack>>
      /\ pattern_parts[p_idx + 1] = MANY
  BY Lengths DEF Base, TypeOK, SkipMany, AtPattern
<1>2. Rest(t_idx, p_idx) <=> Rest(t_idx, p_idx + 1)
  <2>1. Rest(t_idx, p_idx) <=> \E k \in t_idx..Len(topic_parts) : Rest(k, p_idx + 1)
    BY <1>1, RestMany DEF Base
  <2>2. \A k : k \in t_idx..Len(topic_parts) <=> k = t_idx
    BY <1>1
  <2>3. QED BY <2>1, <2>2
<1>3. \A k \in t_idx..Len(topic_parts) : k = t_idx
  BY <1>1
<1>4. Decided'
  BY <1>1, <1>2 DEF Decided, Rest
<1>5. t_idx \in t_idx..Len(topic_parts)
  BY <1>1
<1>6. AfterLast'
  BY <1>1, <1>2, <1>3, <1>5 DEF AfterLast, Rest
<1>7. QED BY <1>4, <1>6

LEMMA FailIsCorrect ==
    ASSUME Base, Decided, Fail
    PROVE  Correct'
<1>1. ~backtrack
  <2>1. Len(pattern_parts) \in Nat
    BY Lengths DEF Base
  <2>2. QED BY <2>1 DEF Base, TypeOK, SetAside, Fail, CanBacktrack
<1>2. ~Accepts(topic_parts, pattern_parts)
  BY <1>1, Stuck DEF Decided, Fail
<1>3. QED BY <1>2 DEF Correct, Fail

LEMMA FinishIsCorrect ==
    ASSUME Base, Decided, AfterLast, Finish
    PROVE  Correct'
<1>1. /\ Len(topic_parts) \in Nat /\ Len(pattern_parts) \in Nat
      /\ t_idx = Len(topic_parts)
      /\ p_idx \in 0..Len(pattern_parts)
  BY Lengths DEF Base, TypeOK, Finish
<1>2. Rest(t_idx, p_idx) <=> p_idx = Len(pattern_parts)
  <2>1. CASE p_idx = Len(pattern_parts)
    BY <1>1, <2>1, RestEnd DEF Base
  <2>2. CASE AtPattern
    <3>1. p_idx \in 0..(Len(pattern_parts) - 1) /\ pattern_parts[p_idx + 1] # MANY
      BY <1>1, <2>2 DEF AtPattern, Finish
    <3>2. QED BY <1>1, <3>1, RestOne DEF Base
  <2>3. QED BY <1>1, <2>1, <2>2 DEF AtPattern
<1>3. backtrack /\ Rest(t_back, p_back) => Rest(t_idx, p_idx)
  <2>1. \A k \in t_idx..Len(topic_parts) : k = t_idx
    BY <1>1
  <2>2. QED BY <2>1 DEF AfterLast
<1>4. Accepts(topic_parts, pattern_parts) <=> p_idx = Len(pattern_parts)
  BY <1>2, <1>3 DEF Decided
<1>5. QED BY <1>1, <1>4 DEF Correct, Finish, AllUsed

THEOREM ScanInvariant == Spec => []ScanInv
<1>1. Init => ScanInv
  <2> SUFFICES ASSUME Init PROVE Decided /\ AfterLast /\ Correct
    BY DEF ScanInv
  <2>1. Inputs /\ t_idx = 0 /\ p_idx = 0 /\ ~backtrack /\ result = "scanning"
    BY DEF Init, Inputs
  <2>2. Accepts(topic_parts, pattern_parts) <=> Rest(0, 0)
    BY <2>1, Lengths, AcceptsFromStart DEF Rest
  <2>3. QED BY <2>1, <2>2 DEF Decided, AfterLast, Correct
<1>2. Inputs /\ TypeOK /\ SetAside /\ ScanInv /\ [Next]_vars => ScanInv'
  <2> SUFFICES ASSUME Base, ScanInv, [Next]_vars, Plain'
               PROVE  (result' = "scanning" => Decided' /\ AfterLast') /\ Correct'
    BY DEF Base, ScanInv
  <2>1. CASE UNCHANGED vars
    BY <2>1 DEF vars, scan, ScanInv, Plain, Decided, AfterLast, Correct, Rest
  <2>2. CASE Next
    <3>1. Plain /\ result = "scanning" /\ Decided /\ AfterLast
      <4>1. topic_parts' = topic_parts /\ result = "scanning"
        BY <2>2
        DEF Next, MatchLevel, MeetMany, Backtrack, Fail, SkipMany, Finish, Scanning
      <4>2. QED BY <4>1 DEF ScanInv, Plain
    <3>2. CASE MatchLevel \/ MeetMany \/ Backtrack \/ SkipMany
      <4>1. result' = "scanning"
        BY <3>1, <3>2 DEF MatchLevel, MeetMany, Backtrack, SkipMany
      <4>2. QED BY <3>1, <3>2, <4>1, MatchLevelKeeps, MeetManyKeeps, BacktrackKeeps,
                   SkipManyKeeps DEF Correct
    <3>3. CASE Fail
      BY <3>1, <3>3, FailIsCorrect DEF Fail
    <3>4. CASE Finish
      BY <3>1, <3>4, FinishIsCorrect DEF Finish
    <3>5. QED BY <2>2, <3>2, <3>3, <3>4 DEF Next
  <2>3. QED BY <2>1, <2>2
<1>3. QED BY <1>1, <1>2, TypeCorrect, PTL DEF Spec

\* For topics and patterns of any length, the scan returns TRUE exactly when the
\* pattern accepts the topic, if no level of the topic is the text "*".
THEOREM MatchesCorrectly == Spec => []CorrectForPlainTopics
<1>1. ScanInv => CorrectForPlainTopics
  BY DEF ScanInv, Plain, CorrectForPlainTopics
<1>2. QED BY <1>1, ScanInvariant, PTL

---------------------------------------------------------------------------
(* Topics whose levels may be the text "*".  Nothing is lost from the      *)
(* "only if" side: what lies ahead of the scan, or of the last '*', is     *)
(* accepted only together with what the scan has gone over.                *)

Reached ==
    /\ Rest(t_idx, p_idx) => Accepts(topic_parts, pattern_parts)
    /\ backtrack =>
         /\ pattern_parts[p_back + 1] = MANY
         /\ Rest(t_back, p_back) => Accepts(topic_parts, pattern_parts)

ReachedInv == (result = "scanning" => Reached) /\ OnlyAccepted

LEMMA ReachedKept ==
    ASSUME Base, Reached, MatchLevel \/ MeetMany \/ Backtrack \/ SkipMany
    PROVE  Reached'
<1>1. Len(topic_parts) \in Nat /\ Len(pattern_parts) \in Nat
  BY Lengths DEF Base
<1>2. CASE MatchLevel
  <2>1. /\ t_idx \in 0..Len(topic_parts) /\ t_idx < Len(topic_parts)
        /\ p_idx \in 0..(Len(pattern_parts) - 1)
        /\ t_idx' = t_idx + 1 /\ p_idx' = p_idx + 1
        /\ UNCHANGED <<topic_parts, pattern_parts, t_back, p_back, backtrack>>
        /\ pattern_parts[p_idx + 1] \in {ONE, topic_parts[t_idx + 1]}
    BY <1>1, <1>2 DEF Base, TypeOK, MatchLevel, Scanning, LevelFits, AtPattern
  <2>2. Rest(t_idx + 1, p_idx + 1) => Rest(t_idx, p_idx)
    <3>1. CASE pattern_parts[p_idx + 1] # MANY
      BY <1>1, <2>1, <3>1, RestOne DEF Base
    <3>2. CASE pattern_parts[p_idx + 1] = MANY
      <4>1. t_idx + 1 \in t_idx..Len(topic_parts)
        BY <1>1, <2>1
      <4>2. QED BY <2>1, <3>2, <4>1, RestMany DEF Base
    <3>3. QED BY <3>1, <3>2
  <2>3. QED BY <2>1, <2>2 DEF Reached, Rest
<1>3. CASE MeetMany
  <2>1. /\ t_idx \in 0..Len(topic_parts)
        /\ p_idx \in 0..(Len(pattern_parts) - 1)
        /\ t_back' = t_idx /\ p_back' = p_idx /\ p_idx' = p_idx + 1
        /\ UNCHANGED <<topic_parts, pattern_parts, t_idx>>
        /\ pattern_parts[p_idx + 1] = MANY
    BY <1>1, <1>3 DEF Base, TypeOK, MeetMany, AtMany, AtPattern
  <2>2. t_idx \in t_idx..Len(topic_parts)
    BY <1>1, <2>1
  <2>3. Rest(t_idx, p_idx + 1) => Rest(t_idx, p_idx)
    BY <2>1, <2>2, RestMany DEF Base
  <2>4. QED BY <2>1, <2>3 DEF Reached, Rest
<1>4. CASE Backtrack
  <2>1. /\ backtrack /\ backtrack' = backtrack
        /\ t_back \in 0..Len(topic_parts) /\ t_back + 1 \in 0..Len(topic_parts)
        /\ p_back \in 0..(Len(pattern_parts) - 1)
        /\ t_back' = t_back + 1 /\ t_idx' = t_back + 1 /\ p_idx' = p_back + 1
        /\ UNCHANGED <<topic_parts, pattern_parts, p_back>>
    BY <1>1, <1>4
    DEF Base, TypeOK, SetAside, Backtrack, Scanning, CanBacktrack, NextTry, AfterMany
  <2>2. pattern_parts[p_back + 1] = MANY
    BY <2>1 DEF Reached
  <2>3. Rest(t_back, p_back) <=> \E k \in t_back..Len(topic_parts) : Rest(k, p_back + 1)
    BY <2>1, <2>2, RestMany DEF Base
  <2>4. Rest(t_back + 1, p_back) <=>
          \E k \in (t_back + 1)..Len(topic_parts) : Rest(k, p_back + 1)
    BY <2>1, <2>2, RestMany DEF Base
  <2>5. /\ t_back + 1 \in t_back..Len(topic_parts)
        /\ \A k \in (t_back + 1)..Len(topic_parts) : k \in t_back..Len(topic_parts)
    BY <1>1, <2>1
  <2>6. /\ Rest(t_back + 1, p_back + 1) => Rest(t_back, p_back)
        /\ Rest(t_back + 1, p_back) => Rest(t_back, p_back)
    BY <2>3, <2>4, <2>5
  <2>7. QED BY <2>1, <2>2, <2>6 DEF Reached, Rest
<1>5. CASE SkipMany
  <2>1. /\ t_idx \in 0..Len(topic_parts)
        /\ p_idx \in 0..(Len(pattern_parts) - 1)
        /\ p_idx' = p_idx + 1
        /\ UNCHANGED <<topic_parts, pattern_parts, t_idx, t_back, p_back, backtrack>>
        /\ pattern_parts[p_idx + 1] = MANY
    BY <1>1, <1>5 DEF Base, TypeOK, SkipMany, AtPattern
  <2>2. t_idx \in t_idx..Len(topic_parts)
    BY <1>1, <2>1
  <2>3. Rest(t_idx, p_idx + 1) => Rest(t_idx, p_idx)
    BY <2>1, <2>2, RestMany DEF Base
  <2>4. QED BY <2>1, <2>3 DEF Reached, Rest
<1>6. QED BY <1>2, <1>3, <1>4, <1>5

\* Whatever the levels of the topic are, and however many, the scan returns TRUE
\* only for a topic that the pattern accepts.
THEOREM NothingUnasked == Spec => []OnlyAccepted
<1>1. Init => ReachedInv
  <2> SUFFICES ASSUME Init PROVE Reached /\ OnlyAccepted
    BY DEF ReachedInv
  <2>1. Inputs /\ t_idx = 0 /\ p_idx = 0 /\ ~backtrack /\ result = "scanning"
    BY DEF Init, Inputs
  <2>2. Accepts(topic_parts, pattern_parts) <=> Rest(0, 0)
    BY <2>1, Lengths, AcceptsFromStart DEF Rest
  <2>3. QED BY <2>1, <2>2 DEF Reached, OnlyAccepted
<1>2. Inputs /\ TypeOK /\ SetAside /\ ReachedInv /\ [Next]_vars => ReachedInv'
  <2> SUFFICES ASSUME Base, ReachedInv, [Next]_vars PROVE ReachedInv'
    BY DEF Base
  <2>1. CASE UNCHANGED vars
    BY <2>1 DEF vars, scan, ReachedInv, Reached, OnlyAccepted, Rest
  <2>2. CASE MatchLevel \/ MeetMany \/ Backtrack \/ SkipMany
    <3>1. result = "scanning" /\ result' = "scanning"
      BY <2>2 DEF MatchLevel, MeetMany, Backtrack, SkipMany, Scanning
    <3>2. QED BY <2>2, <3>1, ReachedKept DEF ReachedInv, OnlyAccepted
  <2>3. CASE Fail
    BY <2>3 DEF Fail, ReachedInv, OnlyAccepted
  <2>4. CASE Finish
    <3>1. /\ result = "scanning" /\ UNCHANGED <<topic_parts, pattern_parts>>
          /\ result' = "true" => AllUsed
          /\ result' # "scanning"
      BY <2>4 DEF Finish
    <3>2. ASSUME AllUsed PROVE Accepts(topic_parts, pattern_parts)
      <4>1. t_idx = Len(topic_parts) /\ p_idx = Len(pattern_parts)
        BY <3>2 DEF AllUsed
      <4>2. Rest(t_idx, p_idx)
        BY <4>1, RestEnd DEF Base, TypeOK
      <4>3. QED BY <3>1, <4>2 DEF ReachedInv, Reached
    <3>3. QED BY <3>1, <3>2 DEF ReachedInv, OnlyAccepted
  <2>5. QED BY <2>1, <2>2, <2>3, <2>4 DEF Next
<1>3. ReachedInv => OnlyAccepted
  BY DEF ReachedInv
<1>4. QED BY <1>1, <1>2, <1>3, TypeCorrect, PTL DEF Spec

---------------------------------------------------------------------------
(* The rest of an alignment as one of the rest                             *)

\* A nonempty set of numbers has a least.
LEMMA Least ==
    ASSUME NEW S, S \subseteq Nat, S # {}
    PROVE  \E m \in S : \A n \in S : m <= n
<1>1. PICK m \in S : \A n \in S : <<n, m>> \notin OpToRel(<, Nat)
  BY NatLessThanWellFounded, WFMin
<1>2. \A n \in S : ~(n < m)
  BY <1>1 DEF OpToRel
<1>3. QED BY <1>2

\* An alignment never goes back: by the least level that would.
LEMMA NeverBack ==
    ASSUME NEW t, NEW p, Len(t) \in Nat, Len(p) \in Nat,
           NEW i \in 0..Len(t), NEW j \in 0..Len(p),
           NEW a \in Alignment(t, p), Continues(a, t, p, i, j)
    PROVE  \A l \in (j + 1)..(Len(p) + 1) : a[l] >= i + 1
<1> DEFINE S == {l \in (j + 1)..(Len(p) + 1) : ~(a[l] >= i + 1)}
<1>1. \A l \in 1..(Len(p) + 1) : a[l] \in Nat
  BY DEF Alignment
<1>2. ASSUME S # {} PROVE FALSE
  <2>1. S \subseteq Nat
    OBVIOUS
  <2>2. PICK l \in S : \A n \in S : l <= n
    BY <1>2, <2>1, Least
  <2>3. l # j + 1
    BY <2>2 DEF Continues
  <2>4. l - 1 \in (j + 1)..Len(p) /\ l - 1 \notin S
    BY <2>2, <2>3
  <2>5. a[l - 1] >= i + 1
    BY <2>4
  <2>6. Fits(a, t, p, l - 1) /\ l - 1 + 1 = l
    BY <2>4 DEF Continues
  <2>7. a[l] >= a[l - 1]
    BY <1>1, <2>2, <2>4, <2>6 DEF Fits
  <2>8. QED BY <1>1, <2>2, <2>4, <2>5, <2>7
<1>3. QED BY <1>2

LEMMA Shifted ==
    ASSUME NEW t, NEW p, NEW u, NEW q, Len(t) \in Nat, Len(p) \in Nat,
           NEW i \in 0..Len(t), NEW j \in 0..Len(p),
           Len(u) = Len(t) - i, \A k \in 1..Len(u) : u[k] = t[k + i],
           Len(q) = Len(p) - j, \A k \in 1..Len(q) : q[k] = p[k + j]
    PROVE  From(u, q, 0, 0) <=> From(t, p, i, j)
<1>1. Len(u) \in Nat /\ Len(q) \in Nat /\ i \in Nat /\ j \in Nat
  OBVIOUS
<1>2. ASSUME From(t, p, i, j) PROVE From(u, q, 0, 0)
  <2>1. PICK a \in Alignment(t, p) : Continues(a, t, p, i, j)
    BY <1>2 DEF From
  <2>2. \A l \in (j + 1)..(Len(p) + 1) : a[l] >= i + 1 /\ a[l] \in 1..(Len(t) + 1)
    <3>1. \A l \in (j + 1)..(Len(p) + 1) : a[l] >= i + 1
      BY <2>1, NeverBack
    <3>2. \A l \in 1..(Len(p) + 1) : a[l] \in 1..(Len(t) + 1)
      BY DEF Alignment
    <3>3. QED BY <1>1, <3>1, <3>2
  <2> DEFINE b == [l \in 1..(Len(q) + 1) |-> a[l + j] - i]
  <2>3. \A l \in 1..(Len(q) + 1) : b[l] = a[l + j] - i /\ l + j \in (j + 1)..(Len(p) + 1)
    BY <1>1
  <2>4. b \in Alignment(u, q)
    <3>1. \A l \in 1..(Len(q) + 1) : a[l + j] - i \in 1..(Len(u) + 1)
      BY <1>1, <2>2, <2>3
    <3>2. QED BY <3>1 DEF Alignment
  <2> HIDE DEF b
  <2>5. b[1] = 1 /\ b[Len(q) + 1] = Len(u) + 1
    <3>1. a[j + 1] = i + 1 /\ a[Len(p) + 1] = Len(t) + 1
      BY <2>1 DEF Continues
    <3>2. 1 + j = j + 1 /\ Len(q) + 1 + j = Len(p) + 1
      BY <1>1
    <3>3. b[1] = a[j + 1] - i /\ b[Len(q) + 1] = a[Len(p) + 1] - i
      BY <1>1, <2>3, <3>2
    <3>4. i + 1 - i = 1 /\ Len(t) + 1 - i = Len(u) + 1
      BY <1>1
    <3>5. QED BY <3>1, <3>3, <3>4
  <2>6. ASSUME NEW l \in 1..Len(q) PROVE Fits(b, u, q, l)
    <3>1. PICK k \in (j + 1)..Len(p) : k = l + j
      BY <1>1
    <3>2. l + 1 + j = k + 1 /\ k + 1 \in (j + 1)..(Len(p) + 1) /\ k \in (j + 1)..(Len(p) + 1)
      BY <1>1, <3>1
    <3>3. q[l] = p[k] /\ b[l] = a[k] - i /\ b[l + 1] = a[k + 1] - i
      BY <1>1, <2>3, <3>1, <3>2
    <3>4. Fits(a, t, p, k)
      BY <2>1, <3>1 DEF Continues
    <3>5. a[k] \in (i + 1)..(Len(t) + 1) /\ a[k + 1] \in (i + 1)..(Len(t) + 1)
      BY <1>1, <2>2, <3>2
    <3>6. CASE p[k] = MANY
      <4>1. a[k] <= a[k + 1]
        BY <3>4, <3>6 DEF Fits
      <4>2. b[l] <= b[l + 1]
        <5>1. \A m, n \in (i + 1)..(Len(t) + 1) : m <= n => m - i <= n - i
          BY <1>1
        <5>2. a[k] - i <= a[k + 1] - i
          BY <3>5, <4>1, <5>1
        <5>3. QED BY <3>3, <5>2
      <4>3. QED BY <3>3, <3>6, <4>2 DEF Fits
    <3>7. CASE p[k] # MANY
      <4>1. a[k] <= Len(t) /\ a[k + 1] = a[k] + 1 /\ p[k] \in {ONE, t[a[k]]}
        BY <3>4, <3>7 DEF Fits
      <4>2. b[l] \in 1..Len(u) /\ b[l] + i = a[k] /\ b[l] <= Len(u) /\ b[l + 1] = b[l] + 1
        <5>1. a[k] \in (i + 1)..Len(t)
          BY <1>1, <3>5, <4>1
        <5>2. \A n \in (i + 1)..Len(t) :
                n - i \in 1..Len(u) /\ n - i + i = n /\ n + 1 - i = n - i + 1
          BY <1>1
        <5>3. PICK n \in (i + 1)..Len(t) : n = a[k]
          BY <5>1
        <5>4. b[l] = n - i /\ b[l + 1] = n + 1 - i
          <6>1. a[k] = n /\ a[k + 1] = n + 1
            BY <4>1, <5>3
          <6>2. QED BY <3>3, <6>1
        <5>5. b[l] \in 1..Len(u) /\ b[l] + i = n /\ b[l + 1] = b[l] + 1
          <6>1. n - i \in 1..Len(u) /\ n - i + i = n /\ n + 1 - i = n - i + 1
            BY <5>2
          <6>2. QED BY <5>4, <6>1
        <5>6. QED BY <1>1, <5>3, <5>5
      <4>3. u[b[l]] = t[a[k]]
        BY <4>2
      <4>4. QED BY <3>3, <3>7, <4>1, <4>2, <4>3 DEF Fits
    <3>8. QED BY <3>6, <3>7
  <2>7. Continues(b, u, q, 0, 0)
    BY <1>1, <2>5, <2>6 DEF Continues
  <2>8. QED BY <2>4, <2>7 DEF From
<1>3. ASSUME From(u, q, 0, 0) PROVE From(t, p, i, j)
  <2>1. PICK b \in Alignment(u, q) : Continues(b, u, q, 0, 0)
    BY <1>3 DEF From
  <2>2. \A l \in 1..(Len(q) + 1) : b[l] \in 1..(Len(u) + 1)
    BY <2>1 DEF Alignment
  <2> DEFINE a == [l \in 1..(Len(p) + 1) |-> IF l <= j THEN 1 ELSE b[l - j] + i]
  <2>3. \A l \in (j + 1)..(Len(p) + 1) :
            a[l] = b[l - j] + i /\ l - j \in 1..(Len(q) + 1)
    BY <1>1
  <2>4. \A l \in (j + 1)..(Len(p) + 1) : b[l - j] + i \in 1..(Len(t) + 1)
    BY <1>1, <2>2, <2>3
  <2>5. a \in Alignment(t, p)
    <3>1. ASSUME NEW l \in 1..(Len(p) + 1)
          PROVE  (IF l <= j THEN 1 ELSE b[l - j] + i) \in 1..(Len(t) + 1)
      <4>1. CASE l <= j
        BY <4>1
      <4>2. CASE ~(l <= j)
        <5>1. l \in (j + 1)..(Len(p) + 1)
          BY <1>1, <4>2
        <5>2. QED BY <2>4, <4>2, <5>1
      <4>3. QED BY <4>1, <4>2
    <3>2. QED BY <3>1 DEF Alignment
  <2> HIDE DEF a
  <2>6. a[j + 1] = i + 1 /\ a[Len(p) + 1] = Len(t) + 1
    <3>1. b[1] = 1 /\ b[Len(q) + 1] = Len(u) + 1
      BY <2>1 DEF Continues
    <3>2. j + 1 - j = 1 /\ Len(p) + 1 - j = Len(q) + 1
      BY <1>1
    <3>3. a[j + 1] = b[1] + i /\ a[Len(p) + 1] = b[Len(q) + 1] + i
      BY <1>1, <2>3, <3>2
    <3>4. QED BY <1>1, <3>1, <3>3
  <2>7. ASSUME NEW l \in (j + 1)..Len(p) PROVE Fits(a, t, p, l)
    <3>1. PICK k \in 1..Len(q) : k = l - j
      BY <1>1
    <3>2. k + j = l /\ l + 1 - j = k + 1 /\ k \in 1..(Len(q) + 1) /\ k + 1 \in 1..(Len(q) + 1)
      BY <1>1, <3>1
    <3>3. q[k] = p[l] /\ a[l] = b[k] + i /\ a[l + 1] = b[k + 1] + i
      BY <1>1, <2>3, <3>1, <3>2
    <3>4. Fits(b, u, q, k)
      BY <2>1, <3>1 DEF Continues
    <3>5. b[k] \in 1..(Len(u) + 1) /\ b[k + 1] \in 1..(Len(u) + 1)
      BY <2>2, <3>2
    <3>6. CASE p[l] = MANY
      <4>1. b[k] <= b[k + 1]
        BY <3>3, <3>4, <3>6 DEF Fits
      <4>2. \A m, n \in 1..(Len(u) + 1) : m <= n => m + i <= n + i
        BY <1>1
      <4>3. a[l] <= a[l + 1]
        BY <3>3, <3>5, <4>1, <4>2
      <4>4. QED BY <3>6, <4>3 DEF Fits
    <3>7. CASE p[l] # MANY
      <4>1. b[k] <= Len(u) /\ b[k + 1] = b[k] + 1 /\ q[k] \in {ONE, u[b[k]]}
        BY <3>3, <3>4, <3>7 DEF Fits
      <4>2. b[k] \in 1..Len(u) /\ a[l] <= Len(t) /\ a[l + 1] = a[l] + 1
        <5>1. b[k] \in 1..Len(u)
          BY <1>1, <3>5, <4>1
        <5>2. \A n \in 1..Len(u) : n + i <= Len(t) /\ n + 1 + i = n + i + 1
          BY <1>1
        <5>3. QED BY <3>3, <4>1, <5>1, <5>2
      <4>3. u[b[k]] = t[a[l]]
        BY <3>3, <4>2
      <4>4. QED BY <3>3, <3>7, <4>1, <4>2, <4>3 DEF Fits
    <3>8. QED BY <3>6, <3>7
  <2>8. QED BY <2>5, <2>6, <2>7 DEF From, Continues
<1>4. QED BY <1>2, <1>3

\* What is left of a sequence of n elements after the first i.
LEMMA Leftover ==
    ASSUME NEW S, NEW s \in Seq(S), NEW i \in 0..Len(s)
    PROVE  /\ Len(SubSeq(s, i + 1, Len(s))) = Len(s) - i
           /\ \A k \in 1..(Len(s) - i) : SubSeq(s, i + 1, Len(s))[k] = s[k + i]
<1>1. Len(s) \in Nat /\ \A k \in (i + 1)..Len(s) : s[k] \in S
  OBVIOUS
<1>2. /\ Len(SubSeq(s, i + 1, Len(s))) =
           IF i + 1 <= Len(s) THEN Len(s) - (i + 1) + 1 ELSE 0
      /\ \A k \in 1..(Len(s) - (i + 1) + 1) : SubSeq(s, i + 1, Len(s))[k] = s[i + 1 + k - 1]
  BY <1>1, SubSeqProperties
<1>3. /\ Len(s) - (i + 1) + 1 = Len(s) - i
      /\ i + 1 <= Len(s) \/ Len(s) - i = 0
      /\ \A k \in Int : i + 1 + k - 1 = k + i
  BY <1>1
<1>4. Len(SubSeq(s, i + 1, Len(s))) = Len(s) - i
  BY <1>2, <1>3
<1>5. ASSUME NEW k \in 1..(Len(s) - i)
      PROVE  SubSeq(s, i + 1, Len(s))[k] = s[k + i]
  <2>1. k \in 1..(Len(s) - (i + 1) + 1)
    BY <1>3
  <2>2. SubSeq(s, i + 1, Len(s))[k] = s[i + 1 + k - 1]
    BY <1>2, <2>1
  <2>3. i + 1 + k - 1 = k + i
    BY <1>1
  <2>4. QED BY <2>2, <2>3
<1>6. QED BY <1>4, <1>5

LEMMA AheadIsFrom ==
    ASSUME NEW S, NEW t \in Seq(S), NEW p \in Seq(S),
           NEW i \in 0..Len(t), NEW j \in 0..Len(p)
    PROVE  Ahead(t, p, i, j) <=> From(t, p, i, j)
<1>1. Len(t) \in Nat /\ Len(p) \in Nat
  OBVIOUS
<1> DEFINE u == SubSeq(t, i + 1, Len(t))
           q == SubSeq(p, j + 1, Len(p))
<1>2. /\ Len(u) = Len(t) - i /\ \A k \in 1..Len(u) : u[k] = t[k + i]
      /\ Len(q) = Len(p) - j /\ \A k \in 1..Len(q) : q[k] = p[k + j]
  BY Leftover
<1>3. Ahead(t, p, i, j) <=> Accepts(u, q)
  BY DEF Ahead
<1> HIDE DEF u, q
<1>4. Len(q) \in Nat
  BY <1>1, <1>2
<1>5. Accepts(u, q) <=> From(u, q, 0, 0)
  BY <1>4, AcceptsFromStart
<1>6. From(u, q, 0, 0) <=> From(t, p, i, j)
  BY <1>1, <1>2, Shifted
<1>7. QED BY <1>3, <1>5, <1>6

\* What the scan forgets at each '*' is never needed, for topics and patterns of
\* any length: the answer lies ahead of it or of the last '*'.
THEOREM LastManySuffices == Spec => []LastManyIsEnough
<1>1. Inputs /\ TypeOK /\ ScanInv => LastManyIsEnough
  <2> SUFFICES ASSUME Inputs, TypeOK, ScanInv, result = "scanning", Plain
               PROVE  Accepts(topic_parts, pattern_parts) <=>
                        \/ Ahead(topic_parts, pattern_parts, t_idx, p_idx)
                        \/ backtrack /\ Ahead(topic_parts, pattern_parts, t_back, p_back)
    BY DEF LastManyIsEnough, Plain
  <2>1. topic_parts \in Seq(STRING) /\ pattern_parts \in Seq(STRING)
    BY TopicMatchAssumption DEF Inputs
  <2>2. /\ Ahead(topic_parts, pattern_parts, t_idx, p_idx) <=> Rest(t_idx, p_idx)
        /\ Ahead(topic_parts, pattern_parts, t_back, p_back) <=> Rest(t_back, p_back)
    BY <2>1, AheadIsFrom DEF TypeOK, Rest
  <2>3. QED BY <2>2 DEF ScanInv, Decided
<1>2. QED BY <1>1, TypeCorrect, ScanInvariant, PTL
=============================================================================
