-------------------------- MODULE PublisherProofs --------------------------
(***************************************************************************)
(* Proofs about Publisher, for any command lines, lists of payloads and    *)
(* lines typed: types, and what the loops of the three modes have sent.    *)
(***************************************************************************)
EXTENDS Publisher, TLAPS

\* The list of payloads is a sequence.
LEMMA ListType ==
    ASSUME PublisherTypeOK
    PROVE  /\ Len(input_file) \in Nat
           /\ DOMAIN input_file = 1..Len(input_file)
  BY PublisherAssumption DEF PublisherTypeOK, input_file

\* What SendMessage does to the sequence of messages sent.
LEMMA SendMessageStep ==
    ASSUME PublisherTypeOK, NEW k \in DOMAIN input_file, SendMessage(k)
    PROVE  /\ UNCHANGED <<args, position>>
           /\ \/ sent' = sent /\ stage' = "failed"
              \/ /\ sent' = Append(sent, k)
                 /\ Len(sent') = Len(sent) + 1
                 /\ \A j \in 1..Len(sent) : sent'[j] = sent[j]
                 /\ sent'[Len(sent) + 1] = k
                 /\ sent' \in Seq(DOMAIN args.input_file)
                 /\ input_file[k].decodable
                 /\ stage' = IF RaisesLate(k) THEN "failed" ELSE "sleeping"
<1>1. CASE /\ Sendable(k) /\ sent' = Append(sent, k)
           /\ stage' = IF RaisesLate(k) THEN "failed" ELSE "sleeping"
  <2>1. sent \in Seq(DOMAIN args.input_file) /\ k \in DOMAIN args.input_file
    BY DEF PublisherTypeOK, input_file
  <2>2. /\ sent' \in Seq(DOMAIN args.input_file)
        /\ Len(sent') = Len(sent) + 1
        /\ \A j \in 1..Len(sent) : sent'[j] = sent[j]
        /\ sent'[Len(sent) + 1] = k
    BY <1>1, <2>1
  <2>3. QED BY <1>1, <2>2 DEF SendMessage, Sendable
<1>2. CASE sent' = sent /\ stage' = "failed"
  BY <1>2 DEF SendMessage
<1>3. QED BY <1>1, <1>2 DEF SendMessage

---------------------------------------------------------------------------

\* The steps of the publisher, sorted by what they do to sent and position.
LEMMA Steps ==
    ASSUME PublisherTypeOK, PublisherNext
    PROVE  \/ ParseArgs \/ SetupSocket \/ RunMode \/ Wake \/ EndOfLoop
           \/ /\ mode # "manual" /\ stage = "turn" /\ chosen' = chosen
              /\ mode = "all_once" \/ (mode = "random" /\ More)
              /\ \/ GoTo("failed")
                 \/ \E k \in DOMAIN input_file :
                      SendMessage(k) /\ (mode = "all_once" => k = position + 1)
           \/ /\ mode = "manual" /\ stage = "turn"
              /\ \E line \in Lines : chosen' = Append(chosen, line)
              /\ \/ /\ stage' \in {"turn", "done", "failed"}
                    /\ UNCHANGED <<args, position, sent>>
                 \/ \E k \in DOMAIN input_file : SendMessage(k)
<1>1. CASE SendNext
  <2>1. position + 1 \in DOMAIN input_file
    BY <1>1, ListType DEF SendNext, Listed
  <2>2. QED BY <1>1, <2>1 DEF SendNext
<1>2. CASE SendRandom
  BY <1>2 DEF SendRandom, GoTo
<1>3. ASSUME NEW line \in Lines, Leave(line) \/ Stumble(line)
      PROVE  /\ mode = "manual" /\ stage = "turn"
             /\ chosen' = Append(chosen, line)
             /\ stage' \in {"done", "failed"}
             /\ UNCHANGED <<args, position, sent>>
  BY <1>3 DEF Leave, Stumble, Typed
<1>4. ASSUME NEW line \in Lines, Choose(line)
      PROVE  /\ mode = "manual" /\ stage = "turn"
             /\ chosen' = Append(chosen, line)
             /\ \/ stage' = "turn" /\ UNCHANGED <<args, position, sent>>
                \/ \E k \in DOMAIN input_file : SendMessage(k)
  <2>1. CASE InRange(line)
    <3>1. line + 1 \in DOMAIN input_file
      BY <1>4, <2>1, ListType DEF Choose, InRange
    <3>2. QED BY <1>4, <2>1, <3>1 DEF Choose, Typed
  <2>2. CASE ~InRange(line)
    BY <1>4, <2>2 DEF Choose, Typed
  <2>3. QED BY <2>1, <2>2
<1>5. QED BY <1>1, <1>2, <1>3, <1>4 DEF PublisherNext, PublisherRuns, UserTypes

\* The variables of the UDP client keep their types: what is sent is always an
\* entry of the list, whatever is typed and however many times the loops turn.
THEOREM PublisherTypeCorrect == PublisherSpec => []PublisherTypeOK
<1>1. PublisherInit => PublisherTypeOK
  BY DEF PublisherInit, PublisherTypeOK, Stages, Ended
<1>2. PublisherTypeOK /\ [PublisherNext]_publisherVars => PublisherTypeOK'
  <2> SUFFICES ASSUME PublisherTypeOK, [PublisherNext]_publisherVars
               PROVE  PublisherTypeOK'
    OBVIOUS
  <2>1. CASE ParseArgs \/ SetupSocket \/ RunMode \/ Wake \/ EndOfLoop
    BY <2>1 DEF PublisherTypeOK, ParseArgs, SetupSocket, RunMode, Wake, EndOfLoop, GoTo,
       Stages, Ended
  <2>2. ASSUME NEW k \in DOMAIN input_file, SendMessage(k)
        PROVE  /\ args' \in CommandLines /\ stage' \in Stages /\ position' \in Nat
               /\ sent' \in Seq(DOMAIN args'.input_file)
    BY <2>2, SendMessageStep DEF PublisherTypeOK, Stages, Ended
  <2>3. CASE chosen' = chosen /\ GoTo("failed")
    BY <2>3 DEF PublisherTypeOK, GoTo, Stages, Ended
  <2>4. CASE stage' \in {"turn", "done", "failed"} /\ UNCHANGED <<args, position, sent>>
             /\ \E line \in Lines : chosen' = Append(chosen, line)
    BY <2>4 DEF PublisherTypeOK, Stages, Ended
  <2>5. CASE (\E line \in Lines : chosen' = Append(chosen, line)) \/ chosen' = chosen
    <3>1. chosen' \in Seq(Lines)
      BY <2>5 DEF PublisherTypeOK
    <3>2. CASE \E k \in DOMAIN input_file : SendMessage(k)
      BY <2>2, <3>1, <3>2 DEF PublisherTypeOK
    <3>3. CASE ~\E k \in DOMAIN input_file : SendMessage(k)
      BY <2>1, <2>3, <2>4, <3>3, Steps DEF PublisherTypeOK, publisherVars
    <3>4. QED BY <3>2, <3>3
  <2>6. CASE UNCHANGED publisherVars
    BY <2>6 DEF PublisherTypeOK, publisherVars
  <2>7. QED BY <2>1, <2>5, <2>6, Steps
<1>3. QED BY <1>1, <1>2, PTL DEF PublisherSpec

---------------------------------------------------------------------------
(* What has been sent.  The properties are not inductive: they need that    *)
(* position counts the messages of the loop, whether it sleeps or not, and  *)
(* that nothing was sent before it began.                                   *)

Counted ==
    /\ stage \in {"start", "parsed", "bound"} => sent = <<>> /\ position = 0
    /\ mode # "manual" =>
         /\ stage = "turn" => Len(sent) = position
         /\ stage = "sleeping" => Len(sent) = position + 1

InListOrder ==
    mode = "all_once" =>
        /\ \A j \in 1..Len(sent) : sent[j] = j
        /\ stage = "done" => Len(sent) >= Len(input_file)

WithinCount ==
    mode = "random" /\ args.count \in Int =>
        /\ Len(sent) > 0 => Len(sent) <= args.count
        /\ stage = "done" => Len(sent) >= args.count

FaultIsLast ==
    \A j \in 1..Len(sent) :
        /\ input_file[sent[j]].decodable
        /\ RaisesLate(sent[j]) => j = Len(sent) /\ stage = "failed"

SentInv == Counted /\ InListOrder /\ WithinCount /\ FaultIsLast

LEMMA SetupKeeps ==
    ASSUME PublisherTypeOK, SentInv, ParseArgs \/ SetupSocket \/ RunMode
    PROVE  SentInv'
<1>1. /\ stage \in {"start", "parsed", "bound"}
      /\ stage' \in {"parsed", "usage", "bound", "failed", "turn"}
      /\ UNCHANGED <<args, position, sent>>
  BY DEF ParseArgs, SetupSocket, RunMode, GoTo
<1>2. sent = <<>> /\ position = 0 /\ Len(sent) = 0
  BY <1>1 DEF SentInv, Counted
<1>3. QED
  BY <1>1, <1>2 DEF SentInv, Counted, InListOrder, WithinCount, FaultIsLast, mode, input_file

LEMMA LoopKeeps ==
    ASSUME PublisherTypeOK, SentInv, Wake \/ EndOfLoop
    PROVE  SentInv'
<1>1. UNCHANGED <<args, sent>> /\ Len(sent) \in Nat /\ position \in Nat
  BY DEF Wake, EndOfLoop, GoTo, PublisherTypeOK
<1>2. CASE Wake
  BY <1>1, <1>2
  DEF Wake, SentInv, Counted, InListOrder, WithinCount, FaultIsLast, RaisesLate, delay,
      mode, input_file
<1>3. CASE EndOfLoop
  <2>1. stage = "turn" /\ stage' = "done" /\ mode \in {"all_once", "random"}
    BY <1>3 DEF EndOfLoop, GoTo
  <2>2. Len(sent) = position
    BY <2>1 DEF SentInv, Counted
  <2>3. mode = "all_once" => Len(sent) >= Len(input_file)
    BY <1>1, <1>3, <2>2, ListType DEF EndOfLoop, Listed
  <2>4. mode = "random" /\ args.count \in Int => Len(sent) >= args.count
    BY <1>1, <1>3, <2>2, PublisherAssumption DEF EndOfLoop, More
  <2>5. QED
    BY <1>1, <2>1, <2>3, <2>4
    DEF SentInv, Counted, InListOrder, WithinCount, FaultIsLast, RaisesLate, delay, mode,
        input_file
<1>4. QED BY <1>2, <1>3

LEMMA SendKeeps ==
    ASSUME PublisherTypeOK, SentInv, stage = "turn",
           NEW k \in DOMAIN input_file, SendMessage(k),
           mode = "all_once" => k = position + 1,
           mode = "random" => More
    PROVE  SentInv'
<1>1. UNCHANGED <<args, position, mode, input_file, delay>>
  BY SendMessageStep DEF mode, input_file, delay
<1>2. Len(sent) \in Nat /\ position \in Nat
  BY DEF PublisherTypeOK
<1>3. CASE sent' = sent /\ stage' = "failed"
  BY <1>1, <1>3
  DEF SentInv, Counted, InListOrder, WithinCount, FaultIsLast, RaisesLate
<1>4. CASE /\ Len(sent') = Len(sent) + 1
           /\ \A j \in 1..Len(sent) : sent'[j] = sent[j]
           /\ sent'[Len(sent) + 1] = k
           /\ input_file[k].decodable
           /\ stage' = IF RaisesLate(k) THEN "failed" ELSE "sleeping"
  <2>1. Counted'
    BY <1>1, <1>2, <1>4 DEF SentInv, Counted
  <2>2. InListOrder'
    BY <1>1, <1>2, <1>4 DEF SentInv, Counted, InListOrder
  <2>3. WithinCount'
    <3>1. mode = "random" /\ args.count \in Int => Len(sent) < args.count
      BY <1>2, PublisherAssumption DEF SentInv, Counted, More
    <3>2. QED BY <1>1, <1>2, <1>4, <3>1 DEF WithinCount
  <2>4. FaultIsLast'
    <3>1. ASSUME NEW j \in 1..Len(sent) PROVE input_file[sent[j]].decodable /\ ~RaisesLate(sent[j])
      BY <3>1 DEF SentInv, FaultIsLast
    <3>2. ASSUME NEW j \in 1..(Len(sent) + 1)
          PROVE  /\ input_file[sent'[j]].decodable
                 /\ RaisesLate(sent'[j]) => j = Len(sent') /\ stage' = "failed"
      <4>1. CASE j \in 1..Len(sent)
        BY <1>4, <3>1, <4>1
      <4>2. CASE j = Len(sent) + 1
        BY <1>4, <4>2
      <4>3. QED BY <1>2, <3>2, <4>1, <4>2
    <3>3. QED BY <1>1, <1>4, <3>2 DEF FaultIsLast, RaisesLate
  <2>5. QED BY <2>1, <2>2, <2>3, <2>4 DEF SentInv
<1>5. QED BY <1>3, <1>4, SendMessageStep

\* What holds of the datagrams sent, at every moment and in all modes.
THEOREM SentInvariant == PublisherSpec => []SentInv
<1>1. PublisherInit => SentInv
  BY DEF PublisherInit, SentInv, Counted, InListOrder, WithinCount, FaultIsLast
<1>2. PublisherTypeOK /\ SentInv /\ [PublisherNext]_publisherVars => SentInv'
  <2> SUFFICES ASSUME PublisherTypeOK, SentInv, [PublisherNext]_publisherVars
               PROVE  SentInv'
    OBVIOUS
  <2>1. CASE stage = "turn" /\ stage' \in {"turn", "done", "failed"}
             /\ UNCHANGED <<args, position, sent>> /\ (mode # "manual" => stage' = "failed")
    BY <2>1
    DEF SentInv, Counted, InListOrder, WithinCount, FaultIsLast, RaisesLate, delay, mode,
        input_file
  <2>2. CASE UNCHANGED publisherVars
    BY <2>2
    DEF publisherVars, SentInv, Counted, InListOrder, WithinCount, FaultIsLast, RaisesLate,
        delay, mode, input_file
  <2>3. CASE PublisherNext
    <3>1. ASSUME mode # "manual", stage = "turn", mode = "all_once" \/ (mode = "random" /\ More),
                 NEW k \in DOMAIN input_file, SendMessage(k), mode = "all_once" => k = position + 1
          PROVE  SentInv'
      BY <3>1, SendKeeps
    <3>2. ASSUME mode = "manual", stage = "turn", NEW k \in DOMAIN input_file, SendMessage(k)
          PROVE  SentInv'
      BY <3>2, SendKeeps
    <3>3. CASE mode # "manual" /\ stage = "turn" /\ GoTo("failed")
      BY <2>1, <3>3 DEF GoTo
    <3>4. QED BY <2>1, <2>3, <3>1, <3>2, <3>3, Steps, SetupKeeps, LoopKeeps
  <2>4. QED BY <2>2, <2>3
<1>3. QED BY <1>1, <1>2, PublisherTypeCorrect, PTL DEF PublisherSpec

\* run_all_once sends the first entries of the list in order, whatever ends the
\* program, and the whole list when it returns, for every list.
THEOREM ListSentInOrder == PublisherSpec => []AllOnceInOrder
<1>1. PublisherTypeOK /\ SentInv => AllOnceInOrder
  <2> SUFFICES ASSUME PublisherTypeOK, SentInv, mode = "all_once" PROVE AllOnceInOrder
    BY DEF AllOnceInOrder
  <2>1. /\ Len(sent) \in Nat /\ DOMAIN sent = 1..Len(sent)
        /\ sent = [j \in DOMAIN sent |-> sent[j]]
        /\ \A j \in DOMAIN sent : sent[j] \in DOMAIN input_file
    BY DEF PublisherTypeOK, input_file
  <2>2. \A j \in 1..Len(sent) : sent[j] = j
    BY DEF SentInv, InListOrder
  <2>3. sent = [j \in 1..Len(sent) |-> j]
    BY <2>1, <2>2
  <2>4. Len(sent) <= Len(input_file)
    BY <2>1, <2>2, ListType
  <2>5. stage = "done" => Len(sent) = Len(input_file)
    <3>1. Len(input_file) \in Nat
      BY ListType
    <3>2. stage = "done" => Len(sent) >= Len(input_file)
      BY DEF SentInv, InListOrder
    <3>3. QED BY <2>1, <2>4, <3>1, <3>2
  <2>6. QED BY <2>3, <2>5 DEF AllOnceInOrder
<1>2. QED BY <1>1, SentInvariant, PublisherTypeCorrect, PTL

\* run_random sends as many messages as --count says, for every count.
THEOREM CountRespected == PublisherSpec => []CountHonoured
<1>1. PublisherTypeOK /\ SentInv => CountHonoured
  <2> SUFFICES ASSUME PublisherTypeOK, SentInv, mode = "random", args.count \in Int
               PROVE  /\ Len(sent) > 0 => Len(sent) <= args.count
                      /\ stage = "done" => Len(sent) = args.count \/ args.count <= 0
    BY DEF CountHonoured
  <2>1. Len(sent) \in Nat
    BY DEF PublisherTypeOK
  <2>2. /\ Len(sent) > 0 => Len(sent) <= args.count
        /\ stage = "done" => Len(sent) >= args.count
    BY DEF SentInv, WithinCount
  <2>3. QED BY <2>1, <2>2
<1>2. QED BY <1>1, SentInvariant, PublisherTypeCorrect, PTL

\* An exception in send_message, before or after its datagram is on the way,
\* ends the program: no further entry is sent and it does not return.
THEOREM FaultsAreFinal == PublisherSpec => []FaultsEndTheRun
<1>1. PublisherTypeOK /\ SentInv => FaultsEndTheRun
  BY DEF PublisherTypeOK, SentInv, FaultIsLast, FaultsEndTheRun, RaisesLate
<1>2. QED BY <1>1, SentInvariant, PublisherTypeCorrect, PTL

---------------------------------------------------------------------------
(* Manual mode.  f says which line each message answers.  The last line may *)
(* be unanswered only when it has ended the program: at the prompt, and in  *)
(* the sleep after a message, every choice has been answered.              *)

Answers(f) ==
    /\ f \in [1..Len(sent) -> 1..Len(chosen)]
    /\ \A j \in 1..Len(sent) : InRange(chosen[f[j]]) /\ chosen[f[j]] \in Int
                              /\ sent[j] = chosen[f[j]] + 1
    /\ \A j, k \in 1..Len(sent) : j < k => f[j] < f[k]
    /\ \A i \in 1..Len(chosen) :
          \/ chosen[i] \notin Int \/ ~InRange(chosen[i])
          \/ \E j \in 1..Len(sent) : f[j] = i
          \/ stage = "failed" /\ i = Len(chosen)

Prompt ==
    mode = "manual" =>
        /\ stage \in {"start", "parsed", "bound"} => chosen = <<>>
        /\ \E f : Answers(f)

\* A step that types nothing and sends nothing keeps the answers.
LEMMA QuietKeepsPrompt ==
    ASSUME Prompt, UNCHANGED <<args, sent, chosen>>, stage = "failed" => stage' = "failed",
           stage' \in {"start", "parsed", "bound"} => stage \in {"start", "parsed", "bound"}
    PROVE  Prompt'
<1>1. UNCHANGED <<mode, input_file>>
  BY DEF mode, input_file
<1>2. \A f : Answers(f) => Answers(f)'
  BY <1>1 DEF Answers, InRange
<1>3. QED BY <1>1, <1>2 DEF Prompt

\* A line typed while every choice has been answered.
LEMMA LineKeepsPrompt ==
    ASSUME PublisherTypeOK, Prompt, mode = "manual", stage = "turn",
           NEW line \in Lines, Leave(line) \/ Stumble(line) \/ Choose(line)
    PROVE  Prompt'
<1>1. PICK f : Answers(f)
  BY DEF Prompt
<1>2. /\ Len(chosen) \in Nat /\ Len(sent) \in Nat
      /\ chosen' = Append(chosen, line)
      /\ Len(chosen') = Len(chosen) + 1
      /\ \A i \in 1..Len(chosen) : chosen'[i] = chosen[i]
      /\ chosen'[Len(chosen) + 1] = line
  <2>1. chosen \in Seq(Lines) /\ Len(chosen) \in Nat /\ Len(sent) \in Nat
    BY DEF PublisherTypeOK
  <2>2. chosen' = Append(chosen, line)
    BY DEF Leave, Stumble, Choose, Typed
  <2>3. QED BY <2>1, <2>2
<1>3. \A i \in 1..Len(chosen) :
        \/ chosen[i] \notin Int \/ ~InRange(chosen[i])
        \/ \E j \in 1..Len(sent) : f[j] = i
  BY <1>1 DEF Answers
<1>4. CASE UNCHANGED <<args, sent>> /\ (line \in Int /\ InRange(line) => stage' = "failed")
           /\ stage' \in {"turn", "done", "failed"}
  <2>1. UNCHANGED <<mode, input_file>> /\ \A n : InRange(n)' = InRange(n)
    BY <1>4 DEF mode, input_file, InRange
  <2>2. f \in [1..Len(sent) -> 1..Len(chosen')]
    BY <1>1, <1>2 DEF Answers
  <2>3. ASSUME NEW i \in 1..Len(chosen')
        PROVE  \/ chosen'[i] \notin Int \/ ~InRange(chosen'[i])
               \/ \E j \in 1..Len(sent) : f[j] = i
               \/ stage' = "failed" /\ i = Len(chosen')
    <3>1. CASE i \in 1..Len(chosen)
      BY <1>2, <1>3, <3>1
    <3>2. CASE i = Len(chosen) + 1
      BY <1>2, <1>4, <3>2
    <3>3. QED BY <1>2, <3>1, <3>2
  <2>4. ASSUME NEW j \in 1..Len(sent)
        PROVE  InRange(chosen'[f[j]]) /\ chosen'[f[j]] \in Int /\ sent[j] = chosen'[f[j]] + 1
    <3>1. f[j] \in 1..Len(chosen)
      BY <1>1 DEF Answers
    <3>2. QED BY <1>1, <1>2, <3>1 DEF Answers
  <2>5. Answers(f)'
    BY <1>1, <1>4, <2>1, <2>2, <2>3, <2>4 DEF Answers
  <2>6. QED BY <1>4, <2>5 DEF Prompt
<1>5. CASE line \in Int /\ InRange(line) /\ SendMessage(line + 1) /\ sent' # sent
  <2>1. line + 1 \in DOMAIN input_file
    BY <1>5, ListType DEF InRange
  <2>2. /\ UNCHANGED <<args, mode, input_file>>
        /\ Len(sent') = Len(sent) + 1
        /\ \A j \in 1..Len(sent) : sent'[j] = sent[j]
        /\ sent'[Len(sent) + 1] = line + 1
        /\ stage' \in {"failed", "sleeping"}
        /\ \A n : InRange(n)' = InRange(n)
    BY <1>5, <2>1, SendMessageStep DEF mode, input_file, InRange
  <2> DEFINE extended ==
               [j \in 1..(Len(sent) + 1) |-> IF j = Len(sent) + 1 THEN Len(chosen) + 1 ELSE f[j]]
  <2>0. PICK g : g = extended
    OBVIOUS
  <2>3. /\ g \in [1..(Len(sent) + 1) -> 1..(Len(chosen) + 1)]
        /\ \A j \in 1..Len(sent) : g[j] = f[j] /\ f[j] \in 1..Len(chosen)
        /\ g[Len(sent) + 1] = Len(chosen) + 1
    <3>1. \A j \in 1..Len(sent) : f[j] \in 1..Len(chosen)
      BY <1>1 DEF Answers
    <3>2. \A j \in 1..Len(sent) : j # Len(sent) + 1
      BY <1>2
    <3>3. \A j \in 1..(Len(sent) + 1) : j = Len(sent) + 1 \/ j \in 1..Len(sent)
      BY <1>2
    <3>4. QED BY <1>2, <2>0, <3>1, <3>2, <3>3
  <2> HIDE DEF extended
  <2>4. ASSUME NEW j \in 1..(Len(sent) + 1)
        PROVE  InRange(chosen'[g[j]]) /\ chosen'[g[j]] \in Int /\ sent'[j] = chosen'[g[j]] + 1
    <3>1. CASE j \in 1..Len(sent)
      BY <1>1, <1>2, <2>2, <2>3, <3>1 DEF Answers
    <3>2. CASE j = Len(sent) + 1
      BY <1>2, <1>5, <2>2, <2>3, <3>2
    <3>3. j \in 1..Len(sent) \/ j = Len(sent) + 1
      BY <1>2
    <3>4. QED BY <3>1, <3>2, <3>3
  <2>5. ASSUME NEW j \in 1..(Len(sent) + 1), NEW k \in 1..(Len(sent) + 1), j < k
        PROVE  g[j] < g[k]
    <3>1. j \in 1..Len(sent)
      BY <1>2, <2>5
    <3>2. CASE k \in 1..Len(sent)
      BY <1>1, <2>3, <2>5, <3>1, <3>2 DEF Answers
    <3>3. CASE k = Len(sent) + 1
      BY <1>2, <2>3, <3>1, <3>3
    <3>4. QED BY <1>2, <3>2, <3>3
  <2>6. ASSUME NEW i \in 1..(Len(chosen) + 1)
        PROVE  \/ chosen'[i] \notin Int \/ ~InRange(chosen'[i])
               \/ \E j \in 1..(Len(sent) + 1) : g[j] = i
    <3>1. CASE i \in 1..Len(chosen)
      BY <1>2, <1>3, <2>3, <3>1
    <3>2. CASE i = Len(chosen) + 1
      BY <1>2, <2>3, <3>2
    <3>3. QED BY <1>2, <3>1, <3>2
  <2>7. Answers(g)'
    BY <1>2, <2>2, <2>3, <2>4, <2>5, <2>6 DEF Answers
  <2>8. QED BY <2>2, <2>7 DEF Prompt
<1>6. CASE Choose(line)
  <2>1. CASE InRange(line) /\ SendMessage(line + 1)
    <3>1. line + 1 \in DOMAIN input_file
      BY <1>6, <2>1, ListType DEF InRange, Choose
    <3>2. CASE sent' = sent /\ stage' = "failed" /\ UNCHANGED args
      BY <1>4, <3>2
    <3>3. CASE Len(sent') = Len(sent) + 1
      BY <1>2, <1>5, <1>6, <2>1, <3>3 DEF Choose
    <3>4. QED BY <2>1, <3>1, <3>2, <3>3, SendMessageStep
  <2>2. CASE ~InRange(line) /\ UNCHANGED <<args, stage, position, sent>>
    BY <1>4, <2>2
  <2>3. QED BY <1>6, <2>1, <2>2 DEF Choose
<1>7. CASE Leave(line) \/ Stumble(line)
  <2>1. line \notin Int
    BY <1>7, PublisherAssumption DEF Leave, Stumble
  <2>2. QED BY <1>4, <1>7, <2>1 DEF Leave, Stumble
<1>8. QED BY <1>6, <1>7

THEOREM PromptAnswered == PublisherSpec => []Prompt
<1>1. PublisherInit => Prompt
  <2> SUFFICES ASSUME PublisherInit PROVE Answers(<<>>)
    BY DEF PublisherInit, Prompt
  <2>1. Len(sent) = 0 /\ Len(chosen) = 0 /\ <<>> \in [1..0 -> 1..0]
    BY DEF PublisherInit
  <2>2. QED BY <2>1 DEF Answers
<1>2. PublisherTypeOK /\ Prompt /\ [PublisherNext]_publisherVars => Prompt'
  <2> SUFFICES ASSUME PublisherTypeOK, Prompt, [PublisherNext]_publisherVars
               PROVE  Prompt'
    OBVIOUS
  <2>1. CASE ParseArgs \/ SetupSocket \/ RunMode \/ Wake \/ EndOfLoop
    <3>1. /\ UNCHANGED <<args, sent, chosen>>
          /\ stage # "failed"
          /\ stage' \in {"start", "parsed", "bound"} => stage \in {"start", "parsed", "bound"}
      BY <2>1 DEF ParseArgs, SetupSocket, RunMode, Wake, EndOfLoop, GoTo
    <3>2. QED BY <3>1, QuietKeepsPrompt
  <2>2. CASE SendNext \/ SendRandom
    <3>1. mode # "manual" /\ mode' = mode
      BY <2>2 DEF SendNext, SendRandom, SendMessage, GoTo, mode
    <3>2. QED BY <3>1 DEF Prompt
  <2>3. CASE UserTypes
    <3>1. PICK line \in Lines : Leave(line) \/ Stumble(line) \/ Choose(line)
      BY <2>3 DEF UserTypes
    <3>2. mode = "manual" /\ stage = "turn"
      BY <3>1 DEF Leave, Stumble, Choose, Typed
    <3>3. QED BY <3>1, <3>2, LineKeepsPrompt
  <2>4. CASE UNCHANGED publisherVars
    BY <2>4, QuietKeepsPrompt DEF publisherVars
  <2>5. QED BY <2>1, <2>2, <2>3, <2>4 DEF PublisherNext, PublisherRuns
<1>3. QED BY <1>1, <1>2, PublisherTypeCorrect, PTL DEF PublisherSpec

\* What is sent in manual mode answers the choices one by one, in the order they
\* were typed, for any list and any lines, and misses only one that failed.
THEOREM ChoicesAnswered == PublisherSpec => []ManualSendsChoices
<1>1. PublisherTypeOK /\ Prompt => ManualSendsChoices
  <2> SUFFICES ASSUME PublisherTypeOK, Prompt, mode = "manual"
               PROVE  \E f \in [DOMAIN sent -> Choices] :
                        /\ \A j \in DOMAIN sent : sent[j] = chosen[f[j]] + 1
                        /\ \A j, k \in DOMAIN sent : j < k => f[j] < f[k]
                        /\ \A i \in Choices :
                              \/ \E j \in DOMAIN sent : f[j] = i
                              \/ stage = "failed" /\ i = Len(chosen)
    BY DEF ManualSendsChoices
  <2>1. PICK f : Answers(f)
    BY DEF Prompt
  <2>2. DOMAIN sent = 1..Len(sent) /\ DOMAIN chosen = 1..Len(chosen)
    BY DEF PublisherTypeOK
  <2>3. Choices = {i \in 1..Len(chosen) : chosen[i] \in Int /\ InRange(chosen[i])}
    BY <2>2, ListType DEF Choices, InRange
  <2>4. f \in [DOMAIN sent -> Choices]
    BY <2>1, <2>2, <2>3 DEF Answers
  <2>5. /\ \A j \in DOMAIN sent : sent[j] = chosen[f[j]] + 1
        /\ \A j, k \in DOMAIN sent : j < k => f[j] < f[k]
        /\ \A i \in Choices :
              \/ \E j \in DOMAIN sent : f[j] = i
              \/ stage = "failed" /\ i = Len(chosen)
    BY <2>1, <2>2, <2>3 DEF Answers
  <2>6. QED BY <2>4, <2>5
<1>2. QED BY <1>1, PromptAnswered, PublisherTypeCorrect, PTL
=============================================================================
