--------------------------- MODULE PipelineProofs --------------------------
(***************************************************************************)
(* Proofs about Pipeline: the publisher in it behaves as Publisher says, a *)
(* subscriber that reads a stream in which no length is confusing finds    *)
(* every message, for any window, any cuts and any lengths, and prints it  *)
(* once and in order, between the acknowledgements of the commands typed;  *)
(* and proofs about the arithmetic of parse_input.                         *)
(***************************************************************************)
EXTENDS Pipeline, PublisherProofs, SequenceTheorems, WellFoundedInduction

---------------------------------------------------------------------------
(* The publisher in the pipeline *)

\* Whatever the network, the server and the subscriber do, the UDP client does
\* what Publisher says: nothing is ever sent back to it.
THEOREM PublisherUnaffected == Spec => PublisherSpec
<1>1. Init => PublisherInit
  BY DEF Init
<1>2. [Next]_vars => [PublisherNext]_publisherVars
  <2>1. PublisherStep => PublisherNext
    BY DEF PublisherStep
  <2>2. ServerRuns \/ ServerExit \/ SubscriberStep \/ UserCommand => UNCHANGED publisherVars
    BY DEF ServerRuns, Relay, ServerExit, ServerClose, HandleRequest, SendAll,
       SubscriberStep, UserCommand
  <2>3. UNCHANGED vars => UNCHANGED publisherVars
    BY DEF vars
  <2>4. QED BY <2>1, <2>2, <2>3 DEF Next
<1>3. QED BY <1>1, <1>2, PTL DEF Spec, PublisherSpec

\* So what PublisherProofs shows holds of the pipeline as well: a list is sent
\* once and in order, no more than the count is sent, each choice is answered,
\* and nothing follows a fault.
THEOREM PublisherKeepsItsPromise ==
    Spec => [](AllOnceInOrder /\ CountHonoured /\ ManualSendsChoices /\ FaultsEndTheRun)
BY PublisherUnaffected, ListSentInOrder, CountRespected, ChoicesAnswered, FaultsAreFinal, PTL

---------------------------------------------------------------------------
(* Datagrams on their way *)

Underway == udp \in Seq(DOMAIN sent)

LEMMA SentGrows ==
    ASSUME PublisherTypeOK, PublisherNext
    PROVE  /\ Len(sent) \in Nat
           /\ args' = args
           /\ \/ sent' = sent
              \/ /\ Len(sent') = Len(sent) + 1 /\ sent' \in Seq(DOMAIN args.input_file)
                 /\ \A n \in 1..Len(sent) : sent'[n] = sent[n]
<1>1. Len(sent) \in Nat
  BY DEF PublisherTypeOK
<1>2. ASSUME ParseArgs \/ SetupSocket \/ RunMode \/ Wake \/ EndOfLoop \/ GoTo("failed")
             \/ UNCHANGED <<args, position, sent>>
      PROVE  args' = args /\ sent' = sent
  BY <1>2 DEF ParseArgs, SetupSocket, RunMode, Wake, EndOfLoop, GoTo
<1>3. ASSUME NEW k \in DOMAIN input_file, SendMessage(k)
      PROVE  /\ args' = args
             /\ \/ sent' = sent
                \/ /\ Len(sent') = Len(sent) + 1 /\ sent' \in Seq(DOMAIN args.input_file)
                   /\ \A n \in 1..Len(sent) : sent'[n] = sent[n]
  BY <1>3, SendMessageStep
<1>4. QED BY <1>1, <1>2, <1>3, Steps

\* A datagram in the UDP socket is one that was sent.
LEMMA UdpIsUnderway == Spec => []Underway
<1>1. Init => Underway
  BY DEF Init, PublisherInit, Underway
<1>2. PublisherTypeOK /\ Underway /\ [Next]_vars => Underway'
  <2> SUFFICES ASSUME PublisherTypeOK, Underway, [Next]_vars PROVE Underway'
    OBVIOUS
  <2>1. CASE PublisherStep
    <3>1. PublisherNext /\ Transmit
      BY <2>1 DEF PublisherStep
    <3>2. DOMAIN sent = 1..Len(sent) /\ Len(sent) \in Nat
      BY DEF PublisherTypeOK
    <3>3. CASE sent' = sent
      BY <3>1, <3>2, <3>3 DEF Transmit, Underway
    <3>4. CASE Len(sent') = Len(sent) + 1 /\ sent' \in Seq(DOMAIN args.input_file)
      <4>1. DOMAIN sent' = 1..(Len(sent) + 1)
        BY <3>4
      <4>2. udp \in Seq(DOMAIN sent') /\ Len(sent') \in DOMAIN sent'
        BY <3>2, <3>4, <4>1 DEF Underway
      <4>3. udp' = udp \/ udp' = Append(udp, Len(sent'))
        BY <3>1, <3>2, <3>4 DEF Transmit
      <4>4. Append(udp, Len(sent')) \in Seq(DOMAIN sent')
        BY <4>2, AppendProperties
      <4>5. QED BY <4>2, <4>3, <4>4 DEF Underway
    <3>5. QED BY <3>1, <3>3, <3>4, SentGrows
  <2>2. CASE Relay
    BY <2>2 DEF Relay, Underway, publisherVars
  <2>3. CASE ServerClose \/ HandleRequest \/ SendAll \/ ServerExit
    BY <2>3 DEF ServerClose, HandleRequest, SendAll, ServerExit, Underway, publisherVars
  <2>4. CASE SubscriberStep \/ UserCommand
    BY <2>4 DEF SubscriberStep, UserCommand, Underway, publisherVars
  <2>5. CASE UNCHANGED vars
    BY <2>5 DEF vars, publisherVars, Underway
  <2>6. QED BY <2>1, <2>2, <2>3, <2>4, <2>5 DEF Next, ServerRuns
<1>3. QED BY <1>1, <1>2, PublisherUnaffected, PublisherTypeCorrect, PTL DEF Spec

\* The length of a message is positive, as it begins with the address.
LEMMA LengthPositive ==
    ASSUME PublisherTypeOK, Underway, udp # <<>>
    PROVE  UnitLength(Head(udp)) \in Nat \ {0}
<1>1. Head(udp) \in DOMAIN sent
  BY DEF Underway
<1>2. sent[Head(udp)] \in DOMAIN args.input_file /\ args \in CommandLines
  BY <1>1 DEF PublisherTypeOK
<1>3. /\ Datagram(Head(udp)).rest \in Int
      /\ Length(Datagram(Head(udp))) >= ADDRESS
  BY <1>2, PipelineAssumption DEF Datagram, input_file
<1>4. QED BY <1>3 DEF UnitLength, Length, ADDRESS, TOPIC

---------------------------------------------------------------------------
(* Units lie end to end, the notice last, and bytes are read as they came.  *)

End(u) == units[u].at + Size(units[u])

Layout ==
    /\ units \in Seq([at : Nat, len : Nat])
    /\ \A u \in 1..Len(units) :
          /\ units[u].at = IF u = 1 THEN 0 ELSE End(u - 1)
          /\ \A v \in 1..Len(units) : u < v => End(u) <= units[v].at
          /\ units[u].len = Notice => u = Len(units) /\ exiting

Counts ==
    /\ {written, taken, want, start, typed} \subseteq Nat
    /\ parsed \in Seq(Nat \X Nat)
    /\ closed \in BOOLEAN
    /\ taken <= written
    /\ written <= Total
    /\ closed => written = Total
    /\ reading = "sending" => want > 0 /\ typed > 0

\* The number that the first four bytes of unit u make.
Number(u) == IF units[u].len = Notice THEN HUGE ELSE units[u].len

\* Where the unit after those that were parsed begins.
Here == IF Len(parsed) = 0 THEN 0 ELSE End(Len(parsed))

\* What the reader has parsed, and where in which unit it is.
InStep ==
    /\ Len(parsed) <= Len(units)
    /\ \A j \in 1..Len(parsed) : parsed[j] = Body(j) /\ units[j].len # Notice
    /\ reading \in {"poll", "sending", "prefix", "payload", "ended"}
    /\ reading \in {"poll", "sending"} => taken = Here
    /\ reading \in {"prefix", "payload"} => Len(parsed) < Len(units)
    /\ reading = "prefix" => start = Here /\ taken + want = start + PREFIX
    /\ reading = "payload" =>
          start = Here + PREFIX /\ taken + want = start + Number(Len(parsed) + 1)
    /\ reading = "ended" => closed /\ (typed = 0 => taken = written)

\* ParsedAsSent and EndsWithServer are not inductive: that each read begins at
\* the unit after the last one parsed is what makes the next one right.
FramingInv == Layout /\ Counts /\ (~Confusable => InStep)

\* A unit has a size, and the last one ends where the stream does.
LEMMA Sizes ==
    ASSUME Layout
    PROVE  /\ Len(units) \in Nat
           /\ Total \in Nat
           /\ \A u \in 1..Len(units) :
                 /\ units[u].at \in Nat /\ units[u].len \in Nat
                 /\ Size(units[u]) \in Nat
                 /\ Size(units[u]) >= PREFIX
                 /\ End(u) \in Nat
                 /\ End(u) <= Total
                 /\ units[u].len = Notice => Size(units[u]) = CTRL
                 /\ units[u].len # Notice => Size(units[u]) = PREFIX + units[u].len
<1>1. Len(units) \in Nat
  BY DEF Layout
<1>2. ASSUME NEW u \in 1..Len(units)
      PROVE  /\ units[u].at \in Nat /\ units[u].len \in Nat
             /\ Size(units[u]) \in Nat
             /\ Size(units[u]) >= PREFIX
             /\ End(u) \in Nat
             /\ units[u].len = Notice => Size(units[u]) = CTRL
             /\ units[u].len # Notice => Size(units[u]) = PREFIX + units[u].len
  <2>1. units \in Seq([at : Nat, len : Nat])
    BY DEF Layout
  <2>2. units[u] \in [at : Nat, len : Nat]
    BY <1>2, <2>1, ElementOfSeq
  <2>3. QED BY <2>2 DEF Size, End, PREFIX, CTRL
<1>3. CASE units = <<>>
  BY <1>1, <1>3 DEF Total
<1>4. CASE units # <<>>
  <2>1. Len(units) \in 1..Len(units)
    BY <1>1, <1>4 DEF Layout
  <2>2. Total = End(Len(units)) /\ Total \in Nat
    BY <1>2, <1>4, <2>1 DEF Total, End
  <2>3. ASSUME NEW u \in 1..Len(units), u < Len(units) PROVE End(u) <= Total
    <3>1. End(u) <= units[Len(units)].at
      BY <2>1, <2>3 DEF Layout
    <3>2. units[Len(units)].at <= Total
      BY <1>2, <2>1, <2>2 DEF End
    <3>3. QED BY <1>2, <2>1, <2>2, <3>1, <3>2
  <2>4. \A u \in 1..Len(units) : End(u) <= Total
    BY <1>1, <2>2, <2>3
  <2>5. QED BY <1>1, <1>2, <2>2, <2>4
<1>5. QED BY <1>3, <1>4

\* Two units do not begin at one place.
LEMMA AtUnit ==
    ASSUME Layout, NEW u \in 1..Len(units)
    PROVE  At(units[u].at) = {units[u]}
<1>1. \A v \in 1..Len(units) : units[v].at = units[u].at => v = u
  <2> SUFFICES ASSUME NEW v \in 1..Len(units), units[v].at = units[u].at, v # u
               PROVE  FALSE
    OBVIOUS
  <2>1. CASE u < v
    <3>1. End(u) <= units[v].at
      BY <2>1 DEF Layout
    <3>2. QED BY <3>1, Sizes DEF End, PREFIX
  <2>2. CASE v < u
    <3>1. End(v) <= units[u].at
      BY <2>2 DEF Layout
    <3>2. QED BY <3>1, Sizes DEF End, PREFIX
  <2>3. QED BY <2>1, <2>2, Sizes
<1>2. DOMAIN units = 1..Len(units)
  BY DEF Layout
<1>3. QED BY <1>1, <1>2 DEF At

\* The next unit, if there is one, begins where the reader is.
LEMMA NextUnit ==
    ASSUME Layout, InStep, parsed \in Seq(Nat \X Nat)
    PROVE  /\ Len(parsed) \in Nat
           /\ Here \in Nat
           /\ Len(parsed) < Len(units) =>
                 units[Len(parsed) + 1].at = Here /\ At(Here) = {units[Len(parsed) + 1]}
           /\ Len(parsed) = Len(units) => Here = Total
<1>1. Len(parsed) \in Nat /\ Len(parsed) <= Len(units) /\ Len(units) \in Nat
  BY Sizes DEF InStep
<1>2. Here \in Nat
  BY <1>1, Sizes DEF Here
<1>3. ASSUME Len(parsed) < Len(units)
      PROVE  units[Len(parsed) + 1].at = Here
  <2>1. Len(parsed) + 1 \in 1..Len(units)
    BY <1>1, <1>3
  <2>2. units[Len(parsed) + 1].at =
          IF Len(parsed) + 1 = 1 THEN 0 ELSE End(Len(parsed) + 1 - 1)
    BY <2>1 DEF Layout
  <2>3. QED BY <1>1, <2>2 DEF Here
<1>4. ASSUME Len(parsed) < Len(units) PROVE At(Here) = {units[Len(parsed) + 1]}
  <2>1. Len(parsed) + 1 \in 1..Len(units)
    BY <1>1, <1>4
  <2>2. QED BY <1>3, <1>4, <2>1, AtUnit
<1>5. ASSUME Len(parsed) = Len(units) PROVE Here = Total
  BY <1>1, <1>5 DEF Here, Total, End, Layout
<1>6. QED BY <1>1, <1>2, <1>3, <1>4, <1>5

---------------------------------------------------------------------------
(* The server's end keeps the invariant *)

\* A step that begins no unit changes nothing of the units.
LEMMA SameUnits ==
    ASSUME Layout, units' = units, exiting' = exiting
    PROVE  /\ Layout'
           /\ Total' = Total
           /\ Confusable' = Confusable
           /\ \A u : End(u)' = End(u) /\ Body(u)' = Body(u) /\ Number(u)' = Number(u)
           /\ \A n : At(n)' = At(n)
           /\ \A n, k : Numbers(n, k)' = Numbers(n, k)
  BY DEF Layout, Total, Confusable, End, Body, Number, At, Numbers

\* A step that also parses nothing leaves the reader where it is.
LEMMA SamePlace ==
    ASSUME Layout, units' = units, exiting' = exiting, parsed' = parsed
    PROVE  Here' = Here
  BY SameUnits DEF Here

LEMMA BeginKeeps ==
    ASSUME FramingInv, NEW len \in Nat, Begin(len), ~exiting, len = Notice => exiting'
    PROVE  FramingInv'
<1> DEFINE new == [at |-> Total, len |-> len]
<1>0. PICK n \in Nat : n = Len(units)
  BY Sizes DEF FramingInv
<1>1. /\ units \in Seq([at : Nat, len : Nat]) /\ n \in Nat
      /\ new \in [at : Nat, len : Nat]
      /\ \A u \in 1..n : /\ units[u].at \in Nat
                          /\ End(u) \in Nat /\ End(u) <= Total
                          /\ units[u].len # Notice
  <2>1. \A u \in 1..n : units[u].len # Notice
    BY <1>0 DEF FramingInv, Layout
  <2>2. QED BY <1>0, <2>1, Sizes DEF FramingInv, Layout
<1>2. /\ units' = Append(units, new)
      /\ written = Total /\ ~closed
      /\ UNCHANGED <<written, closed, taken, reading, want, start, parsed, requests, half, typed>>
  BY Sizes DEF Begin, Idle, Sending, FramingInv, Counts
<1> HIDE DEF new
<1>3. /\ units' \in Seq([at : Nat, len : Nat])
      /\ Len(units') = n + 1
      /\ \A u \in 1..n : units'[u] = units[u]
      /\ units'[n + 1] = new
  BY <1>0, <1>1, <1>2
<1>4. /\ new.at = Total /\ new.len = len
  BY DEF new
<1>5. \A u \in 1..n : End(u)' = End(u) /\ Body(u)' = Body(u) /\ Number(u)' = Number(u)
  BY <1>3 DEF End, Body, Number
<1>6. n = 0 => Total = 0
  BY <1>0, <1>1, EmptySeq DEF Total
<1>7. n > 0 => Total = End(n)
  BY <1>0, <1>1 DEF Total, End
<1>8. Layout'
  <2>1. ASSUME NEW u \in 1..(n + 1)
        PROVE  /\ units'[u].at = IF u = 1 THEN 0 ELSE End(u - 1)'
               /\ \A v \in 1..(n + 1) : u < v => End(u)' <= units'[v].at
               /\ units'[u].len = Notice => u = n + 1 /\ exiting'
    <3>1. CASE u \in 1..n
      <4>1. units[u].at = IF u = 1 THEN 0 ELSE End(u - 1)
        BY <1>0, <3>1 DEF FramingInv, Layout
      <4>2. u # 1 => u - 1 \in 1..n
        BY <1>1, <3>1
      <4>3. units'[u].at = IF u = 1 THEN 0 ELSE End(u - 1)'
        BY <1>3, <1>5, <3>1, <4>1, <4>2
      <4>4. ASSUME NEW v \in 1..(n + 1), u < v PROVE End(u)' <= units'[v].at
        <5>1. CASE v \in 1..n
          <6>1. End(u) <= units[v].at
            BY <1>0, <3>1, <4>4, <5>1 DEF FramingInv, Layout
          <6>2. QED BY <1>3, <1>5, <3>1, <5>1, <6>1
        <5>2. CASE v = n + 1
          BY <1>1, <1>3, <1>4, <1>5, <3>1, <5>2
        <5>3. QED BY <1>1, <5>1, <5>2
      <4>5. units'[u].len # Notice
        BY <1>1, <1>3, <3>1
      <4>6. QED BY <4>3, <4>4, <4>5
    <3>2. CASE u = n + 1
      <4>1. u # 1 => u - 1 = n /\ n \in 1..n /\ n > 0
        BY <1>1, <3>2
      <4>2. units'[u].at = IF u = 1 THEN 0 ELSE End(u - 1)'
        <5>1. CASE u = 1
          <6>1. n = 0
            BY <1>1, <3>2, <5>1
          <6>2. QED BY <1>3, <1>4, <1>6, <3>2, <5>1, <6>1
        <5>2. CASE u # 1
          BY <1>3, <1>4, <1>5, <1>7, <3>2, <4>1, <5>2
        <5>3. QED BY <5>1, <5>2
      <4>3. \A v \in 1..(n + 1) : ~(u < v)
        BY <1>1, <3>2
      <4>4. units'[u].len = Notice => exiting'
        BY <1>3, <1>4, <3>2
      <4>5. QED BY <3>2, <4>2, <4>3, <4>4
    <3>3. QED BY <1>1, <3>1, <3>2
  <2>2. QED BY <1>3, <2>1 DEF Layout
<1>9. Total' = End(n + 1)' /\ End(n + 1)' \in Nat /\ Total <= Total'
  <2>1. Total' = End(n + 1)'
    <3>1. units' # <<>>
      BY <1>3
    <3>2. QED BY <1>3, <3>1 DEF Total, End
  <2>2. End(n + 1)' = Total + Size(new)
    BY <1>3, <1>4 DEF End
  <2>3. Size(new) \in Nat /\ Total \in Nat
    BY <1>4, Sizes DEF Size, PREFIX, CTRL, FramingInv
  <2>4. QED BY <2>1, <2>2, <2>3
<1>10. Counts'
  <2>1. written \in Nat /\ Total \in Nat
    BY Sizes DEF FramingInv, Counts
  <2>2. written' <= Total'
    BY <1>2, <1>9, <2>1
  <2>3. QED BY <1>2, <2>2 DEF FramingInv, Counts
<1>11. ~Confusable' => ~Confusable
  <2>1. DOMAIN units = 1..n /\ DOMAIN units' = 1..(n + 1)
    BY <1>0, <1>1, <1>3
  <2>2. ASSUME NEW u \in DOMAIN units, Confusing(units[u].len) PROVE Confusable'
    <3>1. u \in DOMAIN units' /\ units'[u].len = units[u].len
      BY <1>1, <1>3, <2>1, <2>2
    <3>2. QED BY <2>2, <3>1 DEF Confusable, Confusing
  <2>3. QED BY <2>2 DEF Confusable
<1>12. ASSUME InStep PROVE InStep'
  <2>1. Len(parsed) \in Nat /\ Len(parsed) <= n
    BY <1>0, <1>12 DEF InStep, FramingInv, Counts
  <2>2. Here' = Here
    BY <1>2, <1>5, <2>1 DEF Here
  <2>3. reading # "ended"
    BY <1>2, <1>12 DEF InStep
  <2>4. ASSUME Len(parsed) < n PROVE Number(Len(parsed) + 1)' = Number(Len(parsed) + 1)
    BY <1>1, <1>2, <1>5, <2>1, <2>4
  <2>5. \A j \in 1..Len(parsed) :
          parsed'[j] = Body(j)' /\ units'[j].len # Notice
    <3> SUFFICES ASSUME NEW j \in 1..Len(parsed)
                 PROVE  parsed'[j] = Body(j)' /\ units'[j].len # Notice
      OBVIOUS
    <3>1. j \in 1..n /\ parsed' = parsed
      BY <1>2, <2>1
    <3>2. parsed[j] = Body(j)
      BY <1>12 DEF InStep
    <3>3. Body(j)' = Body(j) /\ units'[j] = units[j]
      BY <1>3, <1>5, <3>1
    <3>4. QED BY <1>1, <3>1, <3>2, <3>3
  <2>6. Len(parsed') <= Len(units') /\ (Len(parsed) < n => Len(parsed') < Len(units'))
    BY <1>1, <1>2, <1>3, <2>1
  <2>7. QED BY <1>0, <1>2, <1>12, <2>2, <2>3, <2>4, <2>5, <2>6 DEF InStep
<1>13. QED BY <1>8, <1>10, <1>11, <1>12 DEF FramingInv

LEMMA ServerKeeps ==
    ASSUME FramingInv, exiting' = exiting, Segment \/ CloseStream \/ TakeRequest
    PROVE  FramingInv'
<1>1. /\ UNCHANGED <<units, taken, reading, want, start, parsed, typed>>
      /\ \/ Sending /\ written' > written /\ written' <= Total /\ closed' = closed
         \/ written' = written /\ written = Total /\ ~closed
         \/ written' = written /\ closed' = closed
      /\ closed => closed'
      /\ closed' \in BOOLEAN
      /\ written' \in Nat
  <2>1. CASE Segment
    <3>1. units # <<>>
      BY <2>1, Sizes DEF Segment, Sending, Total, FramingInv, Counts
    <3>2. Len(units) \in 1..Len(units)
      BY <3>1 DEF FramingInv, Layout
    <3>3. /\ units[Len(units)].at \in Nat /\ Total \in Nat /\ taken \in Nat
      BY <3>2, Sizes DEF FramingInv, Counts
    <3>4. closed \in BOOLEAN
      BY DEF FramingInv, Counts
    <3>5. QED BY <2>1, <3>3, <3>4, StreamAssumption DEF Segment
  <2>2. CASE CloseStream
    <3>1. closed' = TRUE /\ ~Sending /\ ~closed
          /\ UNCHANGED <<units, written, taken, reading, want, start, parsed, typed>>
      BY <2>2 DEF CloseStream, Idle
    <3>2. written \in Nat /\ Total \in Nat /\ written <= Total
      BY Sizes DEF FramingInv, Counts
    <3>3. written = Total
      BY <3>1, <3>2 DEF Sending
    <3>4. QED BY <3>1, <3>2, <3>3
  <2>3. CASE TakeRequest
    BY <2>3 DEF TakeRequest, FramingInv, Counts
  <2>4. QED BY <2>1, <2>2, <2>3
<1>2. /\ Layout' /\ Total' = Total /\ Confusable' = Confusable /\ Here' = Here
      /\ \A u : Body(u)' = Body(u) /\ Number(u)' = Number(u)
  BY <1>1, SameUnits, SamePlace DEF FramingInv
<1>3. written \in Nat /\ taken \in Nat /\ Total \in Nat /\ taken <= written /\ written <= Total
  BY Sizes DEF FramingInv, Counts
<1>4. closed => written' = written /\ closed'
  <2>1. closed => ~Sending
    BY <1>3 DEF Sending, FramingInv, Counts
  <2>2. QED BY <1>1, <2>1
<1>5. Counts'
  <2>1. taken' <= written' /\ written' <= Total'
    BY <1>1, <1>2, <1>3
  <2>2. closed' => written' = Total'
    BY <1>1, <1>2, <1>4 DEF FramingInv, Counts
  <2>3. QED BY <1>1, <2>1, <2>2 DEF FramingInv, Counts
<1>6. ASSUME InStep PROVE InStep'
  BY <1>1, <1>2, <1>4, <1>6 DEF InStep
<1>7. QED BY <1>2, <1>5, <1>6 DEF FramingInv

---------------------------------------------------------------------------
(* The subscriber's end keeps the invariant *)

\* The four bytes at the place of the reader are those of the next unit.
LEMMA NextNumber ==
    ASSUME FramingInv, InStep, Len(parsed) < Len(units), NEW k \in Nat
    PROVE  LET u == units[Len(parsed) + 1]
           IN  Numbers(Here, k) =
                 {IF u.len = Notice THEN HUGE ELSE IF k = 1 THEN u.len % BYTE ELSE u.len}
<1> DEFINE u == units[Len(parsed) + 1]
<1>1. At(Here) = {u}
  BY NextUnit DEF FramingInv, Counts
<1> HIDE DEF u
<1>2. Numbers(Here, k) =
        {IF u.len = Notice THEN HUGE ELSE IF k = 1 THEN u.len % BYTE ELSE u.len}
  BY <1>1 DEF Numbers
<1>3. QED BY <1>2 DEF u

LEMMA TypeKeeps ==
    ASSUME FramingInv, exiting' = exiting, Type \/ Sent
    PROVE  FramingInv'
<1>1. /\ UNCHANGED <<units, written, closed, taken, start, parsed>>
      /\ reading \in {"poll", "sending"} /\ reading' \in {"poll", "sending"}
      /\ typed' \in Nat /\ want' \in Nat
      /\ reading' = "sending" => want' > 0 /\ typed' > 0
  <2>1. want \in Nat /\ typed \in Nat /\ (reading = "sending" => want > 0 /\ typed > 0)
    BY DEF FramingInv, Counts
  <2>2. CASE Type
    BY <2>1, <2>2 DEF Type
  <2>3. CASE Sent
    <3>1. want \in Nat \ {0} /\ want' = want - 1 /\ typed' = typed /\ typed > 0
      BY <2>1, <2>3 DEF Sent
    <3>2. reading' = IF want = 1 THEN "poll" ELSE "sending"
      BY <2>3 DEF Sent
    <3>3. QED BY <2>1, <2>3, <3>1, <3>2 DEF Sent
  <2>4. QED BY <2>2, <2>3
<1>2. /\ Layout' /\ Total' = Total /\ Confusable' = Confusable /\ Here' = Here
      /\ \A u : Body(u)' = Body(u)
  BY <1>1, SameUnits, SamePlace DEF FramingInv
<1>3. Counts'
  BY <1>1, <1>2 DEF FramingInv, Counts
<1>4. ASSUME InStep PROVE InStep'
  BY <1>1, <1>2, <1>4 DEF InStep
<1>5. QED BY <1>2, <1>3, <1>4 DEF FramingInv

LEMMA PeekKeeps ==
    ASSUME FramingInv, exiting' = exiting, Peek
    PROVE  FramingInv'
<1>1. /\ UNCHANGED <<units, written, closed, taken, parsed, typed>>
      /\ reading = "poll" /\ start' = taken /\ Available > 0
  BY DEF Peek
<1>2. /\ Layout' /\ Total' = Total /\ Confusable' = Confusable /\ Here' = Here
      /\ \A u : Body(u)' = Body(u)
  BY <1>1, SameUnits, SamePlace DEF FramingInv
<1>3. reading' \in {"control", "prefix"} /\ want' \in Nat
  BY DEF Peek, CTRL, PREFIX
<1>4. Counts'
  BY <1>1, <1>2, <1>3 DEF FramingInv, Counts
<1>5. ASSUME InStep, ~Confusable PROVE InStep'
  <2>1. /\ taken = Here /\ Len(parsed) \in Nat /\ Len(units) \in Nat
        /\ Len(parsed) <= Len(units) /\ written \in Nat /\ taken \in Nat /\ Total \in Nat
        /\ written <= Total
    BY <1>1, <1>5, NextUnit, Sizes DEF InStep, FramingInv, Counts
  <2>2. Available \in Nat
    BY <1>1, <2>1 DEF Available
  <2>3. Len(parsed) < Len(units)
    <3>1. Len(parsed) = Len(units) => Here = Total
      BY <1>5, NextUnit DEF FramingInv, Counts
    <3>2. QED BY <1>1, <2>1, <3>1 DEF Available
  <2> DEFINE u == units[Len(parsed) + 1]
  <2>4. u.len \in Nat /\ Len(parsed) + 1 \in DOMAIN units
    <3>1. Len(parsed) + 1 \in 1..Len(units)
      BY <2>1, <2>3
    <3>2. units[Len(parsed) + 1].len \in Nat
      BY <3>1, Sizes DEF FramingInv
    <3>3. DOMAIN units = 1..Len(units)
      BY DEF FramingInv, Layout
    <3>4. QED BY <3>1, <3>2, <3>3
  <2>5. u.len % BYTE # CTRL
    BY <1>5, <2>4 DEF Confusable, Confusing
  <2>6. u.len # CTRL
    <3>1. CTRL % BYTE = CTRL
      BY DEF CTRL, BYTE
    <3>2. QED BY <2>5, <3>1
  <2> HIDE DEF u
  <2>7. Numbers(taken, Available) =
          {IF u.len = Notice THEN HUGE ELSE IF Available = 1 THEN u.len % BYTE ELSE u.len}
    BY <1>5, <2>1, <2>2, <2>3, NextNumber DEF u
  <2>8. CTRL \notin Numbers(taken, Available)
    <3>1. HUGE # CTRL
      BY DEF HUGE, CTRL, BYTE
    <3>2. QED BY <2>5, <2>6, <2>7, <3>1
  <2>9. reading' = "prefix" /\ want' = PREFIX
    BY <2>8 DEF Peek
  <2>10. taken' + want' = start' + PREFIX /\ start' = Here'
    BY <1>1, <1>2, <2>1, <2>9
  <2>11. QED BY <1>1, <1>2, <1>5, <2>3, <2>9, <2>10 DEF InStep
<1>6. QED BY <1>2, <1>4, <1>5 DEF FramingInv

LEMMA RecvKeeps ==
    ASSUME FramingInv, exiting' = exiting, Recv
    PROVE  FramingInv'
<1>1. /\ UNCHANGED <<units, written, closed, start, parsed, reading, typed>>
      /\ reading \in Receiving
      /\ taken' = taken + Received /\ want' = want - Received
      /\ want > 0 /\ Available > 0
  BY DEF Recv, Left, SomeThere
<1>2. /\ Layout' /\ Total' = Total /\ Confusable' = Confusable /\ Here' = Here
      /\ \A u : Body(u)' = Body(u) /\ Number(u)' = Number(u)
  BY <1>1, SameUnits, SamePlace DEF FramingInv
<1>3. /\ taken \in Nat /\ written \in Nat /\ want \in Nat /\ Received \in Nat
      /\ Received <= want /\ taken + Received <= written
  BY <1>1 DEF FramingInv, Counts, Available, Received
<1>4. taken' \in Nat /\ want' \in Nat /\ taken' <= written' /\ taken' + want' = taken + want
  BY <1>1, <1>3
<1>5. Counts'
  BY <1>1, <1>2, <1>4 DEF FramingInv, Counts, Receiving
<1>6. ASSUME InStep PROVE InStep'
  <2>1. reading \in {"prefix", "payload"}
    BY <1>1, <1>6 DEF InStep, Receiving
  <2>2. reading' = reading /\ parsed' = parsed /\ start' = start /\ units' = units
    BY <1>1
  <2>3. Number(Len(parsed) + 1)' = Number(Len(parsed) + 1)
    BY <1>2, <2>2
  <2>4. QED BY <1>2, <1>4, <1>6, <2>1, <2>2, <2>3 DEF InStep
<1>7. QED BY <1>2, <1>5, <1>6 DEF FramingInv

\* The number that recv_all has read for a length.
LEMMA PrefixRead ==
    ASSUME FramingInv, InStep, reading = "prefix"
    PROVE  /\ Numbers(start, PREFIX) = {Number(Len(parsed) + 1)}
           /\ Number(Len(parsed) + 1) \in Nat \ {0}
<1>1. start = Here /\ Len(parsed) < Len(units)
  BY DEF InStep
<1> DEFINE u == units[Len(parsed) + 1]
<1>2. Len(parsed) + 1 \in 1..Len(units)
  BY <1>1, NextUnit, Sizes DEF FramingInv, Counts
<1>3. u.len \in Nat
  BY <1>2, Sizes DEF FramingInv
<1>4. Number(Len(parsed) + 1) = IF u.len = Notice THEN HUGE ELSE u.len
  BY DEF Number
<1> HIDE DEF u
<1>5. Numbers(start, PREFIX) = {IF u.len = Notice THEN HUGE ELSE u.len}
  <2>1. PREFIX \in Nat /\ PREFIX # 1
    BY DEF PREFIX
  <2>2. Numbers(Here, PREFIX) =
          {IF u.len = Notice THEN HUGE ELSE IF PREFIX = 1 THEN u.len % BYTE ELSE u.len}
    BY <1>1, <2>1, NextNumber DEF u
  <2>3. QED BY <1>1, <2>1, <2>2
<1>6. QED BY <1>3, <1>4, <1>5 DEF HUGE, BYTE, Notice

LEMMA SeeEndKeeps ==
    ASSUME FramingInv, exiting' = exiting, SeeEnd
    PROVE  FramingInv'
<1>1. UNCHANGED <<units, written, closed, taken, want, start, parsed, typed>> /\ reading' = "ended"
  BY DEF SeeEnd
<1>2. /\ Layout' /\ Total' = Total /\ Confusable' = Confusable
      /\ \A u : Body(u)' = Body(u)
  BY <1>1, SameUnits DEF FramingInv
<1>3. Counts'
  BY <1>1, <1>2 DEF FramingInv, Counts
<1>4. ASSUME InStep PROVE InStep'
  <2>1. ~(reading = "prefix" /\ \E n \in Numbers(start, PREFIX) : n <= 0)
    BY <1>4, PrefixRead
  <2>2. closed /\ (Available = 0 \/ reading = "sending")
    BY <2>1 DEF SeeEnd, EndOfStream
  <2>3. taken \in Nat /\ written \in Nat /\ (reading = "sending" => typed > 0)
    BY DEF FramingInv, Counts
  <2>4. typed = 0 => taken = written
    BY <2>2, <2>3 DEF Available
  <2>5. QED BY <1>1, <1>2, <1>4, <2>2, <2>4 DEF InStep
<1>5. QED BY <1>2, <1>3, <1>4 DEF FramingInv

LEMMA GotPrefixKeeps ==
    ASSUME FramingInv, exiting' = exiting, GotPrefix
    PROVE  FramingInv'
<1>1. /\ UNCHANGED <<units, written, closed, taken, parsed, typed>>
      /\ reading = "prefix" /\ reading' = "payload" /\ want = 0 /\ start' = taken
  BY DEF GotPrefix
<1>2. /\ Layout' /\ Total' = Total /\ Confusable' = Confusable /\ Here' = Here
      /\ \A u : Body(u)' = Body(u) /\ Number(u)' = Number(u)
  BY <1>1, SameUnits, SamePlace DEF FramingInv
<1>3. taken \in Nat
  BY DEF FramingInv, Counts
<1>4. want' \in Nat
  <2>1. PICK n \in Numbers(start, PREFIX) : n > 0 /\ want' = n
    BY DEF GotPrefix
  <2>2. Numbers(start, PREFIX) \subseteq Int
    <3>1. \A u \in At(start) : u.len \in Nat
      <4>1. \A v \in DOMAIN units : units[v].len \in Nat
        BY Sizes DEF FramingInv, Layout
      <4>2. QED BY <4>1 DEF At
    <3>2. PREFIX # 1
      BY DEF PREFIX
    <3>3. CTRL \in Int /\ HUGE \in Int /\ Strays \subseteq Int
      BY StreamAssumption DEF CTRL, HUGE, BYTE
    <3>4. CASE At(start) = {}
      BY <3>3, <3>4 DEF Numbers
    <3>5. CASE At(start) # {}
      <4>1. \A m \in Numbers(start, PREFIX) :
              \E u \in At(start) : m = HUGE \/ m = u.len
        BY <3>2, <3>5 DEF Numbers
      <4>2. QED BY <3>1, <3>3, <4>1
    <3>6. QED BY <3>4, <3>5
  <2>3. QED BY <2>1, <2>2
<1>5. Counts'
  BY <1>1, <1>2, <1>3, <1>4 DEF FramingInv, Counts
<1>6. ASSUME InStep PROVE InStep'
  <2>1. start = Here /\ taken + want = start + PREFIX
    BY <1>1, <1>6 DEF InStep
  <2>2. want' = Number(Len(parsed) + 1)
    BY <1>1, <1>6, PrefixRead DEF GotPrefix
  <2>3. Here \in Nat
    BY <1>6, NextUnit DEF FramingInv, Counts
  <2>4. start' = Here + PREFIX
    BY <1>1, <1>3, <2>1, <2>3 DEF PREFIX
  <2>5. taken' + want' = start' + Number(Len(parsed) + 1)
    BY <1>1, <2>2
  <2>6. Number(Len(parsed) + 1)' = Number(Len(parsed) + 1)
    BY <1>1, <1>2
  <2>7. QED BY <1>1, <1>2, <1>6, <2>4, <2>5, <2>6 DEF InStep
<1>7. QED BY <1>2, <1>5, <1>6 DEF FramingInv

LEMMA GotPayloadKeeps ==
    ASSUME FramingInv, exiting' = exiting, GotPayload
    PROVE  FramingInv'
<1>1. /\ UNCHANGED <<units, written, closed, taken, want, start, typed>>
      /\ reading = "payload" /\ reading' = "poll" /\ want = 0
      /\ parsed' = Append(parsed, <<start, taken>>)
  BY DEF GotPayload, Parse
<1>2. /\ Layout' /\ Total' = Total /\ Confusable' = Confusable
      /\ \A u : End(u)' = End(u) /\ Body(u)' = Body(u)
  BY <1>1, SameUnits DEF FramingInv
<1>3. /\ start \in Nat /\ taken \in Nat /\ parsed \in Seq(Nat \X Nat)
      /\ Len(parsed) \in Nat
  BY DEF FramingInv, Counts
<1>4. /\ parsed' \in Seq(Nat \X Nat)
      /\ Len(parsed') = Len(parsed) + 1
      /\ \A j \in 1..Len(parsed) : parsed'[j] = parsed[j]
      /\ parsed'[Len(parsed) + 1] = <<start, taken>>
  BY <1>1, <1>3
<1>5. Counts'
  BY <1>1, <1>2, <1>4 DEF FramingInv, Counts
<1>6. ASSUME InStep PROVE InStep'
  <2> DEFINE next == Len(parsed) + 1
  <2>1. /\ Len(parsed) < Len(units) /\ start = Here + PREFIX
        /\ taken = start + Number(next)
    BY <1>1, <1>3, <1>6 DEF InStep
  <2>2. next \in 1..Len(units) /\ units[next].at = Here
    BY <1>3, <1>6, <2>1, NextUnit, Sizes DEF FramingInv, Counts
  <2>3. units[next].len # Notice
    <3> SUFFICES ASSUME units[next].len = Notice PROVE FALSE
      OBVIOUS
    <3>1. End(next) = Here + CTRL /\ Number(next) = HUGE
      BY <2>2, Sizes DEF FramingInv, End, Number
    <3>2. Here \in Nat /\ taken = Here + PREFIX + HUGE
      BY <1>6, <2>1, <3>1, NextUnit DEF FramingInv, Counts, PREFIX, HUGE, BYTE
    <3>3. taken <= Total /\ Total \in Nat
      BY <1>3, Sizes DEF FramingInv, Counts
    <3>4. next = Len(units)
      BY <2>2 DEF FramingInv, Layout
    <3>5. End(next) = Total
      BY <2>2, <3>4, Sizes DEF FramingInv, Total, End
    <3>6. QED BY <3>1, <3>2, <3>3, <3>5 DEF CTRL, PREFIX, HUGE, BYTE
  <2>4. units[next].len \in Nat /\ Number(next) = units[next].len
    BY <2>2, <2>3, Sizes DEF FramingInv, Number
  <2>5. Size(units[next]) = PREFIX + units[next].len /\ Here \in Nat
    BY <1>6, <2>2, <2>3, NextUnit, Sizes DEF FramingInv, Counts
  <2>6. /\ start = units[next].at + PREFIX
        /\ taken = units[next].at + Size(units[next])
    BY <2>1, <2>2, <2>4, <2>5 DEF PREFIX
  <2>7. <<start, taken>> = Body(next) /\ taken = End(next)
    BY <2>6 DEF Body, End
  <2>8. Here' = End(next)
    BY <1>2, <1>3, <1>4 DEF Here
  <2>9. \A j \in 1..Len(parsed') : parsed'[j] = Body(j)' /\ units'[j].len # Notice
    <3> SUFFICES ASSUME NEW j \in 1..Len(parsed')
                 PROVE  parsed'[j] = Body(j)' /\ units'[j].len # Notice
      OBVIOUS
    <3>1. CASE j \in 1..Len(parsed)
      BY <1>1, <1>2, <1>4, <1>6, <3>1 DEF InStep
    <3>2. CASE j = next
      BY <1>1, <1>2, <1>4, <2>3, <2>7, <3>2
    <3>3. QED BY <1>3, <1>4, <3>1, <3>2
  <2>10. Len(parsed') <= Len(units')
    BY <1>1, <1>4, <2>2
  <2>11. taken' = Here'
    BY <1>1, <2>7, <2>8
  <2>12. QED BY <1>1, <2>9, <2>10, <2>11 DEF InStep
<1>7. QED BY <1>2, <1>5, <1>6 DEF FramingInv

\* Only a reader that has lost its place takes a message for a control message.
LEMMA GotControlKeeps ==
    ASSUME FramingInv, exiting' = exiting, GotControl
    PROVE  FramingInv'
<1>1. /\ UNCHANGED <<units, written, closed, taken, want, start, typed>>
      /\ reading = "control" /\ reading' \in {"poll", "ended"}
      /\ parsed' = Append(parsed, <<start, taken>>) \/ parsed' = parsed
  BY DEF GotControl, Parse
<1>2. Layout' /\ Total' = Total /\ Confusable' = Confusable
  BY <1>1, SameUnits DEF FramingInv
<1>3. parsed' \in Seq(Nat \X Nat)
  <2>1. parsed \in Seq(Nat \X Nat) /\ <<start, taken>> \in Nat \X Nat
    BY DEF FramingInv, Counts
  <2>2. Append(parsed, <<start, taken>>) \in Seq(Nat \X Nat)
    BY <2>1, AppendProperties
  <2>3. QED BY <1>1, <2>1, <2>2
<1>4. Counts'
  BY <1>1, <1>2, <1>3 DEF FramingInv, Counts
<1>5. ~InStep
  BY <1>1 DEF InStep
<1>6. QED BY <1>2, <1>4, <1>5 DEF FramingInv

---------------------------------------------------------------------------
(* What is found in the stream *)

THEOREM InStepWithStream == Spec => []FramingInv
<1>1. Init => FramingInv
  <2> SUFFICES ASSUME Init PROVE FramingInv
    OBVIOUS
  <2>1. /\ units = <<>> /\ parsed = <<>> /\ written = 0 /\ taken = 0 /\ want = 0
        /\ start = 0 /\ typed = 0 /\ closed = FALSE /\ reading = "poll"
    BY DEF Init, StreamInit
  <2>2. Layout
    BY <2>1 DEF Layout
  <2>3. Total = 0 /\ Here = 0
    BY <2>1 DEF Total, Here
  <2>4. Counts
    <3>1. parsed \in Seq(Nat \X Nat)
      BY <2>1
    <3>2. {written, taken, want, start, typed} \subseteq Nat
      BY <2>1
    <3>3. closed \in BOOLEAN /\ ~closed /\ reading # "sending"
      BY <2>1
    <3>4. taken <= written /\ written <= Total
      BY <2>1, <2>3
    <3>5. QED BY <3>1, <3>2, <3>3, <3>4, Zenon DEF Counts
  <2>5. InStep
    BY <2>1, <2>3 DEF InStep
  <2>6. QED BY <2>2, <2>4, <2>5 DEF FramingInv
<1>2. PublisherTypeOK /\ Underway /\ FramingInv /\ [Next]_vars => FramingInv'
  <2> SUFFICES ASSUME PublisherTypeOK, Underway, FramingInv, [Next]_vars
               PROVE  FramingInv'
    OBVIOUS
  <2>1. CASE PublisherStep \/ UNCHANGED vars
    <3>1. UNCHANGED streamVars /\ exiting' = exiting
      BY <2>1 DEF PublisherStep, vars
    <3>2. UNCHANGED <<units, written, closed, taken, want, start, typed, parsed, reading>>
      BY <3>1 DEF streamVars
    <3>3. /\ Layout' /\ Total' = Total /\ Confusable' = Confusable /\ Here' = Here
          /\ \A u : Body(u)' = Body(u) /\ Number(u)' = Number(u)
      BY <3>1, <3>2, SameUnits, SamePlace DEF FramingInv
    <3>4. Counts'
      BY <3>2, <3>3 DEF FramingInv, Counts
    <3>5. InStep => InStep'
      BY <3>2, <3>3 DEF InStep
    <3>6. QED BY <3>3, <3>4, <3>5 DEF FramingInv
  <2>2. CASE Relay
    <3>1. UnitLength(Head(udp)) \in Nat \ {0}
      BY <2>2, LengthPositive DEF Relay
    <3>2. UnitLength(Head(udp)) # Notice
      BY <3>1 DEF Notice
    <3>3. Begin(UnitLength(Head(udp))) /\ ~exiting
      BY <2>2 DEF Relay
    <3>4. QED BY <3>1, <3>2, <3>3, BeginKeeps
  <2>3. CASE ServerExit
    <3>1. Begin(Notice) /\ ~exiting /\ exiting' /\ Notice \in Nat
      BY <2>3 DEF ServerExit, Notice
    <3>2. QED BY <3>1, BeginKeeps
  <2>4. CASE ServerClose \/ HandleRequest \/ SendAll
    <3>1. exiting' = exiting /\ (Segment \/ CloseStream \/ TakeRequest)
      BY <2>4 DEF ServerClose, HandleRequest, SendAll
    <3>2. QED BY <3>1, ServerKeeps
  <2>5. CASE SubscriberStep
    <3>1. exiting' = exiting /\ Reads
      BY <2>5 DEF SubscriberStep
    <3>2. QED BY <3>1, PeekKeeps, RecvKeeps, SeeEndKeeps, GotPrefixKeeps,
                 GotPayloadKeeps, GotControlKeeps, TypeKeeps DEF Reads
  <2>6. CASE UserCommand
    <3>1. exiting' = exiting /\ Type
      BY <2>6 DEF UserCommand
    <3>2. QED BY <3>1, TypeKeeps
  <2>7. QED BY <2>1, <2>2, <2>3, <2>4, <2>5, <2>6 DEF Next, ServerRuns
<1>3. QED
  BY <1>1, <1>2, PublisherUnaffected, PublisherTypeCorrect, UdpIsUnderway, PTL DEF Spec

\* However the stream is cut into segments, the subscriber parses exactly the
\* messages that the server wrote, in order, if none has a confusing length.
THEOREM MessagesParsedAsSent == Spec => []ParsedAsSent
<1>1. FramingInv => ParsedAsSent
  <2> SUFFICES ASSUME FramingInv, ~Confusable, NEW j \in DOMAIN parsed
               PROVE  j \in DOMAIN units /\ units[j].len # Notice /\ parsed[j] = Body(j)
    BY DEF ParsedAsSent, EveryMessageIntact
  <2>1. InStep /\ DOMAIN parsed = 1..Len(parsed) /\ DOMAIN units = 1..Len(units)
    BY DEF FramingInv, Counts, Layout
  <2>2. Len(parsed) <= Len(units) /\ Len(parsed) \in Nat /\ Len(units) \in Nat
    BY <2>1, Sizes DEF FramingInv, Counts, InStep
  <2>3. QED BY <2>1, <2>2 DEF InStep
<1>2. QED BY <1>1, InStepWithStream, PTL

\* The subscriber ends only when the server has closed the connection, and with
\* every message read if no command was typed.
THEOREM NothingUnreadAtTheEnd == Spec => []EndsWithServer
<1>1. FramingInv => EndsWithServer
  BY DEF FramingInv, InStep, EndsWithServer
<1>2. QED BY <1>1, InStepWithStream, PTL

---------------------------------------------------------------------------
(* Types.  A subscriber never has more bytes before it than the window     *)
(* holds, and what it reads lies within what has arrived.                  *)

Rooms ==
    /\ written - taken <= Window
    /\ start <= taken
    /\ reading \in Reading
    /\ requests \in 0..RequestRoom
    /\ half \in BOOLEAN
    /\ typed <= MaxTyped

LEMMA RoomsOfServer ==
    ASSUME FramingInv, Rooms,
           CloseStream \/ Segment \/ TakeRequest \/ (\E len : Begin(len))
    PROVE  Rooms'
<1>1. {written, taken, start, typed} \subseteq Nat /\ Window \in Nat
  BY StreamAssumption DEF FramingInv, Counts
<1>2. CASE Segment
  <2>1. written' <= taken + Window /\ written' > written
    BY <1>2 DEF Segment
  <2>2. written' \in Int
    <3>1. /\ Cuts \subseteq Int /\ Total \in Int
          /\ Sending => units[Len(units)].at \in Int
      <4>1. Total \in Nat
        BY Sizes DEF FramingInv
      <4>2. Sending => Len(units) \in 1..Len(units)
        <5>1. Sending => units # <<>>
          BY <1>1 DEF Sending, Total
        <5>2. Len(units) \in Nat /\ (units # <<>> => Len(units) # 0)
          BY DEF FramingInv, Layout
        <5>3. QED BY <5>1, <5>2
      <4>3. QED BY <4>1, <4>2, StreamAssumption, Sizes DEF FramingInv
    <3>2. QED BY <1>1, <1>2, <3>1 DEF Segment
  <2>3. QED BY <1>1, <1>2, <2>1, <2>2 DEF Segment, Rooms
<1>3. CASE TakeRequest
  <2>1. requests' \in 0..RequestRoom /\ half' \in BOOLEAN
    BY <1>3, StreamAssumption DEF TakeRequest, Rooms
  <2>2. QED BY <1>3, <2>1 DEF TakeRequest, Rooms
<1>4. CASE CloseStream \/ (\E len : Begin(len))
  BY <1>4 DEF CloseStream, Begin, Rooms
<1>5. QED BY <1>2, <1>3, <1>4

LEMMA RoomsOfSubscriber ==
    ASSUME FramingInv, Rooms, Reads \/ Type
    PROVE  Rooms'
<1>1. /\ {written, taken, want, start, typed} \subseteq Nat
      /\ Window \in Nat /\ RequestRoom \in Nat /\ MaxTyped \in Nat
  BY StreamAssumption DEF FramingInv, Counts
<1>2. CASE Recv
  <2>1. Received \in Nat
    BY <1>1, <1>2 DEF Recv, Received, Available, SomeThere
  <2>2. QED BY <1>1, <1>2, <2>1 DEF Recv, Rooms
<1>3. CASE Peek
  BY <1>1, <1>3 DEF Peek, Rooms, Reading, Receiving
<1>4. CASE SeeEnd
  BY <1>1, <1>4 DEF SeeEnd, Rooms, Reading, Receiving
<1>5. CASE GotPrefix
  BY <1>1, <1>5 DEF GotPrefix, Rooms, Reading, Receiving
<1>6. CASE GotPayload \/ GotControl
  BY <1>1, <1>6 DEF GotPayload, GotControl, Parse, Rooms, Reading, Receiving
<1>7. CASE Sent
  BY <1>1, <1>7 DEF Sent, Rooms, Reading, Receiving
<1>8. CASE Type
  BY <1>1, <1>8 DEF Type, Rooms, Reading, Receiving
<1>9. QED BY <1>2, <1>3, <1>4, <1>5, <1>6, <1>7, <1>8 DEF Reads

LEMMA RoomsHold == Spec => []Rooms
<1>1. Init => Rooms
  <2> SUFFICES ASSUME Init PROVE Rooms
    OBVIOUS
  <2>1. half \in BOOLEAN
    BY DEF Init, StreamInit
  <2>2. /\ written = 0 /\ taken = 0 /\ start = 0 /\ requests = 0 /\ typed = 0
        /\ reading = "poll"
    BY DEF Init, StreamInit
  <2>3. QED BY <2>1, <2>2, StreamAssumption DEF Rooms, Reading
<1>2. FramingInv /\ Rooms /\ [Next]_vars => Rooms'
  <2> SUFFICES ASSUME FramingInv, Rooms, [Next]_vars PROVE Rooms'
    OBVIOUS
  <2>1. CASE UNCHANGED streamVars
    BY <2>1 DEF streamVars, Rooms
  <2>2. CASE ServerRuns \/ ServerExit
    BY <2>2, RoomsOfServer DEF ServerRuns, Relay, ServerExit, ServerClose, HandleRequest, SendAll
  <2>3. CASE SubscriberStep \/ UserCommand
    BY <2>3, RoomsOfSubscriber DEF SubscriberStep, UserCommand
  <2>4. PublisherStep \/ UNCHANGED vars => UNCHANGED streamVars
    BY DEF PublisherStep, vars
  <2>5. QED BY <2>1, <2>2, <2>3, <2>4 DEF Next
<1>3. QED BY <1>1, <1>2, InStepWithStream, PTL DEF Spec

LEMMA StreamTypeCorrect ==
    ASSUME FramingInv, Rooms
    PROVE  StreamTypeOK
  BY Sizes, StreamAssumption DEF FramingInv, Layout, Counts, Rooms, StreamTypeOK

\* What is on the way and on the screen; the datagrams in the socket never
\* exceed what it holds.
Carried ==
    /\ Len(udp) <= UdpRoom
    /\ relayed \in Seq(DOMAIN sent)
    /\ exiting \in BOOLEAN
    /\ screen \in Seq([item : Int, ends : BOOLEAN])

LEMMA PutTypes ==
    ASSUME screen \in Seq([item : Int, ends : BOOLEAN]),
           NEW item \in Int, NEW ends \in BOOLEAN, Put(item, ends)
    PROVE  screen' \in Seq([item : Int, ends : BOOLEAN])
  BY AppendProperties DEF Put

\* The subscriber prints what is displayed of a message, an acknowledgement, or
\* nothing.
LEMMA PrintsOne ==
    ASSUME SubscriberStep
    PROVE  \/ UNCHANGED screen
           \/ \E j \in DOMAIN relayed : Display(j)
           \/ \E ends \in BOOLEAN : Put(0, ends)
           \/ Put(-typed, TRUE)
<1>1. CASE parsed' # parsed /\ Show
  BY <1>1 DEF Show, DisplayGarbage
<1>2. CASE Acknowledge
  BY <1>2 DEF Acknowledge
<1>3. CASE UNCHANGED screen
  BY <1>3
<1>4. parsed' # parsed => ~(reading = "sending" /\ reading' = "poll")
  BY DEF SubscriberStep, Reads, Peek, Recv, SeeEnd, GotPrefix, GotPayload, GotControl, Sent
<1>5. QED BY <1>1, <1>2, <1>3, <1>4 DEF SubscriberStep

LEMMA CarriedHolds == Spec => []Carried
<1>1. Init => Carried
  <2> SUFFICES ASSUME Init PROVE Carried
    OBVIOUS
  <2>1. exiting \in BOOLEAN
    BY DEF Init
  <2>2. udp = <<>> /\ relayed = <<>> /\ screen = <<>>
    BY DEF Init
  <2>3. QED BY <2>1, <2>2, PipelineAssumption DEF Carried
<1>2. PublisherTypeOK /\ Underway /\ FramingInv /\ Carried /\ [Next]_vars => Carried'
  <2> SUFFICES ASSUME PublisherTypeOK, Underway, FramingInv, Carried, [Next]_vars
               PROVE  Carried'
    OBVIOUS
  <2>1. CASE PublisherStep
    <3>1. PublisherNext /\ Transmit /\ UNCHANGED <<relayed, exiting, screen>>
      BY <2>1 DEF PublisherStep
    <3>2. Len(udp') <= UdpRoom
      <4>1. udp' = udp \/ (Len(udp) < UdpRoom /\ \E x : udp' = Append(udp, x))
        BY <3>1 DEF Transmit
      <4>2. udp \in Seq(DOMAIN sent) /\ Len(udp) \in Nat /\ UdpRoom \in Nat
        BY PipelineAssumption DEF Underway
      <4>3. \A x : Len(Append(udp, x)) = Len(udp) + 1
        BY <4>2
      <4>4. QED BY <4>1, <4>2, <4>3 DEF Carried
    <3>3. relayed \in Seq(DOMAIN sent')
      <4>1. DOMAIN sent = 1..Len(sent) /\ Len(sent) \in Nat
        BY DEF PublisherTypeOK
      <4>2. DOMAIN sent \subseteq DOMAIN sent'
        BY <3>1, <4>1, SentGrows
      <4>3. QED BY <4>2 DEF Carried
    <3>4. QED BY <3>1, <3>2, <3>3 DEF Carried
  <2>2. CASE Relay
    <3>1. /\ udp # <<>> /\ udp' = Tail(udp) /\ relayed' = Append(relayed, Head(udp))
          /\ UNCHANGED <<sent, exiting, screen>>
      BY <2>2 DEF Relay, publisherVars
    <3>2. Head(udp) \in DOMAIN sent /\ Len(Tail(udp)) = Len(udp) - 1 /\ Len(udp) \in Nat
      BY <3>1 DEF Underway
    <3>3. relayed' \in Seq(DOMAIN sent)
      BY <3>1, <3>2, AppendProperties DEF Carried
    <3>4. QED BY <3>1, <3>2, <3>3, PipelineAssumption DEF Carried
  <2>3. CASE ServerClose \/ HandleRequest \/ SendAll \/ ServerExit \/ UserCommand \/ UNCHANGED vars
    BY <2>3
    DEF ServerClose, HandleRequest, SendAll, ServerExit, UserCommand, vars, publisherVars, Carried
  <2>4. CASE SubscriberStep
    <3>1. UNCHANGED <<sent, udp, relayed, exiting>>
      BY <2>4 DEF SubscriberStep, publisherVars
    <3>2. DOMAIN relayed \subseteq Int
      BY DEF Carried
    <3>3. -typed \in Int /\ 0 \in Int /\ TRUE \in BOOLEAN
      BY DEF FramingInv, Counts
    <3>4. \A j \in DOMAIN relayed :
             Display(j) => UNCHANGED screen \/ \E ends \in BOOLEAN : Put(j, ends)
      <4>1. \A d : EndsLine(d) \in BOOLEAN
        BY DEF EndsLine, Whole
      <4>2. QED BY <4>1 DEF Display
    <3>5. UNCHANGED screen \/ \E item \in Int, ends \in BOOLEAN : Put(item, ends)
      BY <2>4, <3>2, <3>3, <3>4, PrintsOne
    <3>6. screen' \in Seq([item : Int, ends : BOOLEAN])
      BY <3>5, PutTypes DEF Carried
    <3>7. QED BY <3>1, <3>6 DEF Carried
  <2>5. QED BY <2>1, <2>2, <2>3, <2>4 DEF Next, ServerRuns
<1>3. QED
  BY <1>1, <1>2, PublisherUnaffected, PublisherTypeCorrect, UdpIsUnderway,
     InStepWithStream, PTL DEF Spec

\* Every variable of the pipeline keeps its type: no buffer holds more than its
\* size, and what is relayed was sent.
THEOREM TypeCorrect == Spec => []TypeOK
<1>1. PublisherTypeOK /\ Underway /\ FramingInv /\ Rooms /\ Carried => TypeOK
  BY StreamTypeCorrect DEF TypeOK, Underway, Carried
<1>2. QED
  BY <1>1, PublisherUnaffected, PublisherTypeCorrect, UdpIsUnderway, InStepWithStream,
     RoomsHold, CarriedHolds, PTL

---------------------------------------------------------------------------
(* From the list to the screen.  This needs more than that messages are    *)
(* parsed as they were sent: the unit parsed must be that of the datagram  *)
(* which is printed, so units and relayed must go in step, and datagrams   *)
(* must not overtake each other on their way.                              *)

InOrder ==
    /\ \A j, k \in 1..Len(relayed) : j < k => relayed[j] < relayed[k]
    /\ \A j, k \in 1..Len(udp) : j < k => udp[j] < udp[k]
    /\ \A j \in 1..Len(relayed), k \in 1..Len(udp) : relayed[j] < udp[k]

UnitPerMessage ==
    /\ Len(units) = Len(relayed) + (IF exiting THEN 1 ELSE 0)
    /\ \A j \in 1..Len(relayed) : units[j].len = UnitLength(relayed[j])
    /\ exiting => units[Len(units)].len = Notice

AllWhole == \A j \in DOMAIN relayed : Whole(Datagram(relayed[j]))

\* A datagram stays what it was when others are sent.
LEMMA SameDatagrams ==
    ASSUME PublisherTypeOK, NEW n \in DOMAIN sent, PublisherNext \/ UNCHANGED publisherVars
    PROVE  Datagram(n)' = Datagram(n) /\ UnitLength(n)' = UnitLength(n)
<1>1. args' = args /\ sent'[n] = sent[n]
  <2>1. DOMAIN sent = 1..Len(sent)
    BY DEF PublisherTypeOK
  <2>2. QED BY <2>1, SentGrows DEF publisherVars
<1>2. QED BY <1>1 DEF Datagram, UnitLength, input_file

LEMMA OrderKept ==
    ASSUME PublisherTypeOK, Underway, Carried, InOrder, [Next]_vars
    PROVE  InOrder'
<1>0. /\ Len(udp) \in Nat /\ Len(relayed) \in Nat /\ Len(sent) \in Nat
      /\ udp \in Seq(1..Len(sent)) /\ relayed \in Seq(1..Len(sent))
  BY DEF Underway, Carried, PublisherTypeOK
<1>1. \A j \in 1..Len(udp) : udp[j] \in 1..Len(sent)
  BY <1>0
<1>2. \A j \in 1..Len(relayed) : relayed[j] \in 1..Len(sent)
  BY <1>0
<1>3. CASE UNCHANGED <<udp, relayed>>
  BY <1>3 DEF InOrder
<1>4. CASE PublisherStep /\ udp' # udp
  <2>1. relayed' = relayed /\ udp' = Append(udp, Len(sent')) /\ Len(sent') = Len(sent) + 1
    BY <1>0, <1>4, SentGrows DEF PublisherStep, Transmit
  <2>2. /\ Len(udp') = Len(udp) + 1
        /\ \A k \in 1..Len(udp) : udp'[k] = udp[k]
        /\ udp'[Len(udp) + 1] = Len(sent) + 1
    BY <1>0, <2>1
  <2>3. ASSUME NEW j \in 1..Len(udp'), NEW k \in 1..Len(udp'), j < k
        PROVE  udp'[j] < udp'[k]
    <3>1. j \in 1..Len(udp)
      BY <1>0, <2>2, <2>3
    <3>2. CASE k \in 1..Len(udp)
      BY <2>2, <2>3, <3>1, <3>2 DEF InOrder
    <3>3. CASE k = Len(udp) + 1
      BY <1>0, <1>1, <2>2, <3>1, <3>3
    <3>4. QED BY <1>0, <2>2, <3>2, <3>3
  <2>4. ASSUME NEW j \in 1..Len(relayed), NEW k \in 1..Len(udp')
        PROVE  relayed[j] < udp'[k]
    <3>1. CASE k \in 1..Len(udp)
      BY <2>2, <3>1 DEF InOrder
    <3>2. CASE k = Len(udp) + 1
      BY <1>0, <1>2, <2>2, <3>2
    <3>3. QED BY <1>0, <2>2, <3>1, <3>2
  <2>5. QED BY <2>1, <2>3, <2>4 DEF InOrder
<1>5. CASE Relay
  <2>1. udp # <<>> /\ udp' = Tail(udp) /\ relayed' = Append(relayed, Head(udp))
    BY <1>5 DEF Relay
  <2>2. /\ Len(udp') = Len(udp) - 1 /\ Len(udp) > 0
        /\ \A k \in 1..(Len(udp) - 1) : udp'[k] = udp[k + 1]
        /\ Head(udp) = udp[1]
    BY <1>0, <2>1
  <2>3. /\ Len(relayed') = Len(relayed) + 1
        /\ \A k \in 1..Len(relayed) : relayed'[k] = relayed[k]
        /\ relayed'[Len(relayed) + 1] = udp[1]
    BY <1>0, <2>1, <2>2
  <2>4. \A k \in 1..Len(udp') : k + 1 \in 1..Len(udp) /\ udp'[k] = udp[k + 1]
    BY <1>0, <2>2
  <2>5. ASSUME NEW j \in 1..Len(relayed'), NEW k \in 1..Len(relayed'), j < k
        PROVE  relayed'[j] < relayed'[k]
    <3>1. j \in 1..Len(relayed)
      BY <1>0, <2>3, <2>5
    <3>2. CASE k \in 1..Len(relayed)
      BY <2>3, <2>5, <3>1, <3>2 DEF InOrder
    <3>3. CASE k = Len(relayed) + 1
      BY <1>0, <2>2, <2>3, <3>1, <3>3 DEF InOrder
    <3>4. QED BY <1>0, <2>3, <3>2, <3>3
  <2>6. \A j, k \in 1..Len(udp') : j < k => udp'[j] < udp'[k]
    BY <2>2, <2>4 DEF InOrder
  <2>7. ASSUME NEW j \in 1..Len(relayed'), NEW k \in 1..Len(udp')
        PROVE  relayed'[j] < udp'[k]
    <3>1. CASE j \in 1..Len(relayed)
      BY <2>3, <2>4, <3>1 DEF InOrder
    <3>2. CASE j = Len(relayed) + 1
      <4>1. relayed'[j] = udp[1] /\ udp'[k] = udp[k + 1]
        BY <2>3, <2>4, <3>2
      <4>2. 1 \in 1..Len(udp) /\ k + 1 \in 1..Len(udp) /\ 1 < k + 1
        BY <1>0, <2>2
      <4>3. QED BY <4>1, <4>2 DEF InOrder
    <3>3. QED BY <1>0, <2>3, <3>1, <3>2
  <2>8. QED BY <2>5, <2>6, <2>7 DEF InOrder
<1>6. QED
  BY <1>3, <1>4, <1>5
  DEF Next, ServerRuns, ServerClose, HandleRequest, SendAll, ServerExit, UserCommand,
      SubscriberStep, PublisherStep, vars

LEMMA UnitPerMessageKept ==
    ASSUME PublisherTypeOK, Underway, Carried, Layout, UnitPerMessage, [Next]_vars
    PROVE  UnitPerMessage'
<1>0. /\ Len(relayed) \in Nat /\ relayed \in Seq(DOMAIN sent)
      /\ units \in Seq([at : Nat, len : Nat]) /\ Len(units) \in Nat
      /\ \A j \in 1..Len(relayed) : relayed[j] \in DOMAIN sent /\ j \in 1..Len(units)
  <2>1. Len(relayed) \in Nat /\ relayed \in Seq(DOMAIN sent)
    BY DEF Carried
  <2>2. units \in Seq([at : Nat, len : Nat]) /\ Len(units) \in Nat
    BY DEF Layout
  <2>3. Len(relayed) <= Len(units)
    BY <2>1, <2>2 DEF UnitPerMessage
  <2>4. \A j \in 1..Len(relayed) : relayed[j] \in DOMAIN sent
    BY <2>1
  <2>5. QED BY <2>1, <2>2, <2>3, <2>4
<1>1. /\ PublisherNext \/ UNCHANGED publisherVars
      /\ \A n \in DOMAIN sent : UnitLength(n)' = UnitLength(n)
  <2>1. PublisherNext \/ UNCHANGED publisherVars
    BY DEF Next, ServerRuns, Relay, ServerClose, HandleRequest, SendAll, ServerExit,
       UserCommand, SubscriberStep, PublisherStep, vars
  <2>2. QED BY <2>1, SameDatagrams
<1>2. CASE UNCHANGED <<units, relayed, exiting>>
  <2>1. ASSUME NEW j \in 1..Len(relayed) PROVE units[j].len = UnitLength(relayed[j])'
    <3>1. PICK n \in DOMAIN sent : n = relayed[j] /\ n = relayed'[j]
      BY <1>0, <1>2
    <3>2. UnitLength(n)' = UnitLength(n)
      BY <1>1, SameDatagrams
    <3>3. UnitLength(relayed[j])' = UnitLength(relayed[j])
      BY <3>1, <3>2 DEF UnitLength, Datagram, input_file
    <3>4. QED BY <3>3 DEF UnitPerMessage
  <2>2. QED BY <1>2, <2>1 DEF UnitPerMessage
<1>3. CASE Relay
  <2> DEFINE new == [at |-> Total, len |-> UnitLength(Head(udp))]
  <2>1. /\ units' = Append(units, new) /\ ~exiting /\ exiting' = exiting
        /\ relayed' = Append(relayed, Head(udp)) /\ UNCHANGED publisherVars
    BY <1>3 DEF Relay, Begin
  <2>2. new.len = UnitLength(Head(udp))
    OBVIOUS
  <2> HIDE DEF new
  <2>3. Len(units) = Len(relayed) /\ ~exiting'
    BY <1>0, <2>1 DEF UnitPerMessage
  <2>4. /\ Len(units') = Len(relayed) + 1 /\ Len(relayed') = Len(relayed) + 1
        /\ \A j \in 1..Len(relayed) : units'[j] = units[j] /\ relayed'[j] = relayed[j]
        /\ units'[Len(relayed) + 1] = new /\ relayed'[Len(relayed) + 1] = Head(udp)
    BY <1>0, <2>1, <2>3
  <2>5. ASSUME NEW j \in 1..(Len(relayed) + 1)
        PROVE  units'[j].len = UnitLength(relayed[j])'
    <3>1. PICK n : n = relayed'[j]
      OBVIOUS
    <3>2. UnitLength(relayed[j])' = UnitLength(n)
      BY <2>1, <3>1 DEF UnitLength, Datagram, publisherVars, input_file
    <3>3. CASE j \in 1..Len(relayed)
      BY <2>4, <3>1, <3>2, <3>3 DEF UnitPerMessage
    <3>4. CASE j = Len(relayed) + 1
      BY <2>2, <2>4, <3>1, <3>2, <3>4
    <3>5. QED BY <1>0, <3>3, <3>4
  <2>6. QED BY <1>0, <2>3, <2>4, <2>5 DEF UnitPerMessage
<1>4. CASE ServerExit
  <2> DEFINE new == [at |-> Total, len |-> Notice]
  <2>1. /\ units' = Append(units, new) /\ ~exiting /\ exiting'
        /\ relayed' = relayed /\ UNCHANGED publisherVars
    BY <1>4 DEF ServerExit, Begin
  <2>2. new.len = Notice
    OBVIOUS
  <2> HIDE DEF new
  <2>3. Len(units) = Len(relayed)
    BY <1>0, <2>1 DEF UnitPerMessage
  <2>4. /\ Len(units') = Len(relayed) + 1
        /\ \A j \in 1..Len(relayed) : units'[j] = units[j]
        /\ units'[Len(units')] = new
    BY <1>0, <2>1, <2>3
  <2>5. ASSUME NEW j \in 1..Len(relayed) PROVE units'[j].len = UnitLength(relayed[j])'
    BY <2>1, <2>4 DEF UnitPerMessage, UnitLength, Datagram, publisherVars, input_file
  <2>6. QED BY <2>1, <2>2, <2>4, <2>5 DEF UnitPerMessage
<1>5. UNCHANGED <<units, relayed, exiting>> \/ Relay \/ ServerExit
  BY DEF Next, ServerRuns, ServerClose, HandleRequest, SendAll, UserCommand, SubscriberStep,
     PublisherStep, Reads, Peek, Recv, SeeEnd, GotPrefix, GotPayload, GotControl, Sent, Type,
     CloseStream, TakeRequest, Segment, streamVars, vars
<1>6. QED BY <1>2, <1>3, <1>4, <1>5

\* What was confusing, and what was not whole, stays so.
LEMMA PremiseShrinks ==
    ASSUME PublisherTypeOK, Carried, Layout, [Next]_vars
    PROVE  /\ Confusable => Confusable'
           /\ AllWhole' => AllWhole
<1>1. /\ PublisherNext \/ UNCHANGED publisherVars
      /\ \/ UNCHANGED <<units, relayed>>
         \/ \E new : units' = Append(units, new)
                     /\ (relayed' = relayed \/ relayed' = Append(relayed, Head(udp)))
  <2>1. PublisherNext \/ UNCHANGED publisherVars
    BY DEF Next, ServerRuns, Relay, ServerClose, HandleRequest, SendAll, ServerExit,
       UserCommand, SubscriberStep, PublisherStep, vars
  <2>2. CASE Relay \/ ServerExit
    BY <2>1, <2>2 DEF Relay, ServerExit, Begin
  <2>3. CASE ~(Relay \/ ServerExit)
    BY <2>1, <2>3
    DEF Next, ServerRuns, ServerClose, HandleRequest, SendAll, UserCommand, SubscriberStep,
        PublisherStep, Reads, Peek, Recv, SeeEnd, GotPrefix, GotPayload, GotControl, Sent, Type,
        CloseStream, TakeRequest, Segment, streamVars, vars
  <2>4. QED BY <2>2, <2>3
<1>2. /\ \A u \in DOMAIN units : u \in DOMAIN units' /\ units'[u] = units[u]
      /\ \A j \in DOMAIN relayed :
            j \in DOMAIN relayed' /\ relayed'[j] = relayed[j] /\ relayed[j] \in DOMAIN sent
  <2>1. units \in Seq([at : Nat, len : Nat]) /\ relayed \in Seq(DOMAIN sent)
    BY DEF Layout, Carried
  <2>2. \A new : \A u \in DOMAIN units :
            u \in DOMAIN Append(units, new) /\ Append(units, new)[u] = units[u]
    BY <2>1
  <2>3. \A j \in DOMAIN relayed :
            /\ j \in DOMAIN Append(relayed, Head(udp))
            /\ Append(relayed, Head(udp))[j] = relayed[j]
            /\ relayed[j] \in DOMAIN sent
    BY <2>1
  <2>4. QED BY <1>1, <2>2, <2>3
<1>3. ASSUME Confusable PROVE Confusable'
  BY <1>2, <1>3 DEF Confusable, Confusing
<1>4. ASSUME AllWhole', NEW j \in DOMAIN relayed PROVE Whole(Datagram(relayed[j]))
  <2>1. PICK n \in DOMAIN sent : n = relayed[j] /\ n = relayed'[j]
    BY <1>2
  <2>2. Datagram(n)' = Datagram(n)
    BY <1>1, SameDatagrams
  <2>3. Datagram(relayed[j])' = Datagram(relayed[j])
    BY <2>1, <2>2 DEF Datagram, input_file
  <2>4. Whole(Datagram(relayed[j]))'
    BY <1>2, <1>4 DEF AllWhole
  <2>5. QED BY <2>3, <2>4 DEF Whole
<1>5. QED BY <1>3, <1>4 DEF AllWhole

\* Two messages do not lie at the same place.
LEMMA BodyIsOfOne ==
    ASSUME Layout, NEW j \in 1..Len(units), NEW k \in 1..Len(units), Body(j) = Body(k)
    PROVE  j = k
<1>1. units[j].at = units[k].at
  <2>1. units[j].at \in Nat /\ units[k].at \in Nat
    BY Sizes
  <2>2. units[j].at + PREFIX = units[k].at + PREFIX
    BY DEF Body
  <2>3. QED BY <2>1, <2>2 DEF PREFIX
<1>2. CASE j < k
  <2>1. End(j) <= units[k].at
    BY <1>2 DEF Layout
  <2>2. units[j].at \in Nat /\ Size(units[j]) \in Nat /\ Size(units[j]) >= 4
    BY Sizes DEF PREFIX
  <2>3. QED BY <1>1, <2>1, <2>2 DEF End
<1>3. CASE k < j
  <2>1. End(k) <= units[j].at
    BY <1>3 DEF Layout
  <2>2. units[k].at \in Nat /\ Size(units[k]) \in Nat /\ Size(units[k]) >= 4
    BY Sizes DEF PREFIX
  <2>3. QED BY <1>1, <2>1, <2>2 DEF End
<1>4. QED BY <1>2, <1>3, Sizes

\* What the reader has parsed last is a message of the same number, and no other.
LastParsed ==
    ~Confusable /\ Len(parsed) > 0 =>
        /\ Len(parsed) \in DOMAIN relayed
        /\ \A j \in DOMAIN relayed : parsed[Len(parsed)] = Body(j) <=> j = Len(parsed)

LEMMA ParsedIsRelayed ==
    ASSUME FramingInv, UnitPerMessage, Carried
    PROVE  LastParsed
<1> SUFFICES ASSUME ~Confusable, Len(parsed) > 0
             PROVE  /\ Len(parsed) \in DOMAIN relayed
                    /\ \A j \in DOMAIN relayed : parsed[Len(parsed)] = Body(j) <=> j = Len(parsed)
  BY DEF LastParsed
<1> DEFINE n == Len(parsed)
<1>1. /\ n \in Nat /\ Len(units) \in Nat /\ Len(relayed) \in Nat
      /\ DOMAIN relayed = 1..Len(relayed)
  <2>1. Len(units) \in Nat
    BY Sizes DEF FramingInv
  <2>2. n \in Nat
    BY DEF FramingInv, Counts
  <2>3. Len(relayed) \in Nat /\ DOMAIN relayed = 1..Len(relayed)
    BY DEF Carried
  <2>4. QED BY <2>1, <2>2, <2>3
<1>2. n <= Len(units) /\ parsed[n] = Body(n) /\ units[n].len # Notice
  BY <1>1 DEF FramingInv, InStep
<1>3. n <= Len(relayed) /\ Len(relayed) <= Len(units)
  <2>1. CASE exiting
    BY <1>1, <1>2, <2>1 DEF UnitPerMessage
  <2>2. CASE ~exiting
    BY <1>1, <1>2, <2>2 DEF UnitPerMessage
  <2>3. QED BY <2>1, <2>2
<1>4. n \in 1..Len(units) /\ \A j \in DOMAIN relayed : j \in 1..Len(units)
  BY <1>1, <1>3
<1>5. \A j \in DOMAIN relayed : Body(j) = Body(n) => j = n
  BY <1>4, BodyIsOfOne DEF FramingInv
<1>6. QED BY <1>1, <1>2, <1>3, <1>5

LEMMA RestIsInt ==
    ASSUME PublisherTypeOK, Carried, NEW j \in DOMAIN relayed
    PROVE  Datagram(relayed[j]).rest \in Int
<1>1. relayed[j] \in DOMAIN sent
  BY DEF Carried
<1>2. sent[relayed[j]] \in DOMAIN args.input_file /\ args \in CommandLines
  BY <1>1 DEF PublisherTypeOK
<1>3. QED BY <1>2, PipelineAssumption DEF Datagram, input_file

\* A step of the subscriber that parses something displays the next message.
LEMMA NextDisplayed ==
    ASSUME PublisherTypeOK, Carried, FramingInv, LastParsed', ~Confusable',
           SubscriberStep, parsed' # parsed
    PROVE  /\ Len(parsed) \in Nat /\ Len(parsed') = Len(parsed) + 1
           /\ Len(parsed) + 1 \in DOMAIN relayed
           /\ Display(Len(parsed) + 1)
           /\ Datagram(relayed[Len(parsed) + 1]).rest \in Int
           /\ UNCHANGED <<units, relayed, args, sent, typed>>
           /\ reading \notin {"sending", "ended"} /\ reading' = "poll"
<1>1. /\ parsed' = Append(parsed, <<start, taken>>)
      /\ reading \notin {"sending", "ended"} /\ reading' = "poll" /\ typed' = typed
  BY DEF SubscriberStep, Reads, Peek, Recv, SeeEnd, GotPrefix, GotPayload, GotControl, Parse, Sent
<1>2. parsed \in Seq(Nat \X Nat) /\ Len(parsed) \in Nat
  BY DEF FramingInv, Counts
<1>3. PICK n \in Nat : n = Len(parsed) + 1 /\ n = Len(parsed')
  BY <1>1, <1>2
<1>4. /\ n \in DOMAIN relayed'
      /\ \A j \in DOMAIN relayed' : parsed'[n] = Body(j)' => j = n
      /\ parsed'[n] = Body(n)'
  BY <1>2, <1>3 DEF LastParsed
<1>5. /\ UNCHANGED <<units, relayed, args, sent>>
      /\ \A j : Body(j)' = Body(j)
  <2>1. UNCHANGED <<units, relayed, args, sent>>
    BY DEF SubscriberStep, Reads, Peek, Recv, SeeEnd, GotPrefix, GotPayload, GotControl, Sent,
       publisherVars
  <2>2. QED BY <2>1 DEF Body
<1>6. Display(n)
  <2>1. \/ \E j \in DOMAIN relayed : Parsed = Body(j) /\ Display(j)
        \/ \A j \in DOMAIN relayed : Parsed # Body(j)
    <3>1. Show
      BY <1>1 DEF SubscriberStep
    <3>2. QED BY <3>1 DEF Show
  <2>2. n \in DOMAIN relayed /\ Parsed = Body(n)
    BY <1>3, <1>4, <1>5 DEF Parsed
  <2>3. PICK j \in DOMAIN relayed : Parsed = Body(j) /\ Display(j)
    BY <2>1, <2>2
  <2>4. j = n
    BY <1>3, <1>4, <1>5, <2>3 DEF Parsed
  <2>5. QED BY <2>3, <2>4
<1>7. Datagram(relayed[n]).rest \in Int
  BY <1>4, <1>5, RestIsInt
<1>8. QED BY <1>1, <1>2, <1>3, <1>4, <1>5, <1>6, <1>7

THEOREM RelayedInStep == Spec => [](InOrder /\ UnitPerMessage)
<1>1. Init => InOrder /\ UnitPerMessage
  BY DEF Init, StreamInit, InOrder, UnitPerMessage
<1>2. /\ PublisherTypeOK /\ Underway /\ Carried /\ FramingInv
      /\ InOrder /\ UnitPerMessage /\ [Next]_vars
      => (InOrder /\ UnitPerMessage)'
  BY OrderKept, UnitPerMessageKept DEF FramingInv
<1>3. QED
  BY <1>1, <1>2, PublisherUnaffected, PublisherTypeCorrect, UdpIsUnderway, CarriedHolds,
     InStepWithStream, PTL DEF Spec

\* A datagram that was relayed stays what it was.
LEMMA SameRelayed ==
    ASSUME PublisherTypeOK, Carried, [Next]_vars, NEW j \in DOMAIN relayed
    PROVE  j \in DOMAIN relayed' /\ Datagram(relayed[j])' = Datagram(relayed[j])
<1>1. /\ PublisherNext \/ UNCHANGED publisherVars
      /\ relayed' = relayed \/ relayed' = Append(relayed, Head(udp))
  BY DEF Next, ServerRuns, Relay, ServerClose, HandleRequest, SendAll, ServerExit,
     UserCommand, SubscriberStep, PublisherStep, vars
<1>2. j \in DOMAIN relayed' /\ relayed'[j] = relayed[j] /\ relayed[j] \in DOMAIN sent
  <2>1. relayed \in Seq(DOMAIN sent)
    BY DEF Carried
  <2>2. QED BY <1>1, <2>1
<1>3. PICK n \in DOMAIN sent : n = relayed[j] /\ n = relayed'[j]
  BY <1>2
<1>4. Datagram(n)' = Datagram(n)
  BY <1>1, SameDatagrams
<1>5. Datagram(relayed[j])' = Datagram(relayed[j])
  BY <1>3, <1>4 DEF Datagram, input_file
<1>6. QED BY <1>2, <1>5

\* The numbers on the screen are those of messages the server received.
LEMMA OnlyRelayedShown ==
    ASSUME Carried, FramingInv, LastParsed, ~Confusable
    PROVE  1..Len(parsed) \subseteq DOMAIN relayed
<1>1. Len(parsed) \in Nat /\ DOMAIN relayed = 1..Len(relayed) /\ Len(relayed) \in Nat
  BY DEF FramingInv, Counts, Carried
<1>2. QED BY <1>1 DEF LastParsed

---------------------------------------------------------------------------
(* The screen: messages, cut, unknown, empty or whole, and in between the  *)
(* acknowledgements of commands.                                           *)

\* The command that is being sent has not been acknowledged: without this, that
\* acknowledgements come in order is not inductive.
NotYet == reading = "sending" => \A n \in DOMAIN screen : screen[n].item > -typed

Shown == InSequence /\ EndsWhole /\ NoneMissing /\ NotYet

\* What a step has to do with the screen: a message is displayed, the command
\* being sent is acknowledged, a command is typed, or nothing is printed.
LEMMA ScreenSteps ==
    ASSUME [Next]_vars
    PROVE  \/ SubscriberStep /\ parsed' # parsed
           \/ /\ Acknowledge /\ UNCHANGED <<parsed, typed>>
              /\ reading = "sending" /\ reading' = "poll"
           \/ /\ UNCHANGED <<parsed, screen>> /\ typed' = typed + 1
              /\ reading = "poll" /\ reading' = "sending"
           \/ /\ UNCHANGED <<parsed, screen, typed>>
              /\ reading' = "sending" => reading = "sending"
              /\ reading \in {"sending", "ended"} => reading' \in {"sending", "ended"}
<1>1. CASE SubscriberStep /\ parsed' = parsed
  <2>1. /\ UNCHANGED typed
        /\ reading' = "sending" => reading = "sending"
        /\ reading \in {"sending", "ended"} /\ reading' \notin {"sending", "ended"} =>
              reading = "sending" /\ reading' = "poll"
    BY <1>1 DEF SubscriberStep, Reads, Peek, Recv, SeeEnd, GotPrefix, GotPayload, GotControl,
       Parse, Sent, Receiving
  <2>2. CASE reading = "sending" /\ reading' = "poll"
    <3>1. Acknowledge
      BY <1>1, <2>2 DEF SubscriberStep
    <3>2. QED BY <1>1, <2>1, <2>2, <3>1
  <2>3. CASE ~(reading = "sending" /\ reading' = "poll")
    <3>1. UNCHANGED screen
      BY <1>1, <2>3 DEF SubscriberStep
    <3>2. QED BY <1>1, <2>1, <2>3, <3>1
  <2>4. QED BY <2>2, <2>3
<1>2. CASE UserCommand
  BY <1>2 DEF UserCommand, Type
<1>3. CASE PublisherStep \/ ServerRuns \/ ServerExit \/ UNCHANGED vars
  <2>1. UNCHANGED <<parsed, screen, typed, reading>>
    BY <1>3 DEF PublisherStep, ServerRuns, Relay, ServerClose, HandleRequest, SendAll, ServerExit,
       Begin, CloseStream, TakeRequest, Segment, streamVars, vars
  <2>2. QED BY <2>1
<1>4. QED BY <1>1, <1>2, <1>3 DEF Next

\* A message behind all that were printed.
LEMMA MessageKeeps ==
    ASSUME Shown, screen \in Seq([item : Int, ends : BOOLEAN]), typed \in Nat,
           NEW j \in Nat, j = Len(parsed) + 1, Len(parsed) \in Nat, Len(parsed') = j,
           \A n : Datagram(relayed[n])' = Datagram(relayed[n]),
           Display(j), Datagram(relayed[j]).rest \in Int, typed' = typed,
           reading \notin {"sending", "ended"}, reading' = "poll"
    PROVE  Shown'
<1>1. 1..Len(parsed') = 1..Len(parsed) \cup {j} /\ j > 0
  OBVIOUS
<1>2. Done' = Done
  BY DEF Done
<1>3. NotYet'
  BY DEF NotYet
<1>4. CASE Datagram(relayed[j]).rest < 0
  <2>1. screen' = screen
    BY <1>4 DEF Display
  <2>2. InSequence'
    BY <2>1 DEF Shown, InSequence
  <2>3. EndsWhole'
    BY <2>1 DEF Shown, EndsWhole
  <2>4. NoneMissing'
    <3>1. ASSUME NEW i \in 1..Len(parsed'), Datagram(relayed[i])'.rest >= 0
          PROVE  \E n \in DOMAIN screen' : screen'[n].item = i
      <4>1. Datagram(relayed[i]).rest >= 0 /\ i \in 1..Len(parsed)
        BY <1>1, <1>4, <3>1
      <4>2. QED BY <2>1, <4>1 DEF Shown, NoneMissing
    <3>2. QED BY <1>2, <2>1, <3>1 DEF Shown, NoneMissing
  <2>5. QED BY <1>3, <2>2, <2>3, <2>4 DEF Shown
<1>5. CASE Datagram(relayed[j]).rest >= 0
  <2> DEFINE new == [item |-> j, ends |-> EndsLine(Datagram(relayed[j]))]
             m == Len(screen) + 1
  <2>1. /\ new.item = j
        /\ new.ends <=> Whole(Datagram(relayed[j]))
        /\ screen' = Append(screen, new)
    BY <1>5 DEF Display, Put, EndsLine
  <2> HIDE DEF new
  <2>2. /\ Len(screen) \in Nat /\ DOMAIN screen = 1..Len(screen)
        /\ DOMAIN screen' = 1..m
        /\ \A n \in DOMAIN screen : n \in DOMAIN screen' /\ screen'[n] = screen[n]
        /\ m \in DOMAIN screen' /\ screen'[m] = new
        /\ \A n \in DOMAIN screen' : n = m \/ n \in DOMAIN screen
    BY <2>1
  <2>3. \A n \in DOMAIN screen : screen[n].item \in (-typed)..Len(parsed) /\ screen[n].item < j
    BY DEF Shown, EndsWhole
  <2>4. InSequence'
    BY <1>1, <2>1, <2>2, <2>3 DEF Shown, InSequence
  <2>5. EndsWhole'
    <3>1. ASSUME NEW n \in DOMAIN screen', NEW i, i = screen'[n].item
          PROVE  /\ i \in (-typed)..Len(parsed') /\ i # 0
                 /\ screen'[n].ends <=> i < 0 \/ Whole(Datagram(relayed[i]))
      <4>1. CASE n = m
        BY <1>1, <2>1, <2>2, <3>1, <4>1
      <4>2. CASE n \in DOMAIN screen
        BY <2>2, <2>3, <3>1, <4>2 DEF Shown, EndsWhole
      <4>3. QED BY <2>2, <4>1, <4>2
    <3>2. QED BY <3>1 DEF EndsWhole
  <2>6. NoneMissing'
    <3>1. ASSUME NEW i \in 1..Len(parsed'), Datagram(relayed[i])'.rest >= 0
          PROVE  \E n \in DOMAIN screen' : screen'[n].item = i
      <4>1. CASE i = j
        BY <2>1, <2>2, <4>1
      <4>2. CASE i \in 1..Len(parsed)
        BY <2>2, <3>1, <4>2 DEF Shown, NoneMissing
      <4>3. QED BY <1>1, <4>1, <4>2
    <3>2. \A k \in Done' : \E n \in DOMAIN screen' : screen'[n].item = -k
      BY <1>2, <2>2 DEF Shown, NoneMissing
    <3>3. QED BY <3>1, <3>2 DEF NoneMissing
  <2>7. QED BY <1>3, <2>4, <2>5, <2>6 DEF Shown
<1>6. QED BY <1>4, <1>5

\* The acknowledgement of the command that was being sent.
LEMMA AcknowledgeKeeps ==
    ASSUME Shown, screen \in Seq([item : Int, ends : BOOLEAN]), typed \in Nat, typed > 0,
           Len(parsed) \in Nat, UNCHANGED <<parsed, typed>>,
           \A j \in 1..Len(parsed) : Datagram(relayed[j])' = Datagram(relayed[j]),
           Acknowledge, reading = "sending", reading' = "poll"
    PROVE  Shown'
<1> DEFINE new == [item |-> -typed, ends |-> TRUE]
           m == Len(screen) + 1
<1>1. new.item = -typed /\ new.ends /\ screen' = Append(screen, new)
  BY DEF Acknowledge, Put
<1> HIDE DEF new
<1>2. /\ Len(screen) \in Nat /\ DOMAIN screen = 1..Len(screen)
      /\ DOMAIN screen' = 1..m
      /\ \A n \in DOMAIN screen : n \in DOMAIN screen' /\ screen'[n] = screen[n]
      /\ m \in DOMAIN screen' /\ screen'[m] = new
      /\ \A n \in DOMAIN screen' : n = m \/ n \in DOMAIN screen
  BY <1>1
<1>3. \A n \in DOMAIN screen : screen[n].item \in Int /\ screen[n].item > -typed
  BY DEF Shown, EndsWhole, NotYet
<1>4. InSequence'
  BY <1>1, <1>2, <1>3 DEF Shown, InSequence
<1>5. EndsWhole'
  <2>1. ASSUME NEW n \in DOMAIN screen', NEW i, i = screen'[n].item
        PROVE  /\ i \in (-typed)..Len(parsed) /\ i # 0
               /\ screen'[n].ends <=> i < 0 \/ Whole(Datagram(relayed[i])')
    <3>1. CASE n = m
      BY <1>1, <1>2, <2>1, <3>1
    <3>2. CASE n \in DOMAIN screen
      <4>1. /\ i \in (-typed)..Len(parsed) /\ i # 0
            /\ screen'[n].ends <=> i < 0 \/ Whole(Datagram(relayed[i]))
        BY <1>2, <2>1, <3>2 DEF Shown, EndsWhole
      <4>2. i < 0 \/ i \in 1..Len(parsed)
        BY <4>1
      <4>3. QED BY <4>1, <4>2
    <3>3. QED BY <1>2, <3>1, <3>2
  <2>2. QED BY <2>1 DEF EndsWhole, Whole
<1>6. NoneMissing'
  <2>1. \A k \in Done' : k \in Done \/ k = typed
    BY DEF Done
  <2>2. \A k \in Done' : \E n \in DOMAIN screen' : screen'[n].item = -k
    BY <1>1, <1>2, <2>1 DEF Shown, NoneMissing
  <2>3. QED BY <1>2, <2>2 DEF Shown, NoneMissing
<1>7. NotYet'
  BY DEF NotYet
<1>8. QED BY <1>4, <1>5, <1>6, <1>7 DEF Shown

\* A step that prints nothing: a command may have been typed, or its send_all end
\* with the subscriber.
LEMMA QuietKeeps ==
    ASSUME Shown, UNCHANGED <<parsed, screen>>, Len(parsed) \in Nat,
           NEW old \in Nat, NEW new \in Nat, old <= new, typed = old, typed' = new,
           \A j \in 1..Len(parsed) : Datagram(relayed[j])' = Datagram(relayed[j]),
           Done' \subseteq Done,
           reading' = "sending" => reading = "sending" \/ old < new
    PROVE  Shown'
<1>1. InSequence'
  BY DEF Shown, InSequence
<1>2. ASSUME NEW n \in DOMAIN screen, NEW i, i = screen[n].item
      PROVE  /\ i \in (-new)..Len(parsed) /\ i # 0 /\ i >= -old
             /\ screen[n].ends <=> i < 0 \/ Whole(Datagram(relayed[i])')
  <2>1. /\ i \in (-old)..Len(parsed) /\ i # 0
        /\ screen[n].ends <=> i < 0 \/ Whole(Datagram(relayed[i]))
    BY <1>2 DEF Shown, EndsWhole
  <2>2. i \in (-new)..Len(parsed) /\ i >= -old /\ (i < 0 \/ i \in 1..Len(parsed))
    BY <2>1
  <2>3. QED BY <2>1, <2>2
<1>3. EndsWhole'
  BY <1>2 DEF EndsWhole, Whole
<1>4. NoneMissing'
  BY DEF Shown, NoneMissing
<1>5. NotYet'
  BY <1>2 DEF Shown, NotYet
<1>6. QED BY <1>1, <1>3, <1>4, <1>5 DEF Shown

LEMMA ShownKept ==
    ASSUME PublisherTypeOK, Carried, FramingInv, LastParsed, LastParsed', Shown,
           [Next]_vars, ~Confusable, ~Confusable'
    PROVE  Shown'
<1>1. /\ screen \in Seq([item : Int, ends : BOOLEAN]) /\ typed \in Nat /\ Len(parsed) \in Nat
      /\ reading = "sending" => typed > 0
  BY DEF Carried, FramingInv, Counts
<1>2. \A j \in 1..Len(parsed) : Datagram(relayed[j])' = Datagram(relayed[j])
  BY OnlyRelayedShown, SameRelayed
<1>3. CASE SubscriberStep /\ parsed' # parsed
  <2>1. PICK j \in Nat : j = Len(parsed) + 1
    BY <1>1
  <2>2. /\ Len(parsed') = j /\ Display(j) /\ Datagram(relayed[j]).rest \in Int
        /\ UNCHANGED <<relayed, args, sent, typed>>
        /\ reading \notin {"sending", "ended"} /\ reading' = "poll"
    BY <1>3, <2>1, NextDisplayed
  <2>3. \A n : Datagram(relayed[n])' = Datagram(relayed[n])
    BY <2>2 DEF Datagram, input_file
  <2>4. QED BY <1>1, <2>1, <2>2, <2>3, MessageKeeps
<1>4. CASE /\ Acknowledge /\ UNCHANGED <<parsed, typed>>
           /\ reading = "sending" /\ reading' = "poll"
  BY <1>1, <1>2, <1>4, AcknowledgeKeeps
<1>5. CASE /\ UNCHANGED <<parsed, screen>> /\ typed' = typed + 1
           /\ reading = "poll" /\ reading' = "sending"
  <2>1. Done' \subseteq Done
    BY <1>1, <1>5 DEF Done
  <2>2. QED BY <1>1, <1>2, <1>5, <2>1, QuietKeeps
<1>6. CASE /\ UNCHANGED <<parsed, screen, typed>>
           /\ reading' = "sending" => reading = "sending"
           /\ reading \in {"sending", "ended"} => reading' \in {"sending", "ended"}
  <2>1. Done' \subseteq Done
    BY <1>1, <1>6 DEF Done
  <2>2. QED BY <1>1, <1>2, <1>6, <2>1, QuietKeeps
<1>7. QED BY <1>3, <1>4, <1>5, <1>6, ScreenSteps

LEMMA ScreenShown == Spec => [](~Confusable => Shown)
<1>1. Init => Shown
  <2> SUFFICES ASSUME Init PROVE Shown
    OBVIOUS
  <2>1. screen = <<>> /\ parsed = <<>> /\ typed = 0 /\ reading = "poll"
    BY DEF Init, StreamInit
  <2>2. DOMAIN screen = {} /\ 1..Len(parsed) = {} /\ Done = {}
    BY <2>1 DEF Done
  <2>3. QED BY <2>2 DEF Shown, InSequence, EndsWhole, NoneMissing, NotYet
<1>2. FramingInv /\ UnitPerMessage /\ Carried => LastParsed
  BY ParsedIsRelayed
<1>3. /\ PublisherTypeOK /\ Carried /\ FramingInv /\ LastParsed /\ LastParsed'
      /\ (~Confusable => Shown) /\ [Next]_vars
      => (~Confusable => Shown)'
  BY ShownKept, PremiseShrinks DEF FramingInv
<1>4. QED
  BY <1>1, <1>2, <1>3, PublisherUnaffected, PublisherTypeCorrect, CarriedHolds,
     InStepWithStream, RelayedInStep, PTL DEF Spec

\* If no length confuses the subscriber, its screen shows each message it has
\* parsed and each command it has sent once and in order, however many messages
\* are cut, unknown or empty and wherever commands are typed; a line ends with
\* an acknowledgement or a whole message, and with nothing else.
THEOREM ScreenInOrder == Spec => []ShownInOrder
<1>1. (~Confusable => Shown) => ShownInOrder
  BY DEF Shown, ShownInOrder
<1>2. QED BY <1>1, ScreenShown, PTL

\* If no length confuses the subscriber and every message is whole, each message
\* parsed has a line of its own, whatever commands are acknowledged in between,
\* and the messages come in the order in which they were sent.
THEOREM LinePerMessage == Spec => []OneLinePerMessage
<1>1. /\ PublisherTypeOK /\ Carried /\ FramingInv /\ InOrder /\ LastParsed /\ ShownInOrder
      => OneLinePerMessage
  <2> SUFFICES ASSUME PublisherTypeOK, Carried, FramingInv, InOrder, LastParsed, ShownInOrder,
                      ~Confusable, AllWhole
               PROVE  OneLinePerMessage
    BY DEF OneLinePerMessage, AllWhole
  <2>1. /\ Len(parsed) \in Nat /\ 1..Len(parsed) \subseteq DOMAIN relayed
        /\ screen \in Seq([item : Int, ends : BOOLEAN]) /\ typed \in Nat
        /\ DOMAIN relayed = 1..Len(relayed)
    BY OnlyRelayedShown DEF Carried, FramingInv, Counts
  <2>2. ASSUME NEW n \in DOMAIN screen PROVE screen[n].ends
    <3>1. /\ screen[n].item \in (-typed)..Len(parsed) /\ screen[n].item # 0
          /\ screen[n].ends <=> screen[n].item < 0 \/ Whole(Datagram(relayed[screen[n].item]))
      BY DEF ShownInOrder, EndsWhole
    <3>2. screen[n].item < 0 \/ screen[n].item \in 1..Len(parsed)
      BY <2>1, <3>1
    <3>3. QED BY <2>1, <3>1, <3>2 DEF AllWhole
  <2>3. ASSUME NEW j \in 1..Len(parsed)
        PROVE  \E n \in DOMAIN screen : screen[n].item = j /\ OwnLine(n)
    <3>1. Whole(Datagram(relayed[j])) /\ Datagram(relayed[j]).rest \in Int
      BY <2>1, RestIsInt DEF AllWhole
    <3>2. Datagram(relayed[j]).rest >= 0
      <4>1. Needed(Datagram(relayed[j]).type) \in Nat
        BY DEF Needed
      <4>2. QED BY <3>1, <4>1 DEF Whole
    <3>3. PICK n \in DOMAIN screen : screen[n].item = j
      BY <3>2 DEF ShownInOrder, NoneMissing
    <3>4. n > 1 => n - 1 \in DOMAIN screen
      BY <2>1
    <3>5. QED BY <2>2, <3>3, <3>4 DEF OwnLine
  <2>4. \A j, k \in DOMAIN relayed : j < k => relayed[j] < relayed[k]
    BY <2>1 DEF InOrder
  <2>5. QED BY <2>3, <2>4 DEF OneLinePerMessage
<1>2. FramingInv /\ UnitPerMessage /\ Carried => LastParsed
  BY ParsedIsRelayed
<1>3. QED
  BY <1>1, <1>2, PublisherUnaffected, PublisherTypeCorrect, CarriedHolds, InStepWithStream,
     RelayedInStep, ScreenInOrder, PTL

---------------------------------------------------------------------------
(* The arithmetic of parse_input, for an int of any width *)

\* Two's complement: an int keeps the numbers below Half and shifts the others.
LEMMA ToIntRange ==
    ASSUME NEW value \in 0..(2 * Half - 1)
    PROVE  /\ ToInt(value) \in -Half..(Half - 1)
           /\ value < Half <=> ToInt(value) >= 0
  BY PayloadAssumption DEF ToInt

\* parse_input prints an INT as README.md describes it exactly when its number
\* is one that an int holds; the least int is, as its negation leaves it alone.
THEOREM IntPrintedAsMeant ==
    ASSUME NEW sign \in BOOLEAN, NEW value \in 0..(2 * Half - 1)
    PROVE  PrintedInt(sign, value) = MeantInt(sign, value)
             <=> value < Half \/ (sign /\ value = Half)
<1>1. Half \in Nat \ {0} /\ value \in Nat /\ value < 2 * Half
  BY PayloadAssumption
<1>2. CASE value < Half
  BY <1>1, <1>2 DEF PrintedInt, MeantInt, Negated, ToInt
<1>3. CASE value >= Half
  <2>1. ToInt(value) = value - 2 * Half
    BY <1>1, <1>3 DEF ToInt
  <2>2. CASE ~sign
    BY <1>1, <1>3, <2>1, <2>2 DEF PrintedInt, MeantInt
  <2>3. CASE sign /\ value = Half
    BY <1>1, <2>1, <2>3 DEF PrintedInt, MeantInt, Negated
  <2>4. CASE sign /\ value # Half
    BY <1>1, <1>3, <2>1, <2>4 DEF PrintedInt, MeantInt, Negated
  <2>5. QED BY <2>2, <2>3, <2>4
<1>4. QED BY <1>1, <1>2, <1>3

\* What is printed of an INT is always a number that an int holds.
THEOREM PrintedIntFits ==
    ASSUME NEW sign \in BOOLEAN, NEW value \in 0..(2 * Half - 1)
    PROVE  PrintedInt(sign, value) \in -Half..(Half - 1)
  BY ToIntRange, PayloadAssumption DEF PrintedInt, Negated

\* Rounding to the nearest integer is off by at most one half.
LEMMA RoundedNearest ==
    ASSUME NEW a \in Nat, NEW b \in Nat \ {0}
    PROVE  /\ Rounded(a, b) \in Nat
           /\ 2 * (b * Rounded(a, b)) - 2 * a <= b
           /\ 2 * a - 2 * (b * Rounded(a, b)) <= b
<1> DEFINE q == a \div b
           r == a % b
<1>1. q \in Nat /\ r \in 0..(b - 1) /\ a = b * q + r
  BY SMTT(30)
<1>2. Rounded(a, b) = IF 2 * r > b \/ (2 * r = b /\ q % 2 = 1) THEN q + 1 ELSE q
  BY DEF Rounded
<1> HIDE DEF q, r
<1>3. CASE Rounded(a, b) = q + 1 /\ 2 * r >= b
  <2>1. b * Rounded(a, b) = b * q + b
    BY <1>1, <1>3
  <2>2. b * q \in Nat
    BY <1>1
  <2>3. QED BY <1>1, <1>3, <2>1, <2>2
<1>4. CASE Rounded(a, b) = q /\ 2 * r <= b
  <2>1. b * q \in Nat
    BY <1>1
  <2>2. QED BY <1>1, <1>4, <2>1
<1>5. QED BY <1>1, <1>2, <1>3, <1>4

\* A number m is printed exactly whenever the quotient a / b that stands for it is
\* less than half a unit of the last printed digit away from it: setprecision
\* undoes what the division by 10^digits lost.
LEMMA DigitsSurvive ==
    ASSUME NEW a \in Nat, NEW b \in Nat \ {0}, NEW m \in Nat,
           2 * a - 2 * (b * m) < b,
           2 * (b * m) - 2 * a < b
    PROVE  Rounded(a, b) = m
<1> DEFINE n == Rounded(a, b)
<1>1. /\ n \in Nat
      /\ 2 * (b * n) - 2 * a <= b
      /\ 2 * a - 2 * (b * n) <= b
  BY RoundedNearest
<1> HIDE DEF n
<1>2. b * n \in Nat /\ b * m \in Nat
  BY <1>1
<1>3. ASSUME n >= m + 1 PROVE FALSE
  <2>1. b * n >= b * (m + 1)
    BY <1>1, <1>3
  <2>2. b * (m + 1) = b * m + b
    OBVIOUS
  <2>3. QED BY <1>1, <1>2, <2>1, <2>2
<1>4. ASSUME m >= n + 1 PROVE FALSE
  <2>1. b * m >= b * (n + 1)
    BY <1>1, <1>4
  <2>2. b * (n + 1) = b * n + b
    BY <1>1
  <2>3. QED BY <1>1, <1>2, <2>1, <2>2
<1>5. n = m
  BY <1>1, <1>3, <1>4
<1>6. QED BY <1>5 DEF n

---------------------------------------------------------------------------
(* Powers *)

\* A nonempty set of numbers has a least.
LEMMA LeastNumber ==
    ASSUME NEW S, S \subseteq Nat, S # {}
    PROVE  \E m \in S : \A n \in S : m <= n
<1>1. PICK m \in S : \A n \in S : <<n, m>> \notin OpToRel(<, Nat)
  BY NatLessThanWellFounded, WFMin
<1>2. \A n \in S : ~(n < m)
  BY <1>1 DEF OpToRel
<1>3. QED BY <1>2

\* p satisfies the equation that defines the powers of b up to the k-th.
ArePowers(p, b, k) == p = [n \in 0..k |-> IF n = 0 THEN 1 ELSE b * p[n - 1]]

\* The equation has a solution, whatever the bound.
LEMMA PowersExist ==
    ASSUME NEW b \in Nat, NEW k \in Nat
    PROVE  \E p : ArePowers(p, b, k)
<1> DEFINE S == {n \in Nat : ~\E p : ArePowers(p, b, n)}
<1> SUFFICES ASSUME S # {} PROVE FALSE
  OBVIOUS
<1>1. PICK m \in S : \A n \in S : m <= n
  BY LeastNumber
<1>2. CASE m = 0
  <2>1. ArePowers([n \in 0..0 |-> 1], b, 0)
    BY DEF ArePowers
  <2>2. QED BY <1>1, <1>2, <2>1
<1>3. CASE m # 0
  <2>1. m - 1 \in Nat /\ m - 1 \notin S
    BY <1>1, <1>3
  <2>2. PICK p : ArePowers(p, b, m - 1)
    BY <2>1
  <2> DEFINE q == [n \in 0..m |-> IF n = 0 THEN 1 ELSE b * p[n - 1]]
  <2>3. \A n \in 0..m : n # 0 => p[n - 1] = q[n - 1]
    <3> SUFFICES ASSUME NEW n \in 0..m, n # 0 PROVE p[n - 1] = q[n - 1]
      OBVIOUS
    <3>1. n - 1 \in 0..(m - 1) /\ n - 1 \in 0..m
      BY <2>1
    <3>2. p[n - 1] = IF n - 1 = 0 THEN 1 ELSE b * p[n - 1 - 1]
      BY <2>2, <3>1 DEF ArePowers
    <3>3. QED BY <3>1, <3>2
  <2>4. q = [n \in 0..m |-> IF n = 0 THEN 1 ELSE b * q[n - 1]]
    BY <2>3
  <2> HIDE DEF q
  <2>5. QED BY <1>1, <2>4 DEF ArePowers
<1>4. QED BY <1>2, <1>3

LEMMA PowersAre ==
    ASSUME NEW b \in Nat, NEW k \in Nat
    PROVE  ArePowers(Powers(b, k), b, k)
  BY PowersExist DEF ArePowers, Powers

\* Each power is the one before it times b.
LEMMA PowersStep ==
    ASSUME NEW b \in Nat, NEW k \in Nat
    PROVE  /\ Powers(b, k)[0] = 1
           /\ \A n \in 0..k : n # 0 => Powers(b, k)[n] = b * Powers(b, k)[n - 1]
<1> DEFINE p == Powers(b, k)
<1>1. p = [n \in 0..k |-> IF n = 0 THEN 1 ELSE b * p[n - 1]]
  BY PowersAre DEF ArePowers
<1> HIDE DEF p
<1>2. p[0] = 1 /\ \A n \in 0..k : n # 0 => p[n] = b * p[n - 1]
  BY <1>1
<1>3. QED BY <1>2 DEF p

LEMMA PowersPositive ==
    ASSUME NEW b \in Nat \ {0}, NEW k \in Nat, NEW n \in 0..k
    PROVE  Powers(b, k)[n] \in Nat \ {0}
<1> DEFINE p == Powers(b, k)
           S == {i \in 0..k : p[i] \notin Nat \ {0}}
<1>1. p[0] = 1 /\ \A i \in 0..k : i # 0 => p[i] = b * p[i - 1]
  BY PowersStep
<1> HIDE DEF p
<1>2. ASSUME S # {} PROVE FALSE
  <2>1. S \subseteq Nat
    OBVIOUS
  <2>2. PICK m \in S : \A i \in S : m <= i
    BY <1>2, <2>1, LeastNumber
  <2>3. m # 0 /\ m \in 0..k
    BY <1>1, <2>2
  <2>4. m - 1 \in 0..k /\ m - 1 \notin S
    BY <2>2, <2>3
  <2>5. p[m - 1] \in Nat \ {0}
    BY <2>4
  <2>6. p[m] = b * p[m - 1]
    BY <1>1, <2>3
  <2>7. b * p[m - 1] \in Nat \ {0}
    BY <2>5
  <2>8. QED BY <2>2, <2>6, <2>7
<1>3. QED BY <1>2 DEF p

LEMMA TwoIsPositive ==
    ASSUME NEW n \in 0..Wide
    PROVE  Two[n] \in Nat \ {0}
  BY PowersPositive, PayloadAssumption DEF Two

LEMMA TenIsPositive ==
    ASSUME NEW n \in 0..Digits
    PROVE  Ten[n] \in Nat \ {0}
  BY PowersPositive, PayloadAssumption DEF Ten

\* Ten grows, so that no power of it reaches the resolution of a float.
LEMMA TenBelow ==
    ASSUME NEW n \in 0..Digits
    PROVE  Ten[n] < Two[Fine]
<1> DEFINE S == {i \in 0..Digits : Ten[Digits - i] >= Two[Fine]}
<1>1. Two[Fine] \in Nat \ {0} /\ Digits \in Nat
  BY TwoIsPositive, PayloadAssumption
<1>2. ASSUME S # {} PROVE FALSE
  <2>1. S \subseteq Nat
    BY <1>1
  <2>2. PICK m \in S : \A i \in S : m <= i
    BY <1>2, <2>1, LeastNumber
  <2>3. m # 0 /\ m \in 0..Digits
    <3>1. Ten[Digits] \in Nat
      BY <1>1, TenIsPositive
    <3>2. 0 \notin S
      BY <1>1, <3>1, PayloadAssumption
    <3>3. QED BY <2>2, <3>2
  <2>4. m - 1 \in 0..Digits /\ m - 1 \notin S
    BY <1>1, <2>2, <2>3
  <2>5. /\ Digits - m \in 0..Digits
        /\ Digits - (m - 1) \in 0..Digits
        /\ Digits - (m - 1) # 0
        /\ (Digits - (m - 1)) - 1 = Digits - m
    BY <1>1, <2>3
  <2>6. Ten[Digits - (m - 1)] = 10 * Ten[Digits - m]
    <3>1. \A i \in 0..Digits : i # 0 => Ten[i] = 10 * Ten[i - 1]
      BY <1>1, PowersStep DEF Ten
    <3>2. QED BY <2>5, <3>1
  <2>7. Ten[Digits - m] \in Nat /\ Ten[Digits - (m - 1)] \in Nat
    BY <2>5, TenIsPositive
  <2>8. Ten[Digits - (m - 1)] < Two[Fine]
    BY <1>1, <2>4, <2>7
  <2>9. QED BY <1>1, <2>2, <2>6, <2>7, <2>8
<1>3. Digits - n \in 0..Digits /\ Digits - (Digits - n) = n
  BY <1>1
<1>4. Digits - n \notin S
  BY <1>2
<1>5. QED BY <1>1, <1>3, <1>4, TenIsPositive

\* Powers of two multiply as their exponents add.
LEMMA TwoTimes ==
    ASSUME NEW i \in Nat, NEW j \in Nat, i + j <= Wide
    PROVE  Two[i + j] = Two[i] * Two[j]
<1> DEFINE S == {n \in Nat : i + n <= Wide /\ Two[i + n] # Two[i] * Two[n]}
<1>1. Two[0] = 1 /\ \A n \in 0..Wide : n # 0 => Two[n] = 2 * Two[n - 1]
  BY PowersStep, PayloadAssumption DEF Two
<1>2. ASSUME S # {} PROVE FALSE
  <2>1. PICK m \in S : \A n \in S : m <= n
    BY <1>2, LeastNumber
  <2>2. i \in 0..Wide /\ Wide \in Nat
    BY PayloadAssumption
  <2>3. m # 0
    BY <1>1, <2>1, <2>2, TwoIsPositive
  <2>4. m - 1 \in Nat /\ m - 1 \notin S
    BY <2>1, <2>3
  <2>5. Two[i + (m - 1)] = Two[i] * Two[m - 1]
    BY <2>1, <2>2, <2>4
  <2>6. /\ m \in 0..Wide /\ m - 1 \in 0..Wide
        /\ i + m \in 0..Wide /\ i + m # 0 /\ (i + m) - 1 = i + (m - 1)
    BY <2>1, <2>2, <2>3
  <2>7. Two[i + m] = 2 * Two[i + (m - 1)] /\ Two[m] = 2 * Two[m - 1]
    BY <1>1, <2>3, <2>6
  <2>8. Two[i] \in Nat /\ Two[m - 1] \in Nat
    BY <2>2, <2>6, TwoIsPositive
  <2>9. Two[i] * (2 * Two[m - 1]) = 2 * (Two[i] * Two[m - 1])
    BY <2>8
  <2>10. QED BY <2>1, <2>5, <2>7, <2>9
<1>3. QED BY <1>2

LEMMA TwoGrows ==
    ASSUME NEW i \in 0..Wide, NEW j \in 0..Wide, i <= j
    PROVE  Two[i] <= Two[j]
<1>1. Wide \in Nat
  BY PayloadAssumption
<1>2. j - i \in 0..Wide /\ i + (j - i) = j
  BY <1>1
<1>3. Two[j] = Two[i] * Two[j - i]
  BY <1>1, <1>2, TwoTimes
<1>4. Two[i] \in Nat \ {0} /\ Two[j - i] \in Nat \ {0}
  BY <1>2, TwoIsPositive
<1>5. QED BY <1>3, <1>4

---------------------------------------------------------------------------
(* Floats *)

\* A number in reach is between two powers of two that follow each other, and
\* the floats around it are as far apart as its highest digit says.
LEMMA SpacingOf ==
    ASSUME NEW x \in Nat, 1 <= x, x < Two[Wide]
    PROVE  \E t \in 0..(Wide - 1) :
              /\ Two[t] <= x /\ x < Two[t + 1]
              /\ Spacing(x) = IF t < FloatBits THEN 1 ELSE Two[t + 1 - FloatBits]
<1> DEFINE S == {n \in 0..Wide : x < Two[n]}
           Top(n) == Two[n] <= x /\ x < Two[n + 1]
<1>1. Wide \in Nat
  BY PayloadAssumption
<1>2. PICK m \in S : \A n \in S : m <= n
  <2>1. Wide \in S /\ S \subseteq Nat
    BY <1>1
  <2>2. QED BY <2>1, LeastNumber
<1>3. m # 0 /\ m \in 0..Wide
  <2>1. Two[0] = 1
    BY <1>1, PowersStep DEF Two
  <2>2. QED BY <1>2, <2>1
<1>4. m - 1 \in 0..(Wide - 1) /\ m - 1 \in 0..Wide /\ m - 1 \notin S /\ (m - 1) + 1 = m
  BY <1>1, <1>2, <1>3
<1>5. Top(m - 1)
  BY <1>2, <1>4, TwoIsPositive
<1> DEFINE t == CHOOSE n \in 0..(Wide - 1) : Top(n)
<1>6. t \in 0..(Wide - 1) /\ Top(t)
  BY <1>4, <1>5
<1>7. Spacing(x) = IF t < FloatBits THEN 1 ELSE Two[t + 1 - FloatBits]
  BY DEF Spacing
<1> HIDE DEF t
<1>8. QED BY <1>6, <1>7

LEMMA RoundedExact ==
    ASSUME NEW q \in Nat, NEW b \in Nat \ {0}
    PROVE  Rounded(q * b, b) = q
<1>1. q * b \in Nat /\ b * q = q * b
  OBVIOUS
<1>2. QED BY <1>1, DigitsSurvive

\* A mantissa of fewer digits than a float has becomes that very float.
LEMMA MantissaKept ==
    ASSUME NEW m \in Nat, 1 <= m, m <= Two[FloatBits - 1], m * Two[Fine] < Two[Wide]
    PROVE  Float(m, 1) = m * Two[Fine]
<1> DEFINE F == Two[Fine]
           B == FloatBits
           x == m * F
           g == Spacing(x)
<1>1. /\ F \in Nat \ {0} /\ Wide \in Nat /\ Fine \in 0..Wide /\ B \in 1..Wide
      /\ Two[B - 1] \in Nat \ {0}
  BY TwoIsPositive, PayloadAssumption
<1>2. x \in Nat /\ 1 <= x /\ x <= Two[B - 1] * F
  BY <1>1
<1>3. x \div 1 = x
  BY <1>2
<1>4. Float(m, 1) = g * Rounded(x, 1 * g)
  BY <1>3 DEF Float
<1>5. PICK t \in 0..(Wide - 1) :
          Two[t] <= x /\ x < Two[t + 1] /\ g = IF t < B THEN 1 ELSE Two[t + 1 - B]
  BY <1>2, SpacingOf
<1> HIDE DEF F, x, g
<1>6. CASE t < B
  <2>1. g = 1 /\ x = x * g
    BY <1>2, <1>5, <1>6
  <2>2. Rounded(x, 1 * g) = x
    BY <1>2, <2>1, RoundedExact
  <2>3. QED BY <1>2, <1>4, <2>1, <2>2 DEF x, F
<1>7. CASE t >= B
  <2>1. t + 1 - B <= Fine
    <3> SUFFICES ASSUME t >= B + Fine PROVE FALSE
      BY <1>1, <1>5
    <3>1. /\ B + Fine \in 0..Wide /\ t \in 0..Wide
          /\ (B - 1) + Fine \in 0..Wide /\ B - 1 \in Nat
          /\ 1 + ((B - 1) + Fine) = B + Fine
      BY <1>1
    <3>2. Two[B + Fine] = Two[1] * Two[(B - 1) + Fine]
      BY <1>1, <3>1, TwoTimes
    <3>3. Two[(B - 1) + Fine] = Two[B - 1] * F
      BY <1>1, <3>1, TwoTimes DEF F
    <3>4. Two[1] = 2
      BY <1>1, PowersStep DEF Two
    <3>5. Two[B + Fine] <= Two[t]
      BY <3>1, TwoGrows
    <3>6. Two[t] \in Nat /\ Two[(B - 1) + Fine] \in Nat
      BY <3>1, TwoIsPositive
    <3>7. QED BY <1>2, <1>5, <3>2, <3>3, <3>4, <3>5, <3>6
  <2> DEFINE c == t + 1 - B
             h == Two[Fine - c]
  <2>2. c \in Nat /\ Fine - c \in 0..Wide /\ c + (Fine - c) = Fine /\ c \in 0..Wide
    BY <1>1, <1>7, <2>1
  <2>3. g = Two[c]
    BY <1>1, <1>5, <1>7
  <2>4. F = g * h
    BY <1>1, <2>2, <2>3, TwoTimes DEF F
  <2>5. g \in Nat \ {0} /\ h \in Nat \ {0}
    BY <2>2, <2>3, TwoIsPositive
  <2> HIDE DEF h, c
  <2>6. m * h \in Nat /\ x = (m * h) * g /\ 1 * g = g
    BY <2>4, <2>5 DEF x
  <2>7. Rounded(x, 1 * g) = m * h
    BY <2>5, <2>6, RoundedExact
  <2>8. QED BY <1>4, <2>5, <2>6, <2>7 DEF x, F
<1>8. QED BY <1>1, <1>5, <1>6, <1>7

\* The quotient of a mantissa m by T < 2^Fine is off by less than half a unit of
\* the last digit printed.  With fewer digits than a float has, the rounding is
\* that of the least multiple; with more, the floats are T * g apart when
\* counted in units, which is at most one unit as m has a digit to spare, and
\* the quotient is exact where it is one.
LEMMA QuotientClose ==
    ASSUME NEW m \in Nat, 1 <= m, m <= Two[FloatBits - 1], m * Two[Fine] < Two[Wide],
           NEW T \in Nat \ {0}, T < Two[Fine],
           NEW Q, Q = Float(m, T)
    PROVE  /\ Q \in Nat
           /\ 2 * (Q * T) - 2 * (m * Two[Fine]) < Two[Fine]
           /\ 2 * (m * Two[Fine]) - 2 * (Q * T) < Two[Fine]
<1> DEFINE F == Two[Fine]
           B == FloatBits
           P == Two[B - 1]
           y == m * F
           x == y \div T
           g == Spacing(x)
<1>1. /\ F \in Nat \ {0} /\ Wide \in Nat /\ B \in 1..Wide /\ P \in Nat \ {0}
      /\ Two[Wide] \in Nat
  BY TwoIsPositive, PayloadAssumption
<1>2. y \in Nat /\ F <= y /\ y <= P * F /\ y < Two[Wide]
  BY <1>1
<1> HIDE DEF y
<1>3. x \in Nat /\ T * x <= y /\ y < T * x + T
  BY <1>2, SMTT(30)
<1> HIDE DEF x
<1>4. 1 <= x /\ x < Two[Wide]
  <2>1. x # 0
    BY <1>1, <1>2, <1>3 DEF F
  <2>2. x <= T * x
    BY <1>3
  <2>3. T * x \in Nat
    BY <1>3
  <2>4. QED BY <1>1, <1>2, <1>3, <2>1, <2>2, <2>3
<1>5. Q = g * Rounded(y, T * g)
  BY DEF Float, x, y
<1>6. PICK t \in 0..(Wide - 1) :
          Two[t] <= x /\ x < Two[t + 1] /\ g = IF t < B THEN 1 ELSE Two[t + 1 - B]
  BY <1>3, <1>4, SpacingOf
<1> HIDE DEF g
<1>7. ASSUME g \in Nat \ {0}, T * g < F \/ T * g = F
      PROVE  Q \in Nat /\ 2 * (Q * T) - 2 * y < F /\ 2 * y - 2 * (Q * T) < F
  <2> DEFINE b == T * g
             R == Rounded(y, b)
  <2>1. b \in Nat \ {0}
    BY <1>7
  <2>2. R \in Nat /\ 2 * (b * R) - 2 * y <= b /\ 2 * y - 2 * (b * R) <= b
    BY <1>2, <2>1, RoundedNearest
  <2>3. Q = g * R
    BY <1>5
  <2> HIDE DEF R
  <2>4. Q \in Nat /\ Q * T = b * R
    BY <1>7, <2>2, <2>3
  <2>5. CASE b < F
    <3>1. b * R \in Nat
      BY <2>1, <2>2
    <3> HIDE DEF b
    <3>2. QED BY <1>1, <1>2, <2>1, <2>2, <2>4, <2>5, <3>1 DEF F
  <2>6. CASE b = F
    <3>1. y = m * b
      BY <2>6 DEF y
    <3>2. R = m
      BY <2>1, <3>1, RoundedExact DEF R
    <3>3. b * R = y
      BY <2>1, <3>1, <3>2
    <3>4. QED BY <1>1, <1>2, <2>4, <3>3 DEF F
  <2>7. QED BY <1>7, <2>5, <2>6
<1>8. CASE t < B
  <2>1. g = 1 /\ T * g = T
    BY <1>6, <1>8
  <2>2. QED BY <1>7, <2>1 DEF y, F
<1>9. CASE t >= B
  <2>1. /\ t + 1 - B \in Nat /\ B - 1 \in Nat /\ (t + 1 - B) + (B - 1) = t
        /\ t <= Wide /\ t + 1 - B \in 0..Wide
    BY <1>1, <1>6, <1>9
  <2>2. g = Two[t + 1 - B]
    BY <1>1, <1>6, <1>9
  <2>3. Two[t] = g * P
    BY <2>1, <2>2, TwoTimes
  <2>4. g \in Nat \ {0}
    BY <2>1, <2>2, TwoIsPositive
  <2>5. T * (g * P) <= T * x
    BY <1>1, <1>3, <1>6, <2>3, <2>4
  <2>6. T * (g * P) = P * (T * g) /\ P * (T * g) \in Nat /\ P * F \in Nat /\ T * x \in Nat
    BY <1>1, <1>3, <2>4
  <2>7. P * (T * g) <= P * F
    BY <1>2, <1>3, <2>5, <2>6
  <2>8. T * g <= F
    <3>1. T * g \in Nat
      BY <2>4
    <3> HIDE DEF P, F
    <3>2. ASSUME T * g >= F + 1 PROVE FALSE
      <4>1. P * (T * g) >= P * (F + 1)
        BY <1>1, <3>1, <3>2
      <4>2. P * (F + 1) = P * F + P
        BY <1>1
      <4>3. QED BY <1>1, <2>6, <2>7, <4>1, <4>2
    <3>3. QED BY <1>1, <3>1, <3>2
  <2>9. T * g < F \/ T * g = F
    BY <1>1, <2>4, <2>8
  <2>10. QED BY <1>7, <2>4, <2>9 DEF y, F
<1>10. QED BY <1>1, <1>6, <1>8, <1>9

\* A mantissa in reach is printed as it is.
LEMMA MantissaPrinted ==
    ASSUME NEW m \in Nat, m <= Two[FloatBits - 1], m * Two[Fine] < Two[Wide],
           NEW digits \in 0..Digits
    PROVE  PrintedDigits(m, digits) = m
<1> DEFINE F == Two[Fine]
           T == Ten[digits]
           Q == Quotient(m, digits)
<1>1. F \in Nat \ {0} /\ T \in Nat \ {0} /\ T < F
  BY TwoIsPositive, TenIsPositive, TenBelow, PayloadAssumption
<1>2. /\ Q \in Nat
      /\ 2 * (Q * T) - 2 * (F * m) < F
      /\ 2 * (F * m) - 2 * (Q * T) < F
  <2>1. CASE m = 0
    <3>1. Float(m, 1) = 0 /\ 0 \div F = 0
      BY <1>1, <2>1 DEF Float
    <3>2. Q = 0
      BY <3>1 DEF Quotient, Float
    <3>3. QED BY <1>1, <2>1, <3>2
  <2>2. CASE m # 0
    <3>1. Float(m, 1) = m * F
      BY <2>2, MantissaKept
    <3>2. (m * F) \div F = m
      BY <1>1, SMTT(30)
    <3>3. Q = Float(m, T)
      BY <3>1, <3>2 DEF Quotient
    <3>4. m * F = F * m
      BY <1>1
    <3> HIDE DEF Q
    <3>5. QED BY <1>1, <2>2, <3>3, <3>4, QuotientClose
  <2>3. QED BY <2>1, <2>2
<1>3. Q * T \in Nat
  BY <1>1, <1>2
<1>4. Rounded(Q * T, F) = m
  BY <1>1, <1>2, <1>3, DigitsSurvive
<1>5. QED BY <1>4 DEF PrintedDigits

---------------------------------------------------------------------------
(* What is printed at the end of a line *)

\* The message that ends a line of the screen is printed as README.md says it is
\* meant: every string, every INT that an int holds, and every real with a
\* mantissa of fewer digits than a float has, for any sizes of ints and floats.
THEOREM LinesAsMeant == Spec => []PrintedAsMeant
<1>1. /\ PublisherTypeOK /\ Carried /\ FramingInv /\ LastParsed /\ ShownInOrder
      => PrintedAsMeant
  <2> SUFFICES ASSUME PublisherTypeOK, Carried, FramingInv, LastParsed, ShownInOrder,
                      ~Confusable, NEW n \in DOMAIN screen,
                      NEW j, j = screen[n].item, j > 0, screen[n].ends,
                      NEW d, d = Datagram(relayed[j]),
                      Exact(d)
               PROVE  Decoded(d) = Meaning(d)
    BY DEF PrintedAsMeant
  <2>1. j \in 1..Len(parsed) /\ Whole(d)
    <3>1. /\ j \in (-typed)..Len(parsed)
          /\ screen[n].ends <=> j < 0 \/ Whole(Datagram(relayed[j]))
      BY DEF ShownInOrder, EndsWhole
    <3>2. typed \in Nat /\ Len(parsed) \in Nat
      BY DEF FramingInv, Counts
    <3>3. QED BY <3>1, <3>2
  <2>2. sent[relayed[j]] \in DOMAIN args.input_file /\ args \in CommandLines
    <3>1. j \in DOMAIN relayed
      BY <2>1, OnlyRelayedShown
    <3>2. relayed[j] \in DOMAIN sent
      BY <3>1 DEF Carried
    <3>3. QED BY <3>2 DEF PublisherTypeOK
  <2>3. CASE d.type = "INT"
    <3>1. d.sign \in BOOLEAN /\ d.value \in 0..(2 * Half - 1)
      BY <2>2, <2>3, PipelineAssumption DEF Datagram, input_file
    <3>2. d.value < Half \/ (d.sign /\ d.value = Half)
      BY <2>3 DEF Exact
    <3>3. PrintedInt(d.sign, d.value) = MeantInt(d.sign, d.value)
      BY <3>1, <3>2, IntPrintedAsMeant
    <3>4. QED BY <2>3, <3>3 DEF Decoded, Meaning
  <2>4. CASE d.type \in {"SHORT_REAL", "FLOAT"}
    <3>1. /\ d.value \in Nat /\ d.value * Two[Fine] < Two[Wide]
          /\ d.exponent \in 0..Digits
      BY <2>2, <2>4, PipelineAssumption DEF Datagram, input_file
    <3>2. d.value <= Two[FloatBits - 1]
      BY <2>4 DEF Exact
    <3>3. 2 \in 0..Digits
      BY PayloadAssumption
    <3>4. PrintedDigits(d.value, 2) = d.value /\ PrintedDigits(d.value, d.exponent) = d.value
      BY <3>1, <3>2, <3>3, MantissaPrinted
    <3>5. QED BY <2>4, <3>4 DEF Decoded, Meaning
  <2>5. CASE d.type = "STRING"
    BY <2>5 DEF Decoded, Meaning
  <2>6. QED BY <2>1, <2>3, <2>4, <2>5 DEF Whole, Types
<1>2. FramingInv /\ UnitPerMessage /\ Carried => LastParsed
  BY ParsedIsRelayed
<1>3. QED
  BY <1>1, <1>2, PublisherUnaffected, PublisherTypeCorrect, CarriedHolds, InStepWithStream,
     RelayedInStep, ScreenInOrder, PTL
=============================================================================
