--------------------------- MODULE DeliveryProofs ---------------------------
(***************************************************************************)
(* The server keeps the promise of Delivery, and each client is sent a     *)
(* message at most once and in order, for every value of the constants.    *)
(***************************************************************************)
EXTENDS BrokerDelivery, RegistryProofs, QueueProofs

\* The groups of variables that steps leave unchanged.
USE DEF registry, tables, queues, sockets, datagrams, kept

Serving == status = "running" /\ ~mixup

\* A session that has not begun was given nothing.
Fresh == \A s \in Sessions : link[s] = "none" => got[s] = <<>> /\ outbox[s] = <<>>

\* All that the steps of Delivery depend on.
DeliveryInv ==
    /\ TypeOK /\ PollInv /\ RegistryInv
    /\ QueueInv /\ SubscriptionsInv /\ Fresh

\* A step that is one of Delivery's, or none.
Promised == Promise!Next \/ UNCHANGED Promise!deliveryVars

---------------------------------------------------------------------------
(* Where clients are served *)

\* A connected client is served at a session of its own.
LEMMA ServedType ==
    ASSUME DeliveryInv, Serving
    PROVE  /\ \A i \in Connected :
                 /\ i \in Ids /\ fd[i] \in Fds
                 /\ ServedAt[i] = peer[fd[i]] /\ ServedAt[i] \in Sessions
                 /\ owner[ServedAt[i]] = i
           /\ \A i \in Ids : i \notin Connected => ServedAt[i] = 0
           /\ 0 \notin Sessions
           /\ ServedAt \in [Ids -> Sessions \cup {0}]
<1>1. Connected \subseteq Ids
  BY DEF DeliveryInv, TypeOK, Connected
<1>2. \A i \in Connected :
        fd[i] \in Fds /\ peer[fd[i]] \in Sessions /\ owner[peer[fd[i]]] = i
  BY DEF DeliveryInv, RegistryInv, Held, Serving
<1>3. 0 \notin Sessions
  BY SubscribersAssumption DEF Sessions
<1>4. QED BY <1>1, <1>2, <1>3 DEF ServedAt

\* Clients that stay connected where they were are served where they were.
LEMMA ServedElsewhere ==
    ASSUME DeliveryInv, Serving, NEW f, Connected' = Connected, fd' = fd,
           \A g \in Fds : g # f => peer'[g] = peer[g],
           \A i \in Connected : fd[i] # f
    PROVE  ServedAt' = ServedAt
<1>1. \A i \in Connected : peer'[fd[i]] = peer[fd[i]]
  BY ServedType
<1>2. ServedAt' = [i \in Ids |-> IF i \in Connected THEN peer'[fd[i]] ELSE 0]
  BY DEF ServedAt
<1>3. QED BY <1>1, <1>2 DEF ServedAt

---------------------------------------------------------------------------
(* Sessions *)

\* Sequences of data are put together from the left or from the right.
LEMMA ConcatShifts ==
    ASSUME NEW p \in Seq(Nat), NEW q \in Seq(Nat), NEW r \in Seq(Nat)
    PROVE  (p \o q) \o r = p \o (q \o r)
<1>1. PICK N : N = Nat
  OBVIOUS
<1>2. p \in Seq(N) /\ q \in Seq(N) /\ r \in Seq(N)
  BY <1>1
<1>3. QED BY <1>2, ConcatAssociative

\* What is read was given before.
LEMMA ReadKeepsGiven ==
    ASSUME TypeOK, NEW s \in Sessions, ReadMessage(s)
    PROVE  Given' = Given
<1> DEFINE m == Head(outbox[s])
<1>1. /\ got[s] \in Seq(Nat) /\ outbox[s] \in Seq(Nat) /\ outbox[s] # <<>>
      /\ got'[s] = Append(got[s], m) /\ outbox'[s] = Tail(outbox[s])
      /\ \A t \in Sessions : t # s => got'[t] = got[t] /\ outbox'[t] = outbox[t]
  BY DEF TypeOK, SubscriberTypeOK, ReadMessage
<1>2. m \in Nat /\ Tail(outbox[s]) \in Seq(Nat) /\ outbox[s] = <<m>> \o Tail(outbox[s])
  BY <1>1, HeadTailProperties
<1> HIDE DEF m
<1>3. Append(got[s], m) = got[s] \o <<m>> /\ <<m>> \in Seq(Nat)
  <2>1. Append(got[s], m) = got[s] \o <<m>>
    BY <1>1, <1>2, AppendIsConcat
  <2>2. QED BY <1>2, <2>1
<1>4. (got[s] \o <<m>>) \o Tail(outbox[s]) = got[s] \o (<<m>> \o Tail(outbox[s]))
  <2>1. got[s] \in Seq(Nat) /\ <<m>> \in Seq(Nat) /\ Tail(outbox[s]) \in Seq(Nat)
    BY <1>1, <1>2, <1>3
  <2>2. QED BY <2>1, ConcatShifts
<1>5. Stream(s)' = Stream(s)
  <2>1. Stream(s)' = Append(got[s], m) \o Tail(outbox[s])
    BY <1>1 DEF Stream
  <2>2. Append(got[s], m) \o Tail(outbox[s]) = (got[s] \o <<m>>) \o Tail(outbox[s])
    BY <1>3
  <2>3. got[s] \o (<<m>> \o Tail(outbox[s])) = got[s] \o outbox[s]
    BY <1>2
  <2>4. QED BY <1>4, <2>1, <2>2, <2>3 DEF Stream
<1>6. \A t \in Sessions : Stream(t)' = Stream(t)
  BY <1>1, <1>5 DEF Stream
<1>7. QED BY <1>6 DEF Given

\* The first part of a concatenation.
LEMMA ConcatFront ==
    ASSUME NEW S, NEW p \in Seq(S), NEW q \in Seq(S)
    PROVE  p = SubSeq(p \o q, 1, Len(p)) /\ Len(p) \in 0..Len(p \o q)
<1>1. Len(p) \in Nat /\ Len(q) \in Nat
  OBVIOUS
<1>2. SubSeq(p \o q, 1, Len(p)) = SubSeq(p, 1, Len(p))
  BY <1>1, SubSeqOfConcat1
<1>3. SubSeq(p, 1, Len(p)) = p
  BY SubSeqFull
<1>4. Len(p \o q) = Len(p) + Len(q)
  BY ConcatProperties
<1>5. QED BY <1>1, <1>2, <1>3, <1>4

LEMMA HangupEnds ==
    ASSUME TypeOK, NEW s \in Sessions, link[s] \in Alive, Hangup(s), UNCHANGED serverVars
    PROVE  Promise!End(s)
<1>1. /\ link'[s] \notin Alive
      /\ outbox'[s] = <<>> /\ got' = got
      /\ \A t \in Sessions : t # s => link'[t] = link[t] /\ outbox'[t] = outbox[t]
  BY DEF TypeOK, SubscriberTypeOK, Hangup, HungUp, Alive
<1>2. Running' = Running \ {s} /\ s \in Running
  BY <1>1 DEF Running
<1>3. got[s] \in Seq(Nat) /\ outbox[s] \in Seq(Nat)
  BY DEF TypeOK, SubscriberTypeOK
<1>4. Given'[s] = got[s]
  BY <1>1, <1>3, ConcatEmptySeq DEF Given, Stream
<1>5. got[s] = SubSeq(Given[s], 1, Len(got[s])) /\ Len(got[s]) \in 0..Len(Given[s])
  <2>1. Given[s] = got[s] \o outbox[s]
    BY DEF Given, Stream
  <2>2. QED BY <1>3, <2>1, ConcatFront
<1>6. Given' = [Given EXCEPT ![s] = SubSeq(@, 1, Len(got[s]))]
  <2>1. \A t \in Sessions : t # s => Stream(t)' = Stream(t)
    BY <1>1 DEF Stream
  <2>2. QED BY <1>4, <1>5, <2>1 DEF Given
<1>7. ServedAt' = ServedAt
  BY DEF ServedAt, Connected, serverVars
<1>8. QED BY <1>2, <1>5, <1>6, <1>7 DEF Promise!End, serverVars

LEMMA SessionPromised ==
    ASSUME TypeOK, NEW s \in Sessions, SubscriberStep(s), UNCHANGED serverVars
    PROVE  Promised
<1>1. ASSUME Given' = Given, Running' = Running PROVE Promised
  <2>1. ServedAt' = ServedAt
    BY DEF ServedAt, Connected, serverVars
  <2>2. QED BY <1>1, <2>1 DEF Promised, Promise!deliveryVars, serverVars
<1>2. ASSUME UNCHANGED <<got, outbox>> PROVE Given' = Given
  BY <1>2 DEF Given, Stream
<1>3. ASSUME NEW lk, link' = [link EXCEPT ![s] = lk], lk \in Alive <=> link[s] \in Alive
      PROVE  Running' = Running
  <2>1. \A t \in Sessions : link'[t] \in Alive <=> link[t] \in Alive
    BY <1>3 DEF TypeOK, SubscriberTypeOK
  <2>2. QED BY <2>1 DEF Running
<1>4. ASSUME link' = link PROVE Running' = Running
  BY <1>4 DEF Running
<1>5. CASE SendConnect(s)
  BY <1>1, <1>2, <1>3, <1>5 DEF SendConnect, Alive
<1>6. ASSUME NEW r \in Menu, Command(s, r) PROVE Promised
  BY <1>1, <1>2, <1>4, <1>6 DEF Command
<1>7. CASE Receive(s)
  BY <1>1, <1>4, <1>7, ReadKeepsGiven DEF Receive
<1>8. CASE TypeExit(s)
  BY <1>1, <1>2, <1>3, <1>8, ReadKeepsGiven DEF TypeExit, Alive
<1>9. CASE Close(s) \/ Kill(s) \/ SeeEnd(s)
  <2>1. link[s] \in Alive /\ Hangup(s)
    BY <1>9 DEF Close, Kill, SeeEnd, Alive
  <2>2. QED BY <2>1, HangupEnds DEF Promised, Promise!Next
<1>10. CASE RstArrives(s)
  BY <1>1, <1>2, <1>3, <1>10 DEF RstArrives, Alive
<1>11. QED BY <1>5, <1>6, <1>7, <1>8, <1>9, <1>10 DEF SubscriberStep

LEMMA StartPromised ==
    ASSUME DeliveryInv, NEW s \in Sessions, NEW i \in Ids, Start(s, i), UNCHANGED serverVars
    PROVE  Promised
<1>1. /\ link[s] = "none" /\ link'[s] = "connecting" /\ UNCHANGED <<got, outbox>>
      /\ \A t \in Sessions : t # s => link'[t] = link[t]
  BY DEF DeliveryInv, TypeOK, SubscriberTypeOK, Start
<1>2. s \notin Running /\ Running' = Running \cup {s}
  BY <1>1 DEF Running, Alive
<1>3. Given' = Given /\ Given[s] = <<>>
  BY <1>1, ConcatEmptySeq DEF DeliveryInv, Fresh, Given, Stream
<1>4. ServedAt' = ServedAt
  BY DEF ServedAt, Connected, serverVars
<1>5. Promise!Begin(s)
  BY <1>2, <1>3, <1>4 DEF Promise!Begin, serverVars
<1>6. QED BY <1>5 DEF Promised, Promise!Next

---------------------------------------------------------------------------
(* The server *)

\* What is written to a connection is given if the process runs.
LEMMA GivenAfterWrite ==
    ASSUME TypeOK, NEW q \in [Sessions -> Seq(Nat)], outbox' = Delivered(q), got' = got
    PROVE  \A s \in Sessions :
              Given'[s] = IF s \in Running THEN Given[s] \o q[s] ELSE Given[s]
<1> SUFFICES ASSUME NEW s \in Sessions
             PROVE  Given'[s] = IF s \in Running THEN Given[s] \o q[s] ELSE Given[s]
  OBVIOUS
<1>1. got[s] \in Seq(Nat) /\ outbox[s] \in Seq(Nat) /\ q[s] \in Seq(Nat)
  BY DEF TypeOK, SubscriberTypeOK
<1>2. got[s] \o (outbox[s] \o q[s]) = (got[s] \o outbox[s]) \o q[s]
  BY <1>1, ConcatShifts
<1>3. outbox'[s] = IF link[s] \in Alive THEN outbox[s] \o q[s] ELSE outbox[s]
  BY DEF Delivered
<1>4. Given'[s] = got[s] \o outbox'[s] /\ Given[s] = got[s] \o outbox[s]
  BY DEF Given, Stream
<1>5. QED BY <1>2, <1>3, <1>4 DEF Running

LEMMA WrittenGiven ==
    ASSUME TypeOK, NEW q \in [Sessions -> Seq(Nat)], outbox' = Delivered(q), link' = Struck(q),
           got' = got
    PROVE  /\ Running' = Running
           /\ \A s \in Sessions :
                 Given'[s] = IF s \in Running THEN Given[s] \o q[s] ELSE Given[s]
<1>1. \A s \in Sessions : link'[s] \in Alive <=> link[s] \in Alive
  BY DEF Struck, Alive
<1>2. QED BY <1>1, GivenAfterWrite DEF Running

\* At most one copy goes to a session, as it serves at most one client.
LEMMA OneCopy ==
    ASSUME DeliveryInv, Serving, NEW S, S \subseteq Connected, NEW m, NEW s \in Sessions
    PROVE  Copies(S, m)[s] = IF \E i \in S : ServedAt[i] = s THEN <<m>> ELSE <<>>
<1> DEFINE T == {i \in S : peer[fd[i]] = s}
<1>1. Copies(S, m)[s] = [n \in 1..Cardinality(T) |-> m]
  BY DEF Copies
<1>2. T = {i \in S : ServedAt[i] = s} /\ \A i \in T : i = owner[s]
  BY ServedType
<1>3. CASE T = {}
  <2>1. Cardinality(T) = 0
    BY <1>3, FS_EmptySet
  <2>2. Copies(S, m)[s] = <<>>
    <3>1. Copies(S, m)[s] = [n \in 1..0 |-> m]
      BY <1>1, <2>1, Zenon
    <3>2. QED BY <3>1
  <2>3. QED BY <1>2, <1>3, <2>2
<1>4. CASE T # {}
  <2>1. T = {owner[s]}
    BY <1>2, <1>4
  <2>2. Cardinality(T) = 1
    BY <2>1, FS_Singleton
  <2> HIDE DEF T
  <2>3. Copies(S, m)[s] = <<m>>
    BY <1>1, <2>2
  <2>4. QED BY <1>2, <1>4, <2>3
<1>5. QED BY <1>3, <1>4

LEMMA DistributePromised ==
    ASSUME DeliveryInv, Serving, NEW k \in DOMAIN poll_set, Distribute(k)
    PROVE  Promised
<1> DEFINE t == Head(udp)
           m == Len(published) + 1
<1>1. /\ t \in Topics /\ m \in Nat
      /\ published' = Append(published, t)
      /\ outbox' = Delivered(Copies(Live(t), m)) /\ link' = Struck(Copies(Live(t), m))
      /\ lost_messages' = [i \in Ids |-> Queue(i, t, m)]
      /\ UNCHANGED <<got, status, mixup, topics, clients, fd, connected, peer>>
  <2>1. udp \in Seq(Topics) /\ udp # <<>>
    BY DEF DeliveryInv, TypeOK, Distribute, ReceiveDatagram
  <2>2. t \in Topics
    BY <2>1, HeadTailProperties
  <2>3. QED BY <2>2 DEF DeliveryInv, TypeOK, Distribute, ReceiveDatagram, GoOn
<1> HIDE DEF t, m
<1>2. \A i \in Ids, p \in Patterns :
        /\ i \in subscriptions[p] <=> topics[i][p] # "none"
        /\ topics[i][p] # "none" => i \in clients
  BY DEF DeliveryInv, SubscriptionsInv
<1>3. \A i \in Ids, p \in Patterns :
        p \in Routes(i, t) <=> <<t, p>> \in Matches /\ topics[i][p] # "none"
  BY <1>2 DEF Routes
<1>4. Live(t) \subseteq Connected
      /\ \A i \in Ids : i \in Live(t) <=> i \in Connected /\ Promise!Wanted(i, t)
  <2>1. \A i \in Ids : Routes(i, t) # {} <=> Promise!Wanted(i, t)
    BY <1>3 DEF Promise!Wanted, Routes
  <2>2. clients \subseteq Ids
    BY DEF DeliveryInv, TypeOK
  <2>3. QED BY <2>1, <2>2 DEF Live, Connected
<1>5. \A i \in Ids : i \in Stored(t) <=> i \notin Connected /\ Promise!WantedLater(i, t)
  <2>1. \A i \in Ids :
          (\E p \in Routes(i, t) : topics[i][p] = "sf") <=> Promise!WantedLater(i, t)
    BY <1>3 DEF Promise!WantedLater, Routes
  <2>2. \A i \in Ids : Promise!WantedLater(i, t) => i \in clients
    BY <1>2 DEF Promise!WantedLater
  <2>3. QED BY <2>1, <2>2 DEF Stored, Connected
<1>6. /\ \A i \in Ids : ServedAt[i] = 0 <=> i \notin Connected
      /\ \A i \in Ids, s \in Sessions : ServedAt[i] = s => i \in Connected
  BY ServedType
<1>7. /\ Copies(Live(t), m) \in [Sessions -> Seq(Nat)]
      /\ \A s \in Sessions :
            Copies(Live(t), m)[s] =
              IF \E i \in Ids : ServedAt[i] = s /\ Promise!Wanted(i, t) THEN <<m>> ELSE <<>>
  <2>1. Live(t) \subseteq Ids
    BY <1>4 DEF DeliveryInv, TypeOK, Connected
  <2>2. \A s \in Sessions :
          (\E i \in Live(t) : ServedAt[i] = s)
            <=> (\E i \in Ids : ServedAt[i] = s /\ Promise!Wanted(i, t))
    BY <1>4, <1>6, <2>1
  <2>3. Copies(Live(t), m) \in [Sessions -> Seq(Nat)]
    BY <1>1, <2>1, CopiesType
  <2>4. \A s \in Sessions :
          Copies(Live(t), m)[s] = IF \E i \in Live(t) : ServedAt[i] = s THEN <<m>> ELSE <<>>
    BY <1>4, OneCopy
  <2>5. QED BY <2>2, <2>3, <2>4
<1>8. /\ Running' = Running
      /\ \A s \in Sessions :
            Given'[s] = IF s \in Running THEN Given[s] \o Copies(Live(t), m)[s] ELSE Given[s]
  BY <1>1, <1>7, WrittenGiven DEF DeliveryInv
<1>9. Given' = [s \in Sessions |->
                  IF s \in Running /\ \E i \in Ids : ServedAt[i] = s /\ Promise!Wanted(i, t)
                    THEN Append(Given[s], m) ELSE Given[s]]
  <2>1. ASSUME NEW s \in Sessions
        PROVE  Given[s] \o <<m>> = Append(Given[s], m) /\ Given[s] \o <<>> = Given[s]
    <3>1. got[s] \in Seq(Nat) /\ outbox[s] \in Seq(Nat) /\ Given[s] = got[s] \o outbox[s]
      BY DEF DeliveryInv, TypeOK, SubscriberTypeOK, Given, Stream
    <3>2. Given[s] \in Seq(Nat)
      BY <3>1, ConcatProperties
    <3>3. QED BY <1>1, <3>2, AppendIsConcat, ConcatEmptySeq
  <2>2. \A s \in Sessions :
          Given'[s] = IF s \in Running /\ \E i \in Ids : ServedAt[i] = s /\ Promise!Wanted(i, t)
                        THEN Append(Given[s], m) ELSE Given[s]
    BY <1>7, <1>8, <2>1
  <2>3. Given' = [s \in Sessions |-> Given'[s]]
    BY DEF Given
  <2>4. QED BY <2>2, <2>3
<1>10. lost_messages' = [i \in Ids |->
                          IF ServedAt[i] = 0 /\ Promise!WantedLater(i, t)
                            THEN Append(lost_messages[i], m) ELSE lost_messages[i]]
  BY <1>1, <1>5, <1>6 DEF Queue
<1>11. ServedAt' = ServedAt
  BY <1>1 DEF ServedAt, Connected
<1>12. Promise!Accept(t)
  BY <1>1, <1>8, <1>9, <1>10, <1>11 DEF Promise!Accept, m
<1>13. QED BY <1>1, <1>12 DEF Promised, Promise!Next

\* Session s is given what was stored for client i.
HandedOver(i, s) ==
    /\ lost_messages' = [lost_messages EXCEPT ![i] = <<>>]
    /\ Running' = Running
    /\ Given' = IF s \in Running THEN [Given EXCEPT ![s] = @ \o lost_messages[i]] ELSE Given

\* The session that joins is given what was stored for its client, which is
\* nothing at the first connection.
LEMMA JoinGiven ==
    ASSUME DeliveryInv, NEW k, NEW f \in Fds, NEW i \in Ids,
           Register(k, f, i) \/ Reconnect(k, f, i)
    PROVE  \E s \in Sessions : peer[f] = s /\ owner[s] = i /\ HandedOver(i, s)
<1>p. PICK s \in Sessions : peer[f] = s /\ owner[s] = i
  BY DEF DeliveryInv, TypeOK, Register, Reconnect, Request
<1>g. got' = got
  BY DEF Register, Reconnect
<1> SUFFICES HandedOver(i, s)
  BY <1>p
<1> USE DEF HandedOver
<1>1. ASSUME NEW t \in Sessions
      PROVE  Given[t] \in Seq(Nat) /\ Given[t] \o <<>> = Given[t]
  <2>1. got[t] \in Seq(Nat) /\ outbox[t] \in Seq(Nat) /\ Given[t] = got[t] \o outbox[t]
    BY DEF DeliveryInv, TypeOK, SubscriberTypeOK, Given, Stream
  <2>2. Given[t] \in Seq(Nat)
    BY <2>1, ConcatProperties
  <2>3. QED BY <2>2, ConcatEmptySeq
<1>2. CASE Register(k, f, i)
  <2>1. /\ UNCHANGED <<lost_messages, outbox, link>>
        /\ lost_messages[i] = <<>> /\ lost_messages \in [Ids -> Seq(Nat)]
    BY <1>2 DEF Register, DeliveryInv, QueueInv, AwayOnly, TypeOK
  <2>2. Given' = Given /\ Running' = Running
    BY <1>g, <2>1 DEF Given, Stream, Running
  <2>3. Given = [Given EXCEPT ![s] = Given[s] \o lost_messages[i]]
    <3>1. Given[s] \o lost_messages[i] = Given[s]
      BY <1>1, <2>1
    <3>2. QED BY <3>1 DEF Given
  <2>4. QED BY <2>1, <2>2, <2>3
<1>3. CASE Reconnect(k, f, i)
  <2> DEFINE q == [Nothing EXCEPT ![s] = lost_messages[i]]
  <2>1. outbox' = Delivered(q) /\ link' = Struck(q)
    BY <1>p, <1>3 DEF Reconnect, Flushed
  <2>2. /\ q \in [Sessions -> Seq(Nat)]
        /\ \A t \in Sessions : q[t] = IF t = s THEN lost_messages[i] ELSE <<>>
    <3>1. lost_messages[i] \in Seq(Nat)
      BY DEF DeliveryInv, TypeOK
    <3>2. q \in [Sessions -> Seq(Nat)]
      BY <3>1, NothingType, UpdateType
    <3>3. QED BY <3>2 DEF Nothing
  <2> HIDE DEF q
  <2>3. /\ Running' = Running
        /\ \A t \in Sessions :
              Given'[t] = IF t \in Running THEN Given[t] \o q[t] ELSE Given[t]
    BY <1>g, <2>1, <2>2, WrittenGiven DEF DeliveryInv
  <2>4. \A t \in Sessions :
          Given'[t] = IF t = s /\ s \in Running THEN Given[s] \o lost_messages[i] ELSE Given[t]
    BY <1>1, <2>2, <2>3
  <2>5. /\ Given' = [t \in Sessions |-> Given'[t]]
        /\ Given = [t \in Sessions |-> Given[t]]
    BY DEF Given
  <2>6. lost_messages' = [lost_messages EXCEPT ![i] = <<>>]
    BY <1>3 DEF Reconnect
  <2>7. CASE s \in Running
    BY <2>3, <2>4, <2>5, <2>6, <2>7
  <2>8. CASE s \notin Running
    BY <2>3, <2>4, <2>5, <2>6, <2>8
  <2>9. QED BY <2>7, <2>8
<1>4. QED BY <1>2, <1>3

\* A client whose CONNECT is handled joins where it is not served yet.
LEMMA JoinPromised ==
    ASSUME DeliveryInv, Serving, NEW k \in DOMAIN poll_set, NEW f \in Fds, NEW i \in Ids,
           Register(k, f, i) \/ Reconnect(k, f, i)
    PROVE  Promised
<1>1. PICK s \in Sessions : peer[f] = s /\ owner[s] = i /\ HandedOver(i, s)
  BY JoinGiven
<1>2. /\ i \notin Connected
      /\ UNCHANGED <<status, mixup, published, topics, peer, got>>
      /\ fd' = [fd EXCEPT ![i] = f]
      /\ connected' = [connected EXCEPT ![i] = TRUE]
      /\ clients' = clients \cup {i}
  BY DEF Register, Reconnect, Away, Connected
<1>3. /\ Connected' = Connected \cup {i}
      /\ \A j \in Ids : fd'[j] = IF j = i THEN f ELSE fd[j]
  BY <1>2 DEF DeliveryInv, TypeOK, Connected
<1>4. /\ ServedAt[i] = 0
      /\ \A j \in Ids : ServedAt[j] # s
      /\ ServedAt \in [Ids -> Sessions \cup {0}]
  BY <1>1, <1>2, ServedType
<1>5. ServedAt' = [ServedAt EXCEPT ![i] = s]
  <2>1. ServedAt' = [j \in Ids |-> IF j \in Connected \cup {i} THEN peer[fd'[j]] ELSE 0]
    BY <1>2, <1>3 DEF ServedAt
  <2>2. \A j \in Ids : ServedAt'[j] = IF j = i THEN s ELSE ServedAt[j]
    BY <1>1, <1>3, <2>1 DEF ServedAt
  <2>3. ServedAt' = [j \in Ids |-> ServedAt'[j]]
    BY <2>1
  <2>4. QED BY <1>4, <2>2, <2>3
<1>6. Promise!Join(i, s)
  BY <1>1, <1>2, <1>4, <1>5 DEF Promise!Join, HandedOver
<1>7. QED BY <1>6 DEF Promised, Promise!Next

\* A request after CONNECT comes from a session at which its client is served.
LEMMA RequestServed ==
    ASSUME DeliveryInv, Serving, NEW k, NEW f \in Fds, NEW i \in Ids,
           NEW type, type # "MESSAGE", Request(k, f, i, type)
    PROVE  i \in Connected /\ fd[i] = f
<1>1. PICK s \in Sessions : peer[f] = s /\ owner[s] = i
  BY DEF DeliveryInv, TypeOK, Request
<1>2. /\ inbox[s] \in Seq(Requests) /\ inbox[s] # <<>>
      /\ Head(inbox[s]).type = type
      /\ \A j \in 1..Len(inbox[s]) : inbox[s][j].type = "MESSAGE" => j = 1
  BY <1>1 DEF DeliveryInv, TypeOK, SubscriberTypeOK, Request, RegistryInv, ConnectFirst
<1>3. inbox[s][1].type = type
  BY <1>2, EmptySeq
<1>4. Entered(s)
  BY <1>2, <1>3 DEF Entered, NoConnect
<1>5. QED BY <1>1, <1>4 DEF DeliveryInv, RegistryInv, AllHeld, Serving

LEMMA WantPromised ==
    ASSUME DeliveryInv, Serving, NEW k \in DOMAIN poll_set, NEW f \in Fds, NEW i \in Ids,
           HandleSubscribe(k, f, i) \/ HandleUnsubscribe(k, f, i)
    PROVE  Promised
<1> DEFINE p == Head(inbox[peer[f]]).topic
<1>1. PICK type \in {"SUBSCRIBE", "UNSUBSCRIBE"} : Request(k, f, i, type)
  BY DEF HandleSubscribe, HandleUnsubscribe
<1>2. i \in Connected
  BY <1>1, RequestServed
<1>3. p \in Patterns
  BY <1>1, CommandType DEF DeliveryInv
<1>4. /\ UNCHANGED <<status, mixup, published, clients, fd, connected, peer, lost_messages>>
      /\ UNCHANGED <<got, outbox, link>>
  BY DEF HandleSubscribe, HandleUnsubscribe, GoOn
<1>5. \E w \in {"none", "live", "sf"} : topics' = [topics EXCEPT ![i][p] = w]
  BY <1>2 DEF HandleSubscribe, HandleUnsubscribe, Connected
<1> HIDE DEF p
<1>6. ServedAt' = ServedAt /\ Given' = Given /\ Running' = Running
  BY <1>4 DEF ServedAt, Connected, Given, Stream, Running
<1>7. ServedAt[i] # 0
  BY <1>2, ServedType
<1>8. \E w \in {"none", "live", "sf"} : Promise!Want(i, p, w)
  BY <1>4, <1>5, <1>6, <1>7 DEF Promise!Want
<1>9. QED BY <1>3, <1>8 DEF Promised, Promise!Next

---------------------------------------------------------------------------
(* Connections that are closed *)

\* The process at the other end goes on until it sees the end.
LEMMA ClosedRunning ==
    ASSUME TypeOK, NEW f, CloseConnection(f)
    PROVE  Running' = Running
<1>1. \A s \in Sessions : link'[s] \in Alive <=> link[s] \in Alive
  BY DEF TypeOK, SubscriberTypeOK, CloseConnection, ServerClosed, Alive, LinkStates
<1>2. QED BY <1>1 DEF Running

\* f is closed and client i, or nobody, was served there.
LEMMA ClosingPromised ==
    ASSUME DeliveryInv, Serving, NEW f \in Fds, CloseConnection(f), NEW gone,
           \A i, j \in gone : i = j,
           UNCHANGED <<status, mixup, published, topics, lost_messages, got, outbox, fd>>,
           Connected' = Connected \ gone, \A i \in Connected \ gone : fd[i] # f
    PROVE  Promised
<1>1. Running' = Running /\ Given' = Given
  BY ClosedRunning DEF DeliveryInv, Given, Stream
<1>2. \A g \in Fds : g # f => peer'[g] = peer[g]
  BY DEF DeliveryInv, TypeOK, CloseConnection
<1>3. CASE Connected \cap gone = {}
  <2>1. Connected' = Connected /\ \A i \in Connected : fd[i] # f
    BY <1>3
  <2>2. ServedAt' = ServedAt
    BY <1>2, <2>1, ServedElsewhere
  <2>3. QED BY <1>1, <2>2 DEF Promised, Promise!deliveryVars
<1>4. ASSUME NEW i \in Connected \cap gone PROVE Promised
  <2>1. Connected' = Connected \ {i}
    BY <1>4
  <2>2. \A j \in Connected : j \in Ids /\ fd[j] \in Fds
    BY ServedType
  <2>3. \A j \in Connected \ {i} : peer'[fd[j]] = peer[fd[j]]
    BY <1>2, <1>4, <2>2
  <2>4. ServedAt' = [j \in Ids |-> IF j \in Connected \ {i} THEN peer'[fd[j]] ELSE 0]
    BY <2>1 DEF ServedAt
  <2>5. ServedAt' = [ServedAt EXCEPT ![i] = 0]
    BY <2>2, <2>3, <2>4 DEF ServedAt
  <2>6. ServedAt[i] # 0
    BY <1>4, ServedType
  <2>7. Promise!Leave(i)
    BY <1>1, <2>5, <2>6 DEF Promise!Leave
  <2>8. QED BY <2>2, <2>7 DEF Promised, Promise!Next
<1>5. QED BY <1>3, <1>4

LEMMA ExitPromised ==
    ASSUME DeliveryInv, Serving, NEW k, NEW f \in Fds, NEW i \in Ids, HandleExit(k, f, i)
    PROVE  Promised
<1> DEFINE gone == {i}
<1>1. i \in Connected /\ fd[i] = f
  BY RequestServed DEF HandleExit
<1>2. Connected' = Connected \ gone /\ \A j, h \in gone : j = h
  BY DEF DeliveryInv, TypeOK, HandleExit, Connected
<1>3. \A j \in Connected \ gone : fd[j] # f
  BY <1>1, ServedType
<1> HIDE DEF gone
<1>4. /\ CloseConnection(f)
      /\ UNCHANGED <<status, mixup, published, topics, lost_messages, got, outbox, fd>>
  BY DEF HandleExit
<1>5. QED BY <1>2, <1>3, <1>4, ClosingPromised

\* The connection refused is not that of a client that is served.
LEMMA RejectPromised ==
    ASSUME DeliveryInv, Serving, NEW k, NEW f \in Fds, NEW i \in Ids, Reject(k, f, i)
    PROVE  Promised
<1>1. PICK s \in Sessions : peer[f] = s /\ owner[s] = i
  BY DEF DeliveryInv, TypeOK, Reject, Request
<1>2. ~Past(s)
  <2>1. /\ inbox[s] \in Seq(Requests) /\ inbox[s] # <<>>
        /\ Head(inbox[s]).type = "MESSAGE"
    BY <1>1 DEF DeliveryInv, TypeOK, SubscriberTypeOK, Reject, Request
  <2>2. 1 \in 1..Len(inbox[s]) /\ inbox[s][1].type = "MESSAGE"
    BY <2>1, EmptySeq
  <2>3. QED BY <2>2 DEF Past, NoConnect
<1> DEFINE gone == {}
<1>3. \A j \in Connected \ gone : fd[j] # f
  BY <1>1, <1>2 DEF DeliveryInv, RegistryInv, Held, Serving
<1>4. /\ CloseConnection(f)
      /\ Connected' = Connected \ gone /\ \A j, h \in gone : j = h
      /\ UNCHANGED <<status, mixup, published, topics, lost_messages, got, outbox, fd>>
  BY DEF Reject, Connected
<1> HIDE DEF gone
<1>5. QED BY <1>3, <1>4, ClosingPromised

LEMMA DisconnectPromised ==
    ASSUME DeliveryInv, Serving, NEW k, NEW f \in Fds, Disconnect(k, f), Serving'
    PROVE  Promised
<1>1. /\ CloseConnection(f)
      /\ UNCHANGED <<status, mixup, published, topics, lost_messages, got, outbox, fd>>
      /\ ~Mischarged(f)
  <2>1. mixup' = (mixup \/ Mischarged(f)) /\ ~mixup /\ ~mixup'
    BY DEF Disconnect, Serving
  <2>2. ~Mischarged(f) /\ mixup' = mixup
    <3>1. ~Mischarged(f)
      BY <2>1, Zenon
    <3>2. mixup \in BOOLEAN /\ mixup' \in BOOLEAN
      BY <2>1 DEF DeliveryInv, TypeOK, Mischarged
    <3>3. QED BY <2>1, <3>1, <3>2
  <2>3. QED BY <2>2 DEF Disconnect
<1>2. Connected' = Connected \ Marked(f)
  BY DEF DeliveryInv, TypeOK, Disconnect, Connected
<1>3. \A i, j \in Marked(f) : i = j
  <2>1. Marked(f) \subseteq Nat
    BY SubscribersAssumption DEF DeliveryInv, TypeOK, Marked, FirstWith
  <2>2. \A i, j \in Marked(f) : i <= j
    BY DEF Marked, FirstWith
  <2>3. QED BY <2>1, <2>2
<1>4. ASSUME NEW i \in Connected \ Marked(f) PROVE fd[i] # f
  <2>1. TypeOK /\ Held
    BY DEF DeliveryInv, RegistryInv, Serving
  <2>2. QED BY <1>1, <2>1, DisconnectCharged
<1>5. QED BY <1>1, <1>2, <1>3, <1>4, ClosingPromised

---------------------------------------------------------------------------
(* The steps that Delivery does not know *)

\* accept takes a descriptor that no connected client holds.
LEMMA AcceptPromised ==
    ASSUME DeliveryInv, Serving, NEW k, NEW f \in Fds, Accept(k, f)
    PROVE  Promised
<1>1. /\ \A g \in Fds : g # f => peer'[g] = peer[g]
      /\ peer[f] = 0
      /\ UNCHANGED <<status, mixup, published, topics, lost_messages>>
      /\ UNCHANGED <<got, outbox, link, fd, clients, connected>>
  BY DEF DeliveryInv, TypeOK, Accept
<1>2. Connected' = Connected /\ Given' = Given /\ Running' = Running
  BY <1>1 DEF Connected, Given, Stream, Running
<1>3. \A i \in Connected : fd[i] # f
  BY <1>1, ServedType
<1>4. ServedAt' = ServedAt
  BY <1>1, <1>2, <1>3, ServedElsewhere
<1>5. QED BY <1>1, <1>2, <1>4 DEF Promised, Promise!deliveryVars

\* Steps of the server, publishers and the console that serve no client.
LEMMA OtherPromised ==
    ASSUME \/ Poll
           \/ \E t \in Topics : Publish(t)
           \/ ConsoleInput
           \/ \E k \in DOMAIN poll_set : ReadEnd(k)
           \/ UNCHANGED vars
    PROVE  Promised /\ UNCHANGED <<status, mixup>>
<1>1. /\ UNCHANGED <<status, mixup, published, topics, lost_messages, peer>>
      /\ UNCHANGED <<got, outbox, link, fd, clients, connected>>
  <2>1. CASE Poll
    BY <2>1 DEF Poll, subscriberVars
  <2>2. CASE \E t \in Topics : Publish(t)
    BY <2>2 DEF Publish, subscriberVars
  <2>3. CASE ConsoleInput
    BY <2>3 DEF ConsoleInput, subscriberVars
  <2>4. CASE \E k \in DOMAIN poll_set : ReadEnd(k)
    BY <2>4 DEF ReadEnd, subscriberVars
  <2>5. CASE UNCHANGED vars
    BY <2>5 DEF vars, subscriberVars, serverVars
  <2>6. QED BY <2>1, <2>2, <2>3, <2>4, <2>5
<1>2. UNCHANGED <<ServedAt, Given, Running>>
  BY <1>1 DEF ServedAt, Connected, Given, Stream, Running
<1>3. QED BY <1>1, <1>2 DEF Promised, Promise!deliveryVars

\* The steps by which the server ends.
LEMMA EndsServing ==
    ASSUME NEW k, NEW f, NEW i,
           \/ AcceptFails(k) \/ DieDistributing(k) \/ Shutdown(k)
           \/ DieShuttingDown(k) \/ DieReconnecting(k, f, i)
    PROVE  status' # "running"
  BY DEF AcceptFails, DieDistributing, Shutdown, DieShuttingDown, DieReconnecting, Die

---------------------------------------------------------------------------
(* Every step *)

\* The service does not come back, and once it has taken one client for
\* another it has.
LEMMA ServingBefore ==
    ASSUME TypeOK, [Next]_vars, Serving'
    PROVE  Serving
<1>1. status = "running"
  <2>1. CASE Ends
    BY <2>1 DEF Ends, Serving
  <2>2. CASE Still
    BY <2>2 DEF Still, Serving
  <2>3. ASSUME NEW k, NEW f, Accept(k, f) \/ Closes(k, f) PROVE status' = status
    BY <2>3 DEF Accept, Closes
  <2>4. ASSUME UNCHANGED serverVars PROVE status' = status
    BY <2>4 DEF serverVars
  <2>5. QED BY <2>1, <2>2, <2>3, <2>4, PollSteps DEF Serving
<1>2. mixup' = mixup \/ \E k, f : Disconnect(k, f)
  <2>1. ASSUME NEW k, NEW f, NEW i,
               \/ Register(k, f, i) \/ Reject(k, f, i) \/ Reconnect(k, f, i)
               \/ HandleSubscribe(k, f, i) \/ HandleUnsubscribe(k, f, i)
               \/ HandleExit(k, f, i) \/ Accept(k, f)
        PROVE  mixup' = mixup
    BY <2>1 DEF Register, Reject, Reconnect, HandleSubscribe, HandleUnsubscribe, HandleExit,
                Accept
  <2>2. ASSUME NEW k, Distribute(k) \/ ReadEnd(k) PROVE mixup' = mixup
    BY <2>2 DEF Distribute, ReadEnd
  <2>3. ASSUME NEW k, NEW f, NEW i,
               \/ AcceptFails(k) \/ DieDistributing(k) \/ Shutdown(k)
               \/ DieShuttingDown(k) \/ DieReconnecting(k, f, i)
        PROVE  FALSE
    BY <2>3, EndsServing DEF Serving
  <2>4. ASSUME NEW k, NEW f, HandleClient(k, f)
        PROVE  mixup' = mixup \/ Disconnect(k, f)
    BY <2>1, <2>3, <2>4 DEF HandleClient
  <2>5. ASSUME NEW k, Handle(k)
        PROVE  mixup' = mixup \/ \E f : Disconnect(k, f)
    BY <2>1, <2>2, <2>3, <2>4, <2>5 DEF Handle
  <2>6. CASE Poll \/ (\E t \in Topics : Publish(t)) \/ ConsoleInput
    BY <2>6 DEF Poll, Publish, ConsoleInput
  <2>7. CASE UNCHANGED serverVars
    BY <2>7 DEF serverVars
  <2>8. CASE UNCHANGED vars
    BY <2>8 DEF vars, serverVars
  <2>9. CASE ServerStep
    BY <2>5, <2>6, <2>9 DEF ServerStep
  <2>10. QED BY <2>6, <2>7, <2>8, <2>9 DEF Next
<1>3. ASSUME NEW k, NEW f, Disconnect(k, f) PROVE ~mixup
  <2>1. mixup' = (mixup \/ Mischarged(f))
    BY <1>3 DEF Disconnect
  <2>2. QED BY <2>1, Zenon DEF Serving
<1>4. ~mixup
  BY <1>2, <1>3 DEF Serving
<1>5. QED BY <1>1, <1>4 DEF Serving

LEMMA StepPromised ==
    ASSUME DeliveryInv, [Next]_vars, Serving'
    PROVE  Promised
<1>1. Serving
  BY ServingBefore DEF DeliveryInv
<1>2. ASSUME NEW k \in DOMAIN poll_set, NEW f \in Fds, HandleClient(k, f)
      PROVE  Promised
  <2>1. ASSUME NEW i \in Ids, HandleSubscribe(k, f, i) \/ HandleUnsubscribe(k, f, i)
        PROVE  Promised
    BY <1>1, <2>1, WantPromised
  <2>2. ASSUME NEW i \in Ids, Register(k, f, i) \/ Reconnect(k, f, i)
        PROVE  Promised
    BY <1>1, <2>2, JoinPromised
  <2>3. ASSUME NEW i \in Ids, Reject(k, f, i) PROVE Promised
    BY <1>1, <2>3, RejectPromised
  <2>4. ASSUME NEW i \in Ids, HandleExit(k, f, i) PROVE Promised
    BY <1>1, <2>4, ExitPromised
  <2>5. ASSUME NEW i \in Ids, DieReconnecting(k, f, i) PROVE FALSE
    BY <2>5, EndsServing DEF Serving
  <2>6. CASE Disconnect(k, f)
    BY <1>1, <2>6, DisconnectPromised
  <2>7. QED BY <1>2, <2>1, <2>2, <2>3, <2>4, <2>5, <2>6 DEF HandleClient
<1>3. ASSUME NEW k \in DOMAIN poll_set, Handle(k) PROVE Promised
  <2>1. ASSUME AcceptFails(k) \/ DieDistributing(k) \/ Shutdown(k) \/ DieShuttingDown(k)
        PROVE  FALSE
    BY <2>1, EndsServing DEF Serving
  <2>2. ASSUME NEW f \in Fds, Accept(k, f) PROVE Promised
    BY <1>1, <2>2, AcceptPromised
  <2>3. CASE Distribute(k)
    BY <1>1, <2>3, DistributePromised
  <2>4. CASE ReadEnd(k)
    BY <2>4, OtherPromised
  <2>5. QED BY <1>2, <1>3, <2>1, <2>2, <2>3, <2>4 DEF Handle
<1>4. CASE ServerStep
  BY <1>3, <1>4, OtherPromised DEF ServerStep
<1>5. ASSUME NEW s \in Sessions, SubscriberStep(s), UNCHANGED serverVars PROVE Promised
  BY <1>5, SessionPromised DEF DeliveryInv
<1>6. ASSUME NEW s \in Sessions, NEW i \in Ids, Start(s, i), UNCHANGED serverVars
      PROVE  Promised
  BY <1>6, StartPromised
<1>7. CASE (\E t \in Topics : Publish(t)) \/ ConsoleInput \/ UNCHANGED vars
  BY <1>7, OtherPromised
<1>8. QED BY <1>4, <1>5, <1>6, <1>7 DEF Next

---------------------------------------------------------------------------
(* Sessions that have not begun *)

\* Nothing is written to a session before it connects, and it reads nothing.
LEMMA FreshStays ==
    ASSUME TypeOK, Fresh, [Next]_vars
    PROVE  Fresh'
<1> USE DEF TypeOK, SubscriberTypeOK
<1>1. ASSUME LinksStay, got' = got,
             outbox' = outbox \/ \E q : outbox' = Delivered(q)
      PROVE  Fresh'
  BY <1>1 DEF Fresh, LinksStay, Delivered, Alive
<1>2. ASSUME NEW q, Die(q) PROVE Fresh'
  <2>1. LinksStay
    BY <1>2, ServerClosedStays DEF Die, CloseAllSockets
  <2>2. QED BY <1>1, <1>2, <2>1 DEF Die, CloseAllSockets
<1>3. ASSUME link' = link PROVE LinksStay
  BY <1>3 DEF LinksStay
<1>4. ASSUME NEW k \in DOMAIN poll_set, NEW f \in Fds, NEW i \in Ids,
             Register(k, f, i) \/ HandleSubscribe(k, f, i) \/ HandleUnsubscribe(k, f, i)
      PROVE  Fresh'
  BY <1>1, <1>3, <1>4 DEF Register, HandleSubscribe, HandleUnsubscribe
<1>5. ASSUME NEW k \in DOMAIN poll_set, NEW f \in Fds, NEW i \in Ids, Reconnect(k, f, i)
      PROVE  Fresh'
  <2>1. PICK q : outbox' = Delivered(q) /\ link' = Struck(q) /\ got' = got
    BY <1>5 DEF Reconnect
  <2>2. QED BY <1>1, <2>1, StruckStays
<1>6. ASSUME NEW k \in DOMAIN poll_set, NEW f \in Fds, NEW i \in Ids, DieReconnecting(k, f, i)
      PROVE  Fresh'
  BY <1>2, <1>6 DEF DieReconnecting
<1>7. ASSUME NEW k \in DOMAIN poll_set, NEW f \in Fds,
             \/ \E i \in Ids : Reject(k, f, i) \/ HandleExit(k, f, i)
             \/ Disconnect(k, f)
      PROVE  Fresh'
  <2>1. LinksStay
    BY <1>7, ClosesByHandler DEF Closes
  <2>2. got' = got /\ outbox' = outbox
    BY <1>7 DEF Reject, HandleExit, Disconnect
  <2>3. QED BY <1>1, <2>1, <2>2
<1>8. ASSUME NEW k \in DOMAIN poll_set, NEW f \in Fds, HandleClient(k, f) PROVE Fresh'
  BY <1>4, <1>5, <1>6, <1>7, <1>8 DEF HandleClient
<1>9. ASSUME NEW k \in DOMAIN poll_set, Handle(k) PROVE Fresh'
  <2>1. CASE \E f \in Fds : Accept(k, f)
    BY <1>1, <1>3, <2>1 DEF Accept
  <2>2. CASE AcceptFails(k) \/ DieDistributing(k) \/ DieShuttingDown(k)
    BY <1>2, <2>2 DEF AcceptFails, DieDistributing, DieShuttingDown
  <2>3. CASE Distribute(k)
    <3>1. PICK q : outbox' = Delivered(q) /\ link' = Struck(q) /\ got' = got
      BY <2>3 DEF Distribute
    <3>2. QED BY <1>1, <3>1, StruckStays
  <2>4. CASE ReadEnd(k)
    BY <1>1, <1>3, <2>4 DEF ReadEnd, subscriberVars
  <2>5. CASE Shutdown(k)
    <3>1. PICK q : CloseAllSockets(q)
      BY <2>5 DEF Shutdown
    <3>2. LinksStay
      BY <3>1, ServerClosedStays DEF CloseAllSockets
    <3>3. QED BY <1>1, <3>1, <3>2 DEF CloseAllSockets
  <2>6. QED BY <1>8, <1>9, <2>1, <2>2, <2>3, <2>4, <2>5 DEF Handle
<1>10. CASE Poll \/ (\E t \in Topics : Publish(t)) \/ ConsoleInput \/ UNCHANGED vars
  BY <1>1, <1>3, <1>10 DEF Poll, Publish, ConsoleInput, vars, subscriberVars
<1>11. CASE ServerStep
  BY <1>9, <1>10, <1>11 DEF ServerStep
<1>12. ASSUME NEW s \in Sessions, SubscriberStep(s) PROVE Fresh'
  <2>1. LinksStay
    BY <1>12, SubscriberStepStays
  <2>2. /\ \A t \in Sessions : t # s => got'[t] = got[t] /\ outbox'[t] = outbox[t]
        /\ link[s] # "none" \/ UNCHANGED <<got, outbox>>
    <3>1. ASSUME Hangup(s)
          PROVE  got' = got /\ \A t \in Sessions : t # s => outbox'[t] = outbox[t]
      BY <3>1 DEF Hangup
    <3>2. ASSUME ReadMessage(s)
          PROVE  \A t \in Sessions : t # s => got'[t] = got[t] /\ outbox'[t] = outbox[t]
      BY <3>2 DEF ReadMessage
    <3>3. CASE Close(s) \/ Kill(s) \/ SeeEnd(s)
      BY <3>1, <3>3 DEF Close, Kill, SeeEnd, Alive
    <3>4. CASE Receive(s) \/ TypeExit(s)
      BY <3>2, <3>4 DEF Receive, TypeExit
    <3>5. CASE SendConnect(s) \/ (\E r \in Menu : Command(s, r)) \/ RstArrives(s)
      BY <3>5 DEF SendConnect, Command, RstArrives
    <3>6. QED BY <1>12, <3>3, <3>4, <3>5 DEF SubscriberStep
  <2>3. QED BY <2>1, <2>2 DEF Fresh, LinksStay
<1>13. ASSUME NEW s \in Sessions, NEW i \in Ids, Start(s, i) PROVE Fresh'
  BY <1>13 DEF Start, Fresh
<1>14. QED BY <1>10, <1>11, <1>12, <1>13 DEF Next

LEMMA FreshInvariant == Spec => []Fresh
<1>1. Init => Fresh
  BY DEF Init, SubscriberInit, Fresh
<1>2. TypeOK /\ Fresh /\ [Next]_vars => Fresh'
  BY FreshStays
<1>3. QED BY <1>1, <1>2, TypeCorrect, PTL DEF Spec

---------------------------------------------------------------------------
(* The refinement *)

LEMMA InitPromised == Init => Promise!Init
<1> SUFFICES ASSUME Init PROVE Promise!Init
  OBVIOUS
<1>1. /\ status = "running" /\ mixup = FALSE /\ published = <<>> /\ clients = {}
      /\ topics = [i \in Ids |-> [p \in Patterns |-> "none"]]
      /\ lost_messages = [i \in Ids |-> <<>>]
      /\ got = [s \in Sessions |-> <<>>] /\ outbox = [s \in Sessions |-> <<>>]
      /\ link = [s \in Sessions |-> "none"]
  BY DEF Init, SubscriberInit
<1>2. ServedAt = [i \in Ids |-> 0]
  BY <1>1 DEF ServedAt, Connected
<1>3. Given = [s \in Sessions |-> <<>>]
  <2>1. \A s \in Sessions : Stream(s) = <<>>
    BY <1>1, ConcatEmptySeq DEF Stream
  <2>2. QED BY <2>1 DEF Given
<1>4. Running = {}
  BY <1>1 DEF Running, Alive
<1>5. QED BY <1>1, <1>2, <1>3, <1>4 DEF Promise!Init

LEMMA DeliveryInvariant == Spec => []DeliveryInv
  BY TypeCorrect, PollInvariant, RegistryInvariant, QueueInvariant, SubscriptionsInvariant,
     FreshInvariant, PTL DEF DeliveryInv

\* The server delivers as Delivery promises, whatever the clients, sessions,
\* patterns, topics and descriptors: process_udp_message leaves no recipient
\* out and adds none, handle_client_request hands over what was stored whole
\* and in order, and a message is lost only with the session it was written to,
\* as long as no disconnect missed its client (Mischarged).
THEOREM ServerKeepsPromise == Spec => DeliversAsPromised
<1>1. Init => Promise!Init
  BY InitPromised
<1>2. DeliveryInv /\ [Next]_vars => [Serving' => Promise!Next]_Promise!deliveryVars
  BY StepPromised DEF Promised, Serving
<1>3. Spec => []DeliveryInv
  BY DeliveryInvariant
<1>4. QED BY <1>1, <1>2, <1>3, PTL DEF Spec, DeliversAsPromised, Promise!Spec, Serving

---------------------------------------------------------------------------
(* What the sessions of a client are given *)

Values(q) == {q[j] : j \in 1..Len(q)}

\* What session s was given, and what is stored for client i.
Shown(s) == Values(Given[s])
Stock(i) == Values(lost_messages[i])

\* StreamsOrdered, position by position.
InOrder ==
    \A s \in Sessions : \A j, k \in 1..Len(Given[s]) :
        j < k => /\ Given[s][j] # Notice
                 /\ Given[s][k] # Notice => Given[s][j] < Given[s][k]

\* Only what was received is given, and the notice only at the end of the server.
Known ==
    \A s \in Sessions : \A m \in Shown(s) :
        /\ m <= Len(published)
        /\ status = "running" => m # Notice

\* What is stored for a client is newer than what its sessions were given.
Newer ==
    \A s \in Sessions : \A m \in Shown(s) : m # Notice =>
        owner[s] \in clients /\ \A n \in Stock(owner[s]) : m < n

\* Two sessions of a client are given different messages.
Apart ==
    \A r, s \in Sessions :
        r # s /\ owner[r] = owner[s] => \A m \in Shown(r) : m \in Shown(s) => m = Notice

\* Neither StreamsOrdered nor OncePerClient is inductive without the other, nor
\* without Known: that a new message is newer than all that were given.
StreamInv == ~mixup => InOrder /\ Known /\ Newer /\ Apart

LEMMA ValuesAppend ==
    ASSUME NEW q \in Seq(Nat), NEW m \in Nat
    PROVE  Values(Append(q, m)) = Values(q) \cup {m}
<1>1. /\ Len(q) \in Nat /\ Len(Append(q, m)) = Len(q) + 1
      /\ \A j \in 1..Len(q) : Append(q, m)[j] = q[j]
      /\ Append(q, m)[Len(q) + 1] = m
  OBVIOUS
<1>2. 1..(Len(q) + 1) = 1..Len(q) \cup {Len(q) + 1}
  BY <1>1
<1>3. QED BY <1>1, <1>2 DEF Values

LEMMA ValuesConcat ==
    ASSUME NEW p \in Seq(Nat), NEW q \in Seq(Nat)
    PROVE  Values(p \o q) = Values(p) \cup Values(q)
<1>1. /\ Len(p) \in Nat /\ Len(q) \in Nat /\ Len(p \o q) = Len(p) + Len(q)
      /\ \A j \in 1..Len(p) : (p \o q)[j] = p[j]
      /\ \A j \in 1..Len(q) : (p \o q)[Len(p) + j] = q[j]
  OBVIOUS
<1>2. ASSUME NEW j \in 1..Len(p \o q) PROVE (p \o q)[j] \in Values(p) \cup Values(q)
  <2>1. CASE j \in 1..Len(p)
    BY <1>1, <2>1 DEF Values
  <2>2. CASE j - Len(p) \in 1..Len(q)
    <3>1. (p \o q)[Len(p) + (j - Len(p))] = q[j - Len(p)] /\ Len(p) + (j - Len(p)) = j
      BY <1>1, <2>2
    <3>2. QED BY <2>2, <3>1 DEF Values
  <2>3. QED BY <1>1, <2>1, <2>2
<1>3. ASSUME NEW j \in 1..Len(p) PROVE p[j] \in Values(p \o q)
  BY <1>1 DEF Values
<1>4. ASSUME NEW j \in 1..Len(q) PROVE q[j] \in Values(p \o q)
  <2>1. Len(p) + j \in 1..Len(p \o q)
    BY <1>1
  <2>2. QED BY <1>1, <2>1 DEF Values
<1>5. QED BY <1>2, <1>3, <1>4 DEF Values

LEMMA GivenType ==
    ASSUME TypeOK, NEW s \in Sessions
    PROVE  /\ Given[s] \in Seq(Nat) /\ Len(Given[s]) \in Nat
           /\ \A j \in 1..Len(Given[s]) : Given[s][j] \in Nat
           /\ \A m \in Shown(s) : m \in Nat
<1>1. got[s] \in Seq(Nat) /\ outbox[s] \in Seq(Nat) /\ Given[s] = got[s] \o outbox[s]
  BY DEF TypeOK, SubscriberTypeOK, Given, Stream
<1>2. Given[s] \in Seq(Nat)
  BY <1>1, ConcatProperties
<1>3. QED BY <1>2 DEF Shown, Values

\* A step after which every session has what it was given, or a first part of it.
Cuts ==
    \A s \in Sessions :
        /\ Len(Given'[s]) \in Nat /\ Len(Given'[s]) <= Len(Given[s])
        /\ \A j \in 1..Len(Given'[s]) : Given'[s][j] = Given[s][j]

LEMMA CutKeeps ==
    ASSUME TypeOK, StreamInv, Cuts, published' = published, clients \subseteq clients',
           \A s \in Sessions : owner'[s] = owner[s] \/ Given[s] = <<>>,
           \A i \in Ids : lost_messages'[i] = lost_messages[i] \/ lost_messages'[i] = <<>>,
           status' = "running" => status = "running", ~mixup' => ~mixup
    PROVE  StreamInv'
<1> SUFFICES ASSUME ~mixup' PROVE InOrder' /\ Known' /\ Newer' /\ Apart'
  BY DEF StreamInv
<1>1. InOrder /\ Known /\ Newer /\ Apart
  BY DEF StreamInv
<1>2. \A s \in Sessions :
        /\ Len(Given[s]) \in Nat /\ Len(Given'[s]) \in Nat
        /\ 1..Len(Given'[s]) \subseteq 1..Len(Given[s])
        /\ \A j \in 1..Len(Given'[s]) : Given'[s][j] = Given[s][j]
  BY GivenType DEF Cuts
<1>3. \A s \in Sessions : Shown(s)' \subseteq Shown(s)
  BY <1>2 DEF Shown, Values
<1>4. \A s \in Sessions : Shown(s)' # {} => owner'[s] = owner[s]
  <2>1. \A s \in Sessions : Given[s] = <<>> => 1..Len(Given'[s]) = {}
    BY <1>2
  <2>2. \A s \in Sessions : Given[s] = <<>> => Shown(s)' = {}
    BY <2>1 DEF Shown, Values
  <2>3. QED BY <2>2
<1>5. InOrder'
  BY <1>1, <1>2 DEF InOrder
<1>6. Known'
  BY <1>1, <1>3 DEF Known
<1>7. Newer'
  <2>1. \A i \in Ids : Stock(i)' \subseteq Stock(i)
    BY DEF Stock, Values
  <2>2. clients \subseteq Ids
    BY DEF TypeOK
  <2>3. QED BY <1>1, <1>3, <1>4, <2>1, <2>2 DEF Newer
<1>8. Apart'
  BY <1>1, <1>3, <1>4 DEF Apart
<1>9. QED BY <1>5, <1>6, <1>7, <1>8

\* A message or the notice is handed out.
LEMMA HandoutKeeps ==
    ASSUME DeliveryInv, Serving, StreamInv, NEW m \in Nat,
           \/ m = Notice /\ published' = published /\ status' # "running"
           \/ m = Len(published) + 1 /\ Len(published') = m,
           \A s \in Sessions :
              \/ Given'[s] = Given[s]
              \/ Given'[s] = Append(Given[s], m) /\ \E i \in Ids : ServedAt[i] = s,
           \A i \in Ids :
              \/ lost_messages'[i] = lost_messages[i]
              \/ lost_messages'[i] = <<>>
              \/ m # Notice /\ i \notin Connected
                   /\ lost_messages'[i] = Append(lost_messages[i], m),
           UNCHANGED <<owner, clients, mixup>>
    PROVE  StreamInv'
<1>1. InOrder /\ Known /\ Newer /\ Apart
  BY DEF StreamInv, Serving
<1>2. /\ Len(published) \in Nat /\ status = "running"
      /\ m # Notice => m > Len(published) /\ Len(published') = m
      /\ m = Notice => Len(published') = Len(published) /\ status' # "running"
  BY DEF DeliveryInv, TypeOK, Serving, Notice
<1>3. \A s \in Sessions : \A n \in Shown(s) : n \in Nat /\ n # Notice /\ n <= Len(published)
  BY <1>1, <1>2, GivenType DEF DeliveryInv, Known
<1>4. ASSUME NEW s \in Sessions
      PROVE  \/ Given'[s] = Given[s] /\ Shown(s)' = Shown(s)
             \/ /\ Given'[s] = Append(Given[s], m) /\ Shown(s)' = Shown(s) \cup {m}
                /\ owner[s] \in Connected /\ ServedAt[owner[s]] = s
  <2>1. CASE Given'[s] = Given[s]
    BY <2>1 DEF Shown
  <2>2. ASSUME NEW i \in Ids, ServedAt[i] = s, Given'[s] = Append(Given[s], m)
        PROVE  /\ Shown(s)' = Shown(s) \cup {m}
               /\ owner[s] \in Connected /\ ServedAt[owner[s]] = s
    <3>1. i \in Connected /\ owner[s] = i
      BY <2>2, ServedType
    <3>2. Given[s] \in Seq(Nat)
      BY GivenType DEF DeliveryInv
    <3>3. Shown(s)' = Values(Append(Given[s], m))
      BY <2>2 DEF Shown
    <3>4. QED BY <2>2, <3>1, <3>2, <3>3, ValuesAppend DEF Shown
  <2>3. QED BY <2>1, <2>2
<1>5. ASSUME NEW i \in Ids
      PROVE  /\ \A n \in Stock(i)' : n \in Stock(i) \/ (n = m /\ m # Notice)
             /\ i \in Connected => Stock(i)' = {}
  <2>1. lost_messages[i] \in Seq(Nat)
    BY DEF DeliveryInv, TypeOK
  <2>2. i \in Connected => lost_messages[i] = <<>>
    BY DEF DeliveryInv, QueueInv, AwayOnly, Connected
  <2>3. Values(<<>>) = {}
    BY DEF Values
  <2>4. CASE lost_messages'[i] = lost_messages[i]
    BY <2>2, <2>3, <2>4 DEF Stock
  <2>5. CASE lost_messages'[i] = <<>>
    BY <2>3, <2>5 DEF Stock
  <2>6. CASE m # Notice /\ i \notin Connected /\ lost_messages'[i] = Append(lost_messages[i], m)
    <3>1. Stock(i)' = Values(Append(lost_messages[i], m))
      BY <2>6 DEF Stock
    <3>2. QED BY <2>1, <2>6, <3>1, ValuesAppend DEF Stock
  <2>7. QED BY <2>4, <2>5, <2>6
<1>6. InOrder'
  <2> SUFFICES ASSUME NEW s \in Sessions, NEW j \in 1..Len(Given'[s]),
                      NEW k \in 1..Len(Given'[s]), j < k
               PROVE  /\ Given'[s][j] # Notice
                      /\ Given'[s][k] # Notice => Given'[s][j] < Given'[s][k]
    BY DEF InOrder
  <2> DEFINE g == Given[s]
  <2>1. g \in Seq(Nat) /\ Len(g) \in Nat
    BY GivenType DEF DeliveryInv
  <2>2. /\ \A h, l \in 1..Len(g) : h < l => g[h] < g[l]
        /\ \A h \in 1..Len(g) : g[h] \in Nat /\ g[h] # Notice /\ g[h] <= Len(published)
    <3>1. \A h \in 1..Len(g) : g[h] \in Shown(s)
      BY DEF Shown, Values
    <3>2. \A h \in 1..Len(g) : g[h] \in Nat /\ g[h] # Notice /\ g[h] <= Len(published)
      BY <1>3, <3>1
    <3>3. QED BY <1>1, <3>2 DEF InOrder
  <2>3. Given'[s] = g \/ Given'[s] = Append(g, m)
    BY <1>4
  <2> HIDE DEF g
  <2>4. CASE Given'[s] = g
    BY <2>2, <2>4
  <2>5. CASE Given'[s] = Append(g, m)
    <3>1. /\ j \in 1..Len(g) /\ Given'[s][j] = g[j]
          /\ \/ k \in 1..Len(g) /\ Given'[s][k] = g[k]
             \/ Given'[s][k] = m
      BY <2>1, <2>5
    <3>2. QED BY <1>2, <2>2, <3>1
  <2>6. QED BY <2>3, <2>4, <2>5
<1>7. Known'
  BY <1>2, <1>3, <1>4 DEF Known, Notice
<1>8. Newer'
  <2> SUFFICES ASSUME NEW s \in Sessions, NEW n \in Shown(s)', n # Notice
               PROVE  owner[s] \in clients /\ \A l \in Stock(owner[s])' : n < l
    BY DEF Newer
  <2>1. CASE n \in Shown(s)
    <3>1. owner[s] \in clients /\ owner[s] \in Ids
      BY <1>1, <2>1 DEF Newer, DeliveryInv, TypeOK
    <3>2. \A l \in Stock(owner[s]) : n < l
      BY <1>1, <2>1 DEF Newer
    <3>3. \A l \in Stock(owner[s])' : l \in Stock(owner[s]) \/ (l = m /\ m # Notice)
      BY <1>5, <3>1
    <3>4. QED BY <1>2, <1>3, <2>1, <3>1, <3>2, <3>3
  <2>2. CASE owner[s] \in Connected
    BY <1>5, <2>2 DEF Connected, DeliveryInv, TypeOK
  <2>3. QED BY <1>4, <2>1, <2>2
<1>9. Apart'
  <2> SUFFICES ASSUME NEW r \in Sessions, NEW s \in Sessions, r # s, owner[r] = owner[s],
                      NEW n \in Shown(r)', n \in Shown(s)'
               PROVE  n = Notice
    BY DEF Apart
  <2>1. CASE n \in Shown(r) /\ n \in Shown(s)
    BY <1>1, <2>1 DEF Apart
  <2>2. CASE n = m
    <3>1. (n \notin Shown(r) /\ n \notin Shown(s)) \/ n = Notice
      BY <1>2, <1>3, <2>2
    <3>2. ~(ServedAt[owner[r]] = r /\ ServedAt[owner[s]] = s)
      OBVIOUS
    <3>3. QED BY <1>4, <3>1, <3>2
  <2>3. QED BY <1>4, <2>1, <2>2
<1>10. QED BY <1>6, <1>7, <1>8, <1>9 DEF StreamInv

\* What was stored for client i is given to its session s.
LEMMA FlushKeeps ==
    ASSUME DeliveryInv, Serving, StreamInv, NEW i \in Ids, NEW s \in Sessions,
           owner[s] = i, i \in clients',
           Given' = [Given EXCEPT ![s] = @ \o lost_messages[i]],
           lost_messages' = [lost_messages EXCEPT ![i] = <<>>],
           UNCHANGED <<owner, published, status, mixup>>, clients \subseteq clients'
    PROVE  StreamInv'
<1> DEFINE q == lost_messages[i]
           g == Given[s]
<1>1. InOrder /\ Known /\ Newer /\ Apart /\ status = "running"
  BY DEF StreamInv, Serving
<1>2. /\ q \in Seq(Nat) /\ Len(q) \in Nat /\ Len(published) \in Nat
      /\ \A j, k \in 1..Len(q) : j < k => q[j] < q[k]
      /\ \A n \in Stock(i) : n \in Nat /\ n # Notice /\ n <= Len(published)
  <2>1. q \in Seq(Nat) /\ Len(q) \in Nat /\ Len(published) \in Nat
    BY DEF DeliveryInv, TypeOK
  <2>2. /\ \A k \in 1..Len(q) : q[k] \in 1..Len(published)
        /\ \A j, k \in 1..Len(q) : j < k => q[j] < q[k]
    BY <2>1 DEF DeliveryInv, QueueInv, QueuesOrdered
  <2>3. QED BY <2>1, <2>2 DEF Notice, Stock, Values
<1>3. g \in Seq(Nat) /\ Len(g) \in Nat
  BY GivenType DEF DeliveryInv
<1>4. /\ \A t \in Sessions : t # s => Given'[t] = Given[t] /\ Shown(t)' = Shown(t)
      /\ Given'[s] = g \o q /\ Shown(s)' = Shown(s) \cup Stock(i)
  <2>1. Given'[s] = g \o q /\ \A t \in Sessions : t # s => Given'[t] = Given[t]
    BY DEF Given
  <2>2. Shown(s)' = Values(g \o q) /\ \A t \in Sessions : t # s => Shown(t)' = Shown(t)
    BY <2>1 DEF Shown
  <2>3. QED BY <1>2, <1>3, <2>1, <2>2, ValuesConcat DEF Shown, Stock
<1>5. /\ Stock(i)' = {}
      /\ \A j \in Ids : j # i => Stock(j)' = Stock(j)
  <2>1. lost_messages'[i] = <<>> /\ \A j \in Ids : j # i => lost_messages'[j] = lost_messages[j]
    BY DEF DeliveryInv, TypeOK
  <2>2. QED BY <2>1 DEF Stock, Values
<1>6. \A t \in Sessions : owner[t] = i => \A n \in Shown(t), l \in Stock(i) : n < l
  BY <1>1 DEF Newer, Known
<1>7. InOrder'
  <2> SUFFICES ASSUME NEW t \in Sessions, NEW j \in 1..Len(Given'[t]),
                      NEW k \in 1..Len(Given'[t]), j < k
               PROVE  Given'[t][j] # Notice /\ Given'[t][j] < Given'[t][k]
    BY DEF InOrder
  <2>1. CASE t # s
    <3>1. Given'[t] = Given[t]
      BY <1>4, <2>1
    <3>2. /\ Given[t][j] # Notice
          /\ Given[t][k] # Notice => Given[t][j] < Given[t][k]
      BY <1>1, <3>1 DEF InOrder
    <3>3. Given[t][k] \in Shown(t)
      BY <3>1 DEF Shown, Values
    <3>4. Given[t][k] # Notice
      BY <1>1, <3>3 DEF Known
    <3>5. QED BY <3>1, <3>2, <3>4
  <2>2. CASE t = s
    <3>1. /\ \A h, l \in 1..Len(g) : h < l => g[h] < g[l]
          /\ \A h \in 1..Len(g) : g[h] # Notice
          /\ \A h \in 1..Len(g), l \in 1..Len(q) : g[h] < q[l]
          /\ \A h \in 1..Len(q) : q[h] # Notice
      BY <1>1, <1>2, <1>6 DEF InOrder, Known, Shown, Stock, Values
    <3>2. Given'[t] = g \o q
      BY <1>4, <2>2
    <3> HIDE DEF g, q
    <3>3. ASSUME NEW h \in 1..Len(g \o q)
          PROVE  \/ h \in 1..Len(g) /\ (g \o q)[h] = g[h]
                 \/ h - Len(g) \in 1..Len(q) /\ h > Len(g) /\ (g \o q)[h] = q[h - Len(g)]
      BY <1>2, <1>3
    <3>4. CASE j \in 1..Len(g) /\ Given'[t][j] = g[j]
      BY <3>1, <3>2, <3>3, <3>4
    <3>5. CASE j - Len(g) \in 1..Len(q) /\ j > Len(g) /\ Given'[t][j] = q[j - Len(g)]
      <4>1. k - Len(g) \in 1..Len(q) /\ Given'[t][k] = q[k - Len(g)]
        <5>1. k \in 1..Len(g \o q) /\ k \in Nat /\ j \in Nat /\ k > Len(g)
          <6>1. Len(g \o q) \in Nat /\ Len(g) \in Nat
            BY <1>2, <1>3
          <6>2. k \in 1..Len(g \o q) /\ j \in 1..Len(g \o q)
            BY <3>2
          <6>3. QED BY <3>5, <6>1, <6>2
        <5>2. k \notin 1..Len(g)
          BY <1>3, <5>1
        <5>3. QED BY <3>2, <3>3, <5>1, <5>2
      <4>2. j - Len(g) < k - Len(g)
        BY <1>3
      <4>3. QED BY <1>2, <3>1, <3>5, <4>1, <4>2
    <3>6. QED BY <3>2, <3>3, <3>4, <3>5
  <2>3. QED BY <2>1, <2>2
<1>8. Known'
  BY <1>1, <1>2, <1>4 DEF Known
<1>9. Newer'
  <2> SUFFICES ASSUME NEW t \in Sessions, NEW n \in Shown(t)'
               PROVE  owner[t] \in clients' /\ \A l \in Stock(owner[t])' : n < l
    BY DEF Newer
  <2>1. CASE owner[t] = i
    BY <1>5, <2>1
  <2>2. CASE owner[t] # i
    <3>1. n \in Shown(t) /\ n # Notice
      BY <1>1, <1>4, <2>2 DEF Known
    <3>2. owner[t] \in clients /\ owner[t] \in Ids
      BY <1>1, <3>1 DEF Newer, DeliveryInv, TypeOK
    <3>3. QED BY <1>1, <1>5, <2>2, <3>1, <3>2 DEF Newer
  <2>3. QED BY <2>1, <2>2
<1>10. Apart'
  <2> SUFFICES ASSUME NEW r \in Sessions, NEW t \in Sessions, r # t, owner[r] = owner[t],
                      NEW n \in Shown(r)', n \in Shown(t)'
               PROVE  n = Notice
    BY DEF Apart
  <2>1. CASE n \in Shown(r) /\ n \in Shown(t)
    BY <1>1, <2>1 DEF Apart
  <2>2. CASE n \in Stock(i) /\ owner[r] = i
    <3>1. \A l \in Shown(r) \cup Shown(t) : l \in Nat /\ l < n
      BY <1>6, <2>2, GivenType DEF DeliveryInv
    <3>2. n \in Nat
      BY <1>2, <2>2
    <3>3. n \notin Shown(r) /\ n \notin Shown(t)
      BY <3>1, <3>2
    <3>4. QED BY <1>4, <3>3
  <2>3. QED BY <1>4, <2>1, <2>2
<1>11. QED BY <1>7, <1>8, <1>9, <1>10 DEF StreamInv

\* The steps that give nothing to any session, and take nothing from it.
LEMMA NothingGiven ==
    ASSUME TypeOK, StreamInv, UNCHANGED <<got, outbox, published, lost_messages>>,
           \A s \in Sessions : owner'[s] = owner[s] \/ Given[s] = <<>>,
           clients \subseteq clients', status' = "running" => status = "running",
           ~mixup' => ~mixup
    PROVE  StreamInv'
<1>1. \A s \in Sessions : Given'[s] = Given[s]
  BY DEF Given, Stream
<1>2. Cuts
  BY <1>1, GivenType DEF Cuts
<1>3. QED BY <1>2, CutKeeps

\* A session reads, or ends with a part of its data unread.
LEMMA SessionGives ==
    ASSUME DeliveryInv, StreamInv, NEW s \in Sessions, SubscriberStep(s), UNCHANGED serverVars
    PROVE  StreamInv'
<1>1. owner' = owner
  BY SubscriberStepCalm DEF DeliveryInv, RegistryInv, Calm
<1>2. UNCHANGED <<published, lost_messages, clients, status, mixup>> /\ ServedAt' = ServedAt
  BY DEF serverVars, ServedAt, Connected
<1>3. Given' = Given \/ \E t \in Sessions : Promise!End(t)
  <2>1. Promised
    BY SessionPromised DEF DeliveryInv
  <2>2. ASSUME NEW t, Promise!Accept(t) PROVE FALSE
    <3>1. published' = Append(published, t) /\ Len(published) \in Nat
      BY <2>2 DEF Promise!Accept, DeliveryInv, TypeOK
    <3>2. Len(published') = Len(published) + 1
      BY <3>1
    <3>3. QED BY <1>2, <3>1, <3>2
  <2>3. ASSUME NEW i \in Ids, NEW t \in Sessions, Promise!Join(i, t) PROVE FALSE
    <3>1. ServedAt[i] = 0 /\ ServedAt' = [ServedAt EXCEPT ![i] = t] /\ t # 0
      BY <2>3, SubscribersAssumption DEF Promise!Join, Sessions
    <3>2. ServedAt'[i] = t
      BY <3>1 DEF ServedAt
    <3>3. QED BY <1>2, <3>1, <3>2
  <2>4. ASSUME NEW i, NEW p, NEW w, NEW t,
               Promise!Leave(i) \/ Promise!Want(i, p, w) \/ Promise!Begin(t)
        PROVE  Given' = Given
    BY <2>4 DEF Promise!Leave, Promise!Want, Promise!Begin
  <2>5. CASE UNCHANGED Promise!deliveryVars
    BY <2>5 DEF Promise!deliveryVars
  <2>6. QED BY <2>1, <2>2, <2>3, <2>4, <2>5 DEF Promised, Promise!Next
<1>4. Cuts
  <2>1. CASE Given' = Given
    BY <2>1, GivenType DEF Cuts, DeliveryInv
  <2>2. ASSUME NEW t \in Sessions, NEW n \in 0..Len(Given[t]),
               Given' = [Given EXCEPT ![t] = SubSeq(@, 1, n)]
        PROVE  Cuts
    <3>1. Given'[t] = SubSeq(Given[t], 1, n) /\ \A r \in Sessions : r # t => Given'[r] = Given[r]
      BY <2>2 DEF Given
    <3>2. Given[t] \in Seq(Nat)
      BY GivenType DEF DeliveryInv
    <3>3. /\ Len(Given'[t]) = n /\ n \in Nat /\ n <= Len(Given[t])
          /\ \A j \in 1..n : Given'[t][j] = Given[t][j]
      BY <3>1, <3>2
    <3>4. ASSUME NEW r \in Sessions
          PROVE  /\ Len(Given'[r]) \in Nat /\ Len(Given'[r]) <= Len(Given[r])
                 /\ \A j \in 1..Len(Given'[r]) : Given'[r][j] = Given[r][j]
      <4>1. CASE r = t
        BY <3>3, <4>1
      <4>2. CASE r # t
        <5>1. Given'[r] = Given[r] /\ Len(Given[r]) \in Nat
          BY <3>1, <4>2, GivenType DEF DeliveryInv
        <5>2. QED BY <5>1
      <4>3. QED BY <4>1, <4>2
    <3>5. QED BY <3>4 DEF Cuts
  <2>3. QED BY <1>3, <2>1, <2>2 DEF Promise!End
<1>5. QED BY <1>1, <1>2, <1>4, CutKeeps DEF DeliveryInv

\* m is written once to each client of S: what its session is given.
LEMMA CopiesGiven ==
    ASSUME DeliveryInv, Serving, NEW S, S \subseteq Connected, NEW m \in Nat,
           outbox' = Delivered(Copies(S, m)), got' = got
    PROVE  \A s \in Sessions :
              \/ Given'[s] = Given[s]
              \/ Given'[s] = Append(Given[s], m) /\ \E i \in Ids : ServedAt[i] = s
<1> SUFFICES ASSUME NEW s \in Sessions
             PROVE  \/ Given'[s] = Given[s]
                    \/ Given'[s] = Append(Given[s], m) /\ \E i \in Ids : ServedAt[i] = s
  OBVIOUS
<1>1. S \subseteq Ids
  BY DEF DeliveryInv, TypeOK, Connected
<1>2. Copies(S, m) \in [Sessions -> Seq(Nat)]
  BY <1>1, CopiesType
<1>3. Given'[s] = IF s \in Running THEN Given[s] \o Copies(S, m)[s] ELSE Given[s]
  BY <1>2, GivenAfterWrite DEF DeliveryInv
<1>4. Copies(S, m)[s] = IF \E i \in S : ServedAt[i] = s THEN <<m>> ELSE <<>>
  BY OneCopy
<1>5. Given[s] \o <<m>> = Append(Given[s], m) /\ Given[s] \o <<>> = Given[s]
  <2>1. Given[s] \in Seq(Nat)
    BY GivenType DEF DeliveryInv
  <2>2. QED BY <2>1, AppendIsConcat, ConcatEmptySeq
<1>6. QED BY <1>1, <1>3, <1>4, <1>5

\* A message is handed out, by a server that survives it or does not.
LEMMA DistributeGives ==
    ASSUME DeliveryInv, Serving, StreamInv, NEW k, Distribute(k) \/ DieDistributing(k)
    PROVE  StreamInv'
<1> DEFINE t == Head(udp)
           m == Len(published) + 1
<1>1. /\ m \in Nat /\ Len(published') = m
      /\ UNCHANGED <<owner, clients, mixup, got>>
  <2>1. published' = Append(published, t) /\ published \in Seq(Topics)
    BY DEF Distribute, DieDistributing, ReceiveDatagram, DeliveryInv, TypeOK
  <2>2. m \in Nat /\ Len(published') = m
    BY <2>1
  <2>3. QED BY <2>2 DEF Distribute, DieDistributing, Die, CloseAllSockets
<1>2. PICK S : S \subseteq Live(t) /\ outbox' = Delivered(Copies(S, m))
  BY DEF Distribute, DieDistributing, Die, CloseAllSockets
<1>3. S \subseteq Connected
  BY <1>2 DEF Live, Connected
<1>4. \A i \in Ids :
        \/ lost_messages'[i] = lost_messages[i]
        \/ i \notin Connected /\ lost_messages'[i] = Append(lost_messages[i], m)
  <2>1. CASE Distribute(k)
    <3>1. lost_messages' = [i \in Ids |-> Queue(i, t, m)]
      BY <2>1 DEF Distribute
    <3>2. \A i \in Stored(t) : i \notin Connected
      BY DEF Stored, Connected
    <3>3. QED BY <3>1, <3>2 DEF Queue
  <2>2. CASE DieDistributing(k)
    BY <2>2 DEF DieDistributing, Die
  <2>3. QED BY <2>1, <2>2
<1> HIDE DEF t, m
<1>5. m # Notice /\ m = Len(published) + 1
  BY DEF DeliveryInv, TypeOK, Notice, m
<1>6. \A s \in Sessions :
        \/ Given'[s] = Given[s]
        \/ Given'[s] = Append(Given[s], m) /\ \E i \in Ids : ServedAt[i] = s
  BY <1>1, <1>2, <1>3, CopiesGiven
<1>7. QED BY <1>1, <1>4, <1>5, <1>6, HandoutKeeps

\* The notice of the end is sent, to all or to some of the clients.
LEMMA ShutdownGives ==
    ASSUME DeliveryInv, Serving, StreamInv, NEW k, Shutdown(k) \/ DieShuttingDown(k)
    PROVE  StreamInv'
<1>1. /\ status' # "running"
      /\ UNCHANGED <<owner, clients, mixup, got, published>>
      /\ \A i \in Ids : lost_messages'[i] = lost_messages[i] \/ lost_messages'[i] = <<>>
  BY DEF Shutdown, DieShuttingDown, Die, CloseAllSockets
<1>2. PICK S : S \subseteq Connected /\ outbox' = Delivered(Copies(S, Notice))
  BY DEF Shutdown, DieShuttingDown, Die, CloseAllSockets
<1> DEFINE m == Notice
<1>3. m \in Nat /\ m = Notice
  BY DEF Notice
<1> HIDE DEF m
<1>4. \A s \in Sessions :
        \/ Given'[s] = Given[s]
        \/ Given'[s] = Append(Given[s], m) /\ \E i \in Ids : ServedAt[i] = s
  BY <1>1, <1>2, <1>3, CopiesGiven
<1>5. QED BY <1>1, <1>3, <1>4, HandoutKeeps

\* The server dies without having written anything.
LEMMA DieGives ==
    ASSUME DeliveryInv, StreamInv, Die(Nothing), published' = published
    PROVE  StreamInv'
<1>1. /\ outbox' = Delivered(Nothing) /\ status' # "running"
      /\ UNCHANGED <<got, owner, clients, mixup, lost_messages>>
  BY DEF Die, CloseAllSockets
<1>2. outbox' = outbox
  <2>1. \A s \in Sessions : outbox[s] \o Nothing[s] = outbox[s]
    BY ConcatEmptySeq DEF Nothing, DeliveryInv, TypeOK, SubscriberTypeOK
  <2>2. QED BY <1>1, <2>1 DEF Delivered, DeliveryInv, TypeOK, SubscriberTypeOK
<1>3. QED BY <1>1, <1>2, NothingGiven DEF DeliveryInv

LEMMA ReconnectGives ==
    ASSUME DeliveryInv, Serving, StreamInv, NEW k, NEW f \in Fds, NEW i \in Ids,
           Reconnect(k, f, i)
    PROVE  StreamInv'
<1>0. PICK s \in Sessions : owner[s] = i /\ HandedOver(i, s)
  BY JoinGiven
<1>1. /\ owner[s] = i
      /\ lost_messages' = [lost_messages EXCEPT ![i] = <<>>]
      /\ Given' = IF s \in Running THEN [Given EXCEPT ![s] = @ \o lost_messages[i]] ELSE Given
  BY <1>0 DEF HandedOver
<1>2. UNCHANGED <<owner, published, status, mixup, clients>> /\ i \in clients
  BY DEF Reconnect, Away
<1>3. CASE s \in Running
  BY <1>1, <1>2, <1>3, FlushKeeps
<1>4. CASE s \notin Running
  <2>1. \A r \in Sessions : Given'[r] = Given[r]
    BY <1>1, <1>4
  <2>2. Cuts
    BY <2>1, GivenType DEF Cuts, DeliveryInv
  <2>3. \A j \in Ids : lost_messages'[j] = lost_messages[j] \/ lost_messages'[j] = <<>>
    BY <1>1 DEF DeliveryInv, TypeOK
  <2>4. QED BY <1>2, <2>2, <2>3, CutKeeps DEF DeliveryInv
<1>5. QED BY <1>3, <1>4

\* Every step keeps what was given in order, and apart.
LEMMA StreamSteps ==
    ASSUME DeliveryInv, StreamInv, [Next]_vars
    PROVE  StreamInv'
<1> SUFFICES ASSUME ~mixup' PROVE StreamInv'
  BY DEF StreamInv
<1>1. ASSUME NEW k, NEW f, Disconnect(k, f) PROVE StreamInv'
  <2>1. mixup' = (mixup \/ Mischarged(f))
    BY <1>1 DEF Disconnect
  <2>2. ~mixup' => ~mixup
    BY <2>1, Zenon
  <2>3. UNCHANGED <<got, outbox, published, lost_messages, owner, clients, status>>
    BY <1>1 DEF Disconnect
  <2>4. QED BY <2>2, <2>3, NothingGiven DEF DeliveryInv
<1>2. ASSUME NEW k, NEW f, NEW i,
             \/ Register(k, f, i) \/ Reject(k, f, i) \/ HandleExit(k, f, i) \/ Accept(k, f)
             \/ HandleSubscribe(k, f, i) \/ HandleUnsubscribe(k, f, i)
      PROVE  StreamInv'
  <2>1. UNCHANGED <<got, outbox, published, lost_messages, owner, status, mixup>>
        /\ clients \subseteq clients'
    BY <1>2 DEF Register, Reject, HandleExit, Accept, HandleSubscribe, HandleUnsubscribe
  <2>2. QED BY <2>1, NothingGiven DEF DeliveryInv
<1>3. CASE \/ Poll \/ (\E t \in Topics : Publish(t)) \/ ConsoleInput
           \/ (\E k \in DOMAIN poll_set : ReadEnd(k)) \/ UNCHANGED vars
  <2>1. UNCHANGED <<got, outbox, published, lost_messages, owner, clients, status, mixup>>
    BY <1>3 DEF Poll, Publish, ConsoleInput, ReadEnd, vars, subscriberVars, serverVars
  <2>2. QED BY <2>1, NothingGiven DEF DeliveryInv
<1>4. ASSUME NEW k, NEW f, NEW i, AcceptFails(k) \/ DieReconnecting(k, f, i) PROVE StreamInv'
  <2>1. Die(Nothing) /\ published' = published
    BY <1>4 DEF AcceptFails, DieReconnecting
  <2>2. QED BY <2>1, DieGives
<1>5. ASSUME NEW k, NEW f, NEW i,
             \/ Distribute(k) \/ DieDistributing(k) \/ Shutdown(k) \/ DieShuttingDown(k)
             \/ Reconnect(k, f, i)
      PROVE  Serving
  <2>1. status = "running" /\ mixup' = mixup
    BY <1>5 DEF Distribute, DieDistributing, Shutdown, DieShuttingDown, Reconnect, Die,
                ReceiveDatagram, ReadConsole, Request, At
  <2>2. QED BY <2>1 DEF Serving
<1>6. ASSUME NEW k \in DOMAIN poll_set, NEW f \in Fds, HandleClient(k, f) PROVE StreamInv'
  <2>1. ASSUME NEW i \in Ids, Reconnect(k, f, i) PROVE StreamInv'
    BY <1>5, <2>1, ReconnectGives
  <2>2. QED BY <1>1, <1>2, <1>4, <1>6, <2>1 DEF HandleClient
<1>7. ASSUME NEW k \in DOMAIN poll_set, Handle(k) PROVE StreamInv'
  <2>1. CASE Distribute(k) \/ DieDistributing(k)
    BY <1>5, <2>1, DistributeGives
  <2>2. CASE Shutdown(k) \/ DieShuttingDown(k)
    BY <1>5, <2>2, ShutdownGives
  <2>3. QED BY <1>2, <1>3, <1>4, <1>6, <1>7, <2>1, <2>2 DEF Handle
<1>8. CASE ServerStep
  BY <1>3, <1>7, <1>8 DEF ServerStep
<1>9. ASSUME NEW s \in Sessions, NEW i \in Ids, Start(s, i), UNCHANGED serverVars
      PROVE  StreamInv'
  <2>1. UNCHANGED <<got, outbox, published, lost_messages, clients, status, mixup>>
    BY <1>9 DEF Start, serverVars
  <2>2. \A t \in Sessions : owner'[t] = owner[t] \/ Given[t] = <<>>
    <3>1. /\ \A t \in Sessions : t # s => owner'[t] = owner[t]
          /\ link[s] = "none"
      BY <1>9 DEF Start, DeliveryInv, TypeOK, SubscriberTypeOK
    <3>2. Given[s] = <<>>
      BY <3>1, ConcatEmptySeq DEF DeliveryInv, Fresh, Given, Stream
    <3>3. QED BY <3>1, <3>2
  <2>3. QED BY <2>1, <2>2, NothingGiven DEF DeliveryInv
<1>10. ASSUME NEW s \in Sessions, SubscriberStep(s), UNCHANGED serverVars PROVE StreamInv'
  BY <1>10, SessionGives
<1>11. QED BY <1>3, <1>8, <1>9, <1>10 DEF Next

LEMMA StreamInvariant == Spec => []StreamInv
<1>1. Init => StreamInv
  <2> SUFFICES ASSUME Init PROVE StreamInv
    OBVIOUS
  <2>1. \A s \in Sessions : Given[s] = <<>>
    BY ConcatEmptySeq DEF Init, SubscriberInit, Given, Stream
  <2>2. \A s \in Sessions : Shown(s) = {} /\ 1..Len(Given[s]) = {}
    BY <2>1 DEF Shown, Values
  <2>3. QED BY <2>2 DEF StreamInv, InOrder, Known, Newer, Apart
<1>2. DeliveryInv /\ StreamInv /\ [Next]_vars => StreamInv'
  BY StreamSteps
<1>3. Spec => []DeliveryInv
  BY DeliveryInvariant
<1>4. QED BY <1>1, <1>2, <1>3, PTL DEF Spec

\* Each session is sent messages in the order of their arrival, each once,
\* those of the reconnection branch before those process_udp_message sends
\* live, and nothing after the notice of handle_server_command, for any number
\* of clients, sessions and messages.
THEOREM SentInOrder == Spec => []StreamsOrdered
<1>1. TypeOK /\ StreamInv => StreamsOrdered
  <2> SUFFICES ASSUME TypeOK, StreamInv, ~mixup PROVE StreamsOrdered
    BY DEF StreamsOrdered
  <2>1. \A s \in Sessions : Stream(s) = Given[s] /\ DOMAIN Stream(s) = 1..Len(Given[s])
    <3>1. \A s \in Sessions : Given[s] = Stream(s) /\ Given[s] \in Seq(Nat)
      BY GivenType DEF Given
    <3>2. QED BY <3>1
  <2>2. QED BY <2>1 DEF StreamInv, InOrder, StreamsOrdered
<1>2. QED BY <1>1, TypeCorrect, StreamInvariant, PTL

\* No message reaches a client twice, in one session or in two, and what
\* lost_messages holds for a client is newer than all that was sent to it.
THEOREM OnceForEachClient == Spec => []OncePerClient
<1>1. TypeOK /\ StreamInv => OncePerClient
  <2> SUFFICES ASSUME TypeOK, StreamInv, ~mixup,
                      NEW s \in Sessions, NEW m \in ToSet(Stream(s)) \ {Notice}
               PROVE  /\ \A r \in Sessions :
                            owner[r] = owner[s] /\ r # s => m \notin ToSet(Stream(r))
                      /\ owner[s] \in clients
                      /\ \A k \in DOMAIN lost_messages[owner[s]] :
                            m < lost_messages[owner[s]][k]
    BY DEF OncePerClient
  <2>1. \A r \in Sessions : ToSet(Stream(r)) = Shown(r)
    <3>1. \A r \in Sessions : Given[r] = Stream(r) /\ Given[r] \in Seq(Nat)
      BY GivenType DEF Given
    <3>2. \A r \in Sessions : DOMAIN Stream(r) = 1..Len(Stream(r))
      BY <3>1
    <3>3. QED BY <3>1, <3>2 DEF ToSet, Shown, Values
  <2>2. Newer /\ Apart
    BY DEF StreamInv
  <2>3. m \in Shown(s) /\ m # Notice
    BY <2>1
  <2>4. owner[s] \in clients /\ \A n \in Stock(owner[s]) : m < n
    BY <2>2, <2>3 DEF Newer
  <2>5. \A k \in DOMAIN lost_messages[owner[s]] : lost_messages[owner[s]][k] \in Stock(owner[s])
    <3>1. lost_messages[owner[s]] \in Seq(Nat)
      BY <2>4 DEF TypeOK
    <3>2. DOMAIN lost_messages[owner[s]] = 1..Len(lost_messages[owner[s]])
      BY <3>1
    <3>3. QED BY <3>2 DEF Stock, Values
  <2>6. QED BY <2>1, <2>2, <2>3, <2>4, <2>5 DEF Apart
<1>2. QED BY <1>1, TypeCorrect, StreamInvariant, PTL

=============================================================================
