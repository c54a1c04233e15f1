----------------------------- MODULE QueueProofs -----------------------------
(***************************************************************************)
(* Messages stored for clients that are away: their order, their count and *)
(* their lifetime, for every value of the constants.                       *)
(***************************************************************************)
EXTENDS BrokerProofs

\* The groups of variables that steps leave unchanged.
USE DEF registry, tables, queues, sockets, datagrams, kept

\* Only a client that is away has messages stored for it.
AwayOnly ==
    \A i \in Ids :
        /\ connected[i] => i \in clients
        /\ connected[i] \/ i \notin clients => lost_messages[i] = <<>>

QueueInv == AwayOnly /\ QueuesOrdered /\ RefCountExact

\* A step that leaves the queues alone and connects nobody.
Quiet ==
    /\ UNCHANGED <<clients, lost_messages, c, heap>>
    /\ \A i \in Ids : connected'[i] => connected[i]
    /\ Len(published) <= Len(published')

LEMMA QueueSteps ==
    ASSUME TypeOK, [Next]_vars
    PROVE  \/ Quiet
           \/ \E k \in DOMAIN poll_set : Distribute(k) \/ Shutdown(k)
           \/ \E k \in DOMAIN poll_set, f \in Fds, i \in Ids :
                 Register(k, f, i) \/ Reconnect(k, f, i)
<1> USE DEF Quiet
<1>1. ASSUME NEW k \in DOMAIN poll_set, NEW f \in Fds, NEW i \in Ids,
             \/ Reject(k, f, i)
             \/ DieReconnecting(k, f, i)
             \/ HandleSubscribe(k, f, i)
             \/ HandleUnsubscribe(k, f, i)
      PROVE  Quiet
  BY <1>1, LenProperties
  DEF Reject, DieReconnecting, HandleSubscribe, HandleUnsubscribe, Die, TypeOK
<1>2. ASSUME NEW k \in DOMAIN poll_set, NEW f \in Fds, NEW i \in Ids, HandleExit(k, f, i)
      PROVE  Quiet
  BY <1>2, LenProperties DEF HandleExit, TypeOK
<1>3. ASSUME NEW k \in DOMAIN poll_set, NEW f \in Fds, Disconnect(k, f) \/ Accept(k, f)
      PROVE  Quiet
  BY <1>3, LenProperties DEF Disconnect, Accept, TypeOK
<1>4. ASSUME NEW k \in DOMAIN poll_set, AcceptFails(k) \/ ReadEnd(k) \/ DieShuttingDown(k)
      PROVE  Quiet
  BY <1>4, LenProperties DEF AcceptFails, ReadEnd, DieShuttingDown, Die, TypeOK
<1>5. ASSUME NEW k \in DOMAIN poll_set, DieDistributing(k)
      PROVE  Quiet
  <2>1. published' = Append(published, Head(udp)) /\ Head(udp) \in Topics
    BY <1>5, HeadTailProperties DEF DieDistributing, ReceiveDatagram, TypeOK
  <2>2. Len(published') = Len(published) + 1
    BY <2>1, AppendProperties DEF TypeOK
  <2>3. QED BY <1>5, <2>2, LenProperties DEF DieDistributing, Die, TypeOK
<1>6. CASE Poll \/ (\E t \in Topics : Publish(t)) \/ ConsoleInput
  BY <1>6, LenProperties DEF Poll, Publish, ConsoleInput, TypeOK
<1>7. CASE UNCHANGED serverVars \/ UNCHANGED vars
  BY <1>7, LenProperties DEF vars, serverVars, TypeOK
<1>8. QED
  BY <1>1, <1>2, <1>3, <1>4, <1>5, <1>6, <1>7 DEF Next, ServerStep, Handle, HandleClient

LEMMA HoldersFinite ==
    ASSUME TypeOK, NEW m
    PROVE  /\ IsFiniteSet(Holders(m))
           /\ Cardinality(Holders(m)) \in Nat
           /\ Cardinality(Holders(m)) = 0 <=> Holders(m) = {}
<1>1. Holders(m) \subseteq Ids
  BY DEF TypeOK, Holders
<1>2. QED BY <1>1, ClientsFinite, FS_EmptySet

LEMMA QuietKeeps == TypeOK /\ TypeOK' /\ QueueInv /\ Quiet => QueueInv'
<1> SUFFICES ASSUME TypeOK, TypeOK', QueueInv, Quiet PROVE QueueInv'
  OBVIOUS
<1>1. AwayOnly'
  BY DEF QueueInv, AwayOnly, Quiet
<1>2. QueuesOrdered'
  <2>1. Len(published) \in Nat /\ Len(published') \in Nat /\ Len(published) <= Len(published')
    BY LenProperties DEF TypeOK, Quiet
  <2>2. ASSUME NEW i \in Ids, NEW k \in DOMAIN lost_messages[i]
        PROVE  lost_messages[i][k] \in 1..Len(published')
    <3>1. lost_messages[i][k] \in 1..Len(published)
      BY DEF QueueInv, QueuesOrdered
    <3>2. QED BY <2>1, <3>1
  <2>3. QED BY <2>2 DEF QueueInv, QueuesOrdered, Quiet
<1>3. RefCountExact'
  BY DEF QueueInv, RefCountExact, Holders, Quiet
<1>4. QED BY <1>1, <1>2, <1>3 DEF QueueInv

\* A client that registers has nothing stored, so no queue changes hands.
LEMMA RegisterKeeps ==
    ASSUME TypeOK, QueueInv, NEW k \in DOMAIN poll_set, NEW f \in Fds, NEW i \in Ids,
           Register(k, f, i)
    PROVE  QueueInv'
<1>1. lost_messages[i] = <<>> /\ i \notin clients
  BY DEF Register, QueueInv, AwayOnly
<1>2. clients' = clients \cup {i} /\ UNCHANGED <<lost_messages, c, heap, published>>
  BY DEF Register
<1>3. AwayOnly'
  BY <1>1, <1>2 DEF Register, QueueInv, AwayOnly, TypeOK
<1>4. QueuesOrdered'
  BY <1>2 DEF QueueInv, QueuesOrdered
<1>5. ASSUME NEW m PROVE Holders(m)' = Holders(m)
  BY <1>1, <1>2 DEF Holders
<1>6. RefCountExact'
  BY <1>2, <1>5 DEF QueueInv, RefCountExact
<1>7. QED BY <1>3, <1>4, <1>6 DEF QueueInv

\* A reconnecting client gives back one reference to each message it is sent.
LEMMA ReconnectKeeps ==
    ASSUME TypeOK, QueueInv, NEW k \in DOMAIN poll_set, NEW f \in Fds, NEW i \in Ids,
           Reconnect(k, f, i)
    PROVE  QueueInv'
<1>1. /\ i \in clients
      /\ clients' = clients /\ published' = published
      /\ connected' = [connected EXCEPT ![i] = TRUE]
      /\ lost_messages' = [lost_messages EXCEPT ![i] = <<>>]
      /\ Release([m \in MsgIds |-> IF i \in Holders(m) THEN 1 ELSE 0])
  BY DEF Reconnect, Away
<1>2. AwayOnly'
  BY <1>1 DEF QueueInv, AwayOnly, TypeOK
<1>3. QueuesOrdered'
  BY <1>1 DEF QueueInv, QueuesOrdered, TypeOK
<1>4. ASSUME NEW m PROVE Holders(m)' = Holders(m) \ {i}
  BY <1>1 DEF Holders, TypeOK
<1>5. ASSUME NEW m \in MsgIds
      PROVE  /\ c'[m] = Cardinality(Holders(m)')
             /\ m \in heap' <=> Holders(m)' # {}
  <2>1. c'[m] = c[m] - (IF i \in Holders(m) THEN 1 ELSE 0)
    BY <1>1 DEF Release
  <2>2. c[m] = Cardinality(Holders(m)) /\ (m \in heap <=> Holders(m) # {})
    BY DEF QueueInv, RefCountExact
  <2>3. m \in heap' <=> m \in heap /\ (i \notin Holders(m) \/ c'[m] # 0)
    BY <1>1 DEF Release
  <2>4. CASE i \in Holders(m)
    <3>1. /\ Cardinality(Holders(m) \ {i}) = Cardinality(Holders(m)) - 1
          /\ IsFiniteSet(Holders(m) \ {i})
      BY <2>4, HoldersFinite, FS_RemoveElement
    <3>2. c'[m] = Cardinality(Holders(m) \ {i})
      BY <2>1, <2>2, <2>4, <3>1
    <3>3. c'[m] = 0 <=> Holders(m) \ {i} = {}
      BY <3>1, <3>2, FS_EmptySet
    <3>4. QED BY <1>4, <2>2, <2>3, <2>4, <3>2, <3>3
  <2>5. CASE i \notin Holders(m)
    <3>1. Holders(m) \ {i} = Holders(m)
      BY <2>5
    <3>2. c'[m] = c[m]
      BY <2>1, <2>5 DEF TypeOK
    <3>3. QED BY <1>4, <2>2, <2>3, <2>5, <3>1, <3>2
  <2>6. QED BY <2>4, <2>5
<1>6. RefCountExact'
  BY <1>5 DEF RefCountExact
<1>7. QED BY <1>2, <1>3, <1>6 DEF QueueInv

\* A message is stored under an identifier that no queue holds yet, once for
\* each client of Stored.
LEMMA DistributeKeeps ==
    ASSUME TypeOK, TypeOK', QueueInv, NEW k \in DOMAIN poll_set, Distribute(k)
    PROVE  QueueInv'
<1> DEFINE t == Head(udp)
<1>1. Len(published) \in Nat
  BY LenProperties DEF TypeOK
<1>n. PICK n \in Nat : n = Len(published) + 1
  BY <1>1
<1>2. Len(published') = n
  <2>1. Head(udp) \in Topics /\ published' = Append(published, Head(udp))
    BY HeadTailProperties DEF TypeOK, Distribute, ReceiveDatagram
  <2>2. QED BY <1>n, <2>1, AppendProperties DEF TypeOK
<1>3. /\ UNCHANGED <<clients, connected>>
      /\ lost_messages' = [i \in Ids |-> IF i \in Stored(t) THEN Append(lost_messages[i], n)
                                                            ELSE lost_messages[i]]
      /\ c' = [c EXCEPT ![n] = Cardinality(Stored(t))]
      /\ heap' = IF Stored(t) = {} THEN heap ELSE heap \cup {n}
  BY <1>n DEF Distribute, Queue
<1>4. Stored(t) \subseteq clients /\ \A i \in Stored(t) : ~connected[i]
  BY DEF Stored
<1> HIDE DEF t
<1>5. ASSUME NEW i \in Stored(t)
      PROVE  /\ DOMAIN lost_messages'[i] = DOMAIN lost_messages[i] \cup {Len(lost_messages[i]) + 1}
             /\ \A j \in DOMAIN lost_messages[i] : lost_messages'[i][j] = lost_messages[i][j]
             /\ lost_messages'[i][Len(lost_messages[i]) + 1] = n
             /\ \A j \in DOMAIN lost_messages[i] : j < Len(lost_messages[i]) + 1
  <2>1. i \in Ids /\ lost_messages[i] \in Seq(Nat)
    BY <1>4 DEF TypeOK
  <2>2. lost_messages'[i] = Append(lost_messages[i], n)
    BY <1>3, <2>1
  <2>3. QED BY <1>1, <2>1, <2>2, AppendProperties, LenProperties
<1>6. ASSUME NEW i \in Ids, i \notin Stored(t)
      PROVE  lost_messages'[i] = lost_messages[i]
  BY <1>3, <1>6
<1>7. ASSUME NEW i \in Ids, NEW j \in DOMAIN lost_messages[i]
      PROVE  lost_messages[i][j] \in 1..Len(published) /\ lost_messages[i][j] < n
  BY <1>n, <1>1 DEF QueueInv, QueuesOrdered
<1>8. AwayOnly'
  BY <1>3, <1>4, <1>6 DEF QueueInv, AwayOnly
<1>9. QueuesOrdered'
  <2>1. ASSUME NEW i \in Ids, NEW j \in DOMAIN lost_messages'[i],
               NEW l \in DOMAIN lost_messages'[i]
        PROVE  /\ lost_messages'[i][l] \in 1..Len(published')
               /\ j < l => lost_messages'[i][j] < lost_messages'[i][l]
    <3>1. CASE i \notin Stored(t)
      BY <1>n, <1>1, <1>2, <1>6, <1>7, <3>1 DEF QueueInv, QueuesOrdered
    <3>2. CASE i \in Stored(t)
      <4>1. lost_messages'[i][l] \in 1..Len(published')
        BY <1>n, <1>1, <1>2, <1>5, <1>7, <3>2
      <4>2. Len(lost_messages[i]) \in Nat /\ DOMAIN lost_messages[i] = 1..Len(lost_messages[i])
        BY LenProperties DEF TypeOK
      <4>3. ASSUME j < l PROVE lost_messages'[i][j] < lost_messages'[i][l]
        <5>1. j \in DOMAIN lost_messages[i]
          BY <1>5, <3>2, <4>2, <4>3
        <5>2. CASE l \in DOMAIN lost_messages[i]
          BY <1>5, <3>2, <4>3, <5>1, <5>2 DEF QueueInv, QueuesOrdered
        <5>3. CASE l = Len(lost_messages[i]) + 1
          BY <1>5, <1>7, <3>2, <5>1, <5>3
        <5>4. QED BY <1>5, <3>2, <5>2, <5>3
      <4>4. QED BY <4>1, <4>3
    <3>3. QED BY <3>1, <3>2
  <2>2. QED BY <2>1 DEF QueuesOrdered
<1>10. ASSUME NEW m
       PROVE  Holders(m)' = {i \in clients : \E j \in DOMAIN lost_messages'[i] :
                                                lost_messages'[i][j] = m}
  BY <1>3 DEF Holders
<1>11. ASSUME NEW m, m # n PROVE Holders(m)' = Holders(m)
  <2>1. ASSUME NEW i \in clients
        PROVE  (\E j \in DOMAIN lost_messages'[i] : lost_messages'[i][j] = m)
                 <=> \E j \in DOMAIN lost_messages[i] : lost_messages[i][j] = m
    <3>1. CASE i \in Stored(t)
      BY <1>5, <1>11, <3>1
    <3>2. CASE i \notin Stored(t)
      <4>1. i \in Ids
        BY DEF TypeOK
      <4>2. QED BY <1>6, <3>2, <4>1
    <3>3. QED BY <3>1, <3>2
  <2>2. QED BY <1>10, <2>1 DEF Holders
<1>12. Holders(n) = {}
  <2>1. ASSUME NEW i \in clients, NEW j \in DOMAIN lost_messages[i]
        PROVE  lost_messages[i][j] # n
    <3>1. i \in Ids
      BY DEF TypeOK
    <3>2. lost_messages[i][j] \in 1..Len(published)
      BY <1>7, <3>1
    <3>3. QED BY <1>n, <1>1, <3>2
  <2>2. QED BY <2>1 DEF Holders
<1>13. Holders(n)' = Stored(t)
  <2>1. ASSUME NEW i \in clients
        PROVE  i \in Stored(t) <=> \E j \in DOMAIN lost_messages'[i] : lost_messages'[i][j] = n
    <3>1. CASE i \in Stored(t)
      BY <1>5, <3>1
    <3>2. CASE i \notin Stored(t)
      <4>1. lost_messages'[i] = lost_messages[i]
        BY <1>6, <3>2 DEF TypeOK
      <4>2. QED BY <1>12, <3>2, <4>1 DEF Holders
    <3>3. QED BY <3>1, <3>2
  <2>2. QED BY <1>4, <1>10, <2>1
<1>14. RefCountExact'
  <2>1. ASSUME NEW m \in MsgIds
        PROVE  /\ c'[m] = Cardinality(Holders(m)')
               /\ m \in heap' <=> Holders(m)' # {}
    <3>1. c[m] = Cardinality(Holders(m)) /\ (m \in heap <=> Holders(m) # {})
      BY DEF QueueInv, RefCountExact
    <3>2. CASE m = n
      <4>1. n \notin heap
        BY <1>12, <3>1, <3>2
      <4>2. c'[n] = Cardinality(Stored(t))
        BY <1>3, <3>2 DEF TypeOK
      <4>3. QED BY <1>3, <1>13, <3>2, <4>1, <4>2
    <3>3. CASE m # n
      BY <1>3, <1>11, <3>1, <3>3 DEF TypeOK
    <3>4. QED BY <3>2, <3>3
  <2>2. QED BY <2>1 DEF RefCountExact
<1>15. QED BY <1>8, <1>9, <1>14 DEF QueueInv

\* At the end every reference is given back, and nothing is left allocated.
LEMMA ShutdownKeeps ==
    ASSUME TypeOK, QueueInv, NEW k \in DOMAIN poll_set, Shutdown(k)
    PROVE  QueueInv'
<1>1. /\ UNCHANGED <<clients, connected, published>>
      /\ lost_messages' = [i \in Ids |-> <<>>]
      /\ Release([m \in MsgIds |-> Cardinality(Holders(m))])
  BY DEF Shutdown
<1>2. AwayOnly' /\ QueuesOrdered'
  BY <1>1 DEF QueueInv, AwayOnly, QueuesOrdered
<1>3. ASSUME NEW m PROVE Holders(m)' = {}
  BY <1>1 DEF Holders, TypeOK
<1>4. ASSUME NEW m \in MsgIds PROVE c'[m] = 0 /\ m \notin heap'
  <2>1. c[m] = Cardinality(Holders(m)) /\ (m \in heap <=> Holders(m) # {})
    BY DEF QueueInv, RefCountExact
  <2>2. c'[m] = c[m] - Cardinality(Holders(m))
    BY <1>1 DEF Release
  <2>3. c'[m] = 0
    BY <2>1, <2>2, HoldersFinite
  <2>4. m \in heap' => m \in heap /\ Cardinality(Holders(m)) = 0
    BY <1>1, <2>3 DEF Release
  <2>5. QED BY <2>1, <2>3, <2>4, HoldersFinite
<1>5. RefCountExact'
  BY <1>3, <1>4, FS_EmptySet DEF RefCountExact
<1>6. QED BY <1>2, <1>5 DEF QueueInv

\* What the proofs about the queues rest on holds of every reachable state: the
\* messages stored for each client are received ones, in order, counted exactly,
\* and there are none for a client that is connected or that never registered.
THEOREM QueueInvariant == Spec => []QueueInv
<1>1. Init => QueueInv
  <2> SUFFICES ASSUME Init PROVE QueueInv
    OBVIOUS
  <2>1. \A m : Holders(m) = {}
    BY DEF Init, Holders
  <2>2. AwayOnly /\ QueuesOrdered
    BY DEF Init, AwayOnly, QueuesOrdered
  <2>3. c = [m \in MsgIds |-> 0] /\ heap = {}
    BY DEF Init
  <2>4. RefCountExact
    BY <2>1, <2>3, FS_EmptySet DEF RefCountExact
  <2>5. QED BY <2>2, <2>4 DEF QueueInv
<1>2. TypeOK /\ TypeOK' /\ QueueInv /\ [Next]_vars => QueueInv'
  <2> SUFFICES ASSUME TypeOK, TypeOK', QueueInv, [Next]_vars PROVE QueueInv'
    OBVIOUS
  <2>1. QED BY QueueSteps, QuietKeeps, RegisterKeeps, ReconnectKeeps, DistributeKeeps,
               ShutdownKeeps
<1>3. QED BY <1>1, <1>2, TypeCorrect, PTL DEF Spec

\* process_udp_message stores a message once in a queue, after all that the
\* queue already holds, however many subscriptions of the client it matches.
THEOREM StoredInOrder == Spec => []QueuesOrdered
<1>1. QueueInv => QueuesOrdered
  BY DEF QueueInv
<1>2. QED BY <1>1, QueueInvariant, PTL

\* stored_message_t::c counts the queues that hold the message, whatever clients
\* come and go: it is deleted with its last reference, never before or after.
THEOREM ReferenceCounts == Spec => []RefCountExact
<1>1. QueueInv => RefCountExact
  BY DEF QueueInv
<1>2. QED BY <1>1, QueueInvariant, PTL

\* handle_client_request empties the queue of a client before the client counts
\* as connected, so that no live message is sent ahead of a stored one.
THEOREM LiveNeverOvertakes == Spec => []ConnectedHasNoQueue
<1>1. TypeOK /\ QueueInv => ConnectedHasNoQueue
  BY DEF TypeOK, QueueInv, AwayOnly, ConnectedHasNoQueue, Connected
<1>2. QED BY <1>1, QueueInvariant, TypeCorrect, PTL
=============================================================================
