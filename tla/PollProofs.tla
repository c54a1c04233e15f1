----------------------------- MODULE PollProofs -----------------------------
(***************************************************************************)
(* The poll set and the open connections of the server, and the rounds     *)
(* over them, for every value of the constants.                            *)
(***************************************************************************)
EXTENDS BrokerProofs

\* The groups of variables that steps leave unchanged.
USE DEF registry, tables, queues, sockets, datagrams, kept

\* A connection waits to be accepted once, and is accepted once.
Admission ==
    /\ \A j, k \in 1..Len(listenq) : listenq[j] = listenq[k] => j = k
    /\ \A k \in 1..Len(listenq) :
          /\ link[listenq[k]] # "none"
          /\ \A f \in Fds : peer[f] # listenq[k]
    /\ \A f, g \in Fds : peer[f] # 0 /\ peer[f] = peer[g] => f = g
    /\ \A f \in Fds : peer[f] # 0 => link[peer[f]] # "none"

\* PollSetExact, position by position.
Polled ==
    /\ Len(poll_set) >= 3
    /\ poll_set[1] = UDP /\ poll_set[2] = LISTEN /\ poll_set[3] = STDIN
    /\ \A j, k \in 1..Len(poll_set) : poll_set[j] = poll_set[k] => j = k
    /\ client_addresses = {poll_set[k] : k \in 4..Len(poll_set)}
    /\ client_addresses = {f \in Fds : peer[f] # 0}

\* PollSetExact is not inductive: that no descriptor is accepted for a session
\* that has one already rests on what waits in the accept queue.
PollInv == Admission /\ (status = "running" => Polled)

---------------------------------------------------------------------------
(* Sessions start once *)

\* A connection that was made is never unmade.
LinksStay == \A s \in Sessions : link[s] # "none" => link'[s] # "none"

LEMMA ServerClosedStays ==
    ASSUME TypeOK, NEW S, link' = ServerClosed(link, S)
    PROVE  LinksStay
  BY DEF TypeOK, SubscriberTypeOK, LinksStay, ServerClosed

LEMMA StruckStays ==
    ASSUME TypeOK, NEW q, link' = Struck(q)
    PROVE  LinksStay
  BY DEF TypeOK, SubscriberTypeOK, LinksStay, Struck

LEMMA SubscriberStepStays ==
    ASSUME TypeOK, NEW s \in Sessions, SubscriberStep(s)
    PROVE  LinksStay /\ listenq' = listenq
<1> USE DEF TypeOK, SubscriberTypeOK, LinksStay
<1>1. ASSUME Hangup(s) PROVE LinksStay /\ listenq' = listenq
  BY <1>1 DEF Hangup, HungUp
<1>2. CASE SendConnect(s)
  BY <1>2 DEF SendConnect
<1>3. ASSUME NEW r \in Menu, Command(s, r) PROVE LinksStay /\ listenq' = listenq
  BY <1>3 DEF Command
<1>4. CASE Receive(s)
  BY <1>4 DEF Receive
<1>5. CASE TypeExit(s)
  BY <1>5 DEF TypeExit
<1>6. CASE Close(s) \/ Kill(s) \/ SeeEnd(s)
  BY <1>6, <1>1 DEF Close, Kill, SeeEnd
<1>7. CASE RstArrives(s)
  BY <1>7 DEF RstArrives
<1>8. QED BY <1>2, <1>3, <1>4, <1>5, <1>6, <1>7 DEF SubscriberStep

---------------------------------------------------------------------------
(* The steps that touch connections *)

\* The process ended, and the kernel has closed everything.
Ends ==
    /\ status' # "running"
    /\ listenq' = <<>>
    /\ peer' = [f \in Fds |-> 0]

\* A step that opens and closes nothing.
Still == UNCHANGED <<status, poll_set, client_addresses, peer, listenq>> /\ LinksStay

\* The server closes the connection of entry k.
Closes(k, f) ==
    /\ poll_set[k] = f
    /\ peer' = [peer EXCEPT ![f] = 0]
    /\ client_addresses' = client_addresses \ {f}
    /\ poll_set' = Erased(k)
    /\ UNCHANGED <<status, listenq>>
    /\ LinksStay

LEMMA DieEnds ==
    ASSUME NEW q, Die(q)
    PROVE  Ends
  BY DEF Die, CloseAllSockets, Ends

LEMMA ClosesByHandler ==
    ASSUME TypeOK, NEW k \in DOMAIN poll_set, NEW f \in Fds,
           \/ \E i \in Ids : Reject(k, f, i) \/ HandleExit(k, f, i)
           \/ Disconnect(k, f)
    PROVE  Closes(k, f)
<1>1. /\ poll_set[k] = f
      /\ CloseConnection(f)
      /\ poll_set' = Erased(k)
      /\ UNCHANGED <<status, listenq>>
  <2>1. ASSUME NEW i \in Ids, Reject(k, f, i)
        PROVE  poll_set[k] = f /\ CloseConnection(f) /\ poll_set' = Erased(k)
               /\ UNCHANGED <<status, listenq>>
    BY <2>1 DEF Reject, Request, GoOn
  <2>2. ASSUME NEW i \in Ids, HandleExit(k, f, i)
        PROVE  poll_set[k] = f /\ CloseConnection(f) /\ poll_set' = Erased(k)
               /\ UNCHANGED <<status, listenq>>
    BY <2>2 DEF HandleExit, Request, GoOn
  <2>3. ASSUME Disconnect(k, f)
        PROVE  poll_set[k] = f /\ CloseConnection(f) /\ poll_set' = Erased(k)
               /\ UNCHANGED <<status, listenq>>
    BY <2>3 DEF Disconnect, GoOn
  <2>4. QED BY <2>1, <2>2, <2>3
<1>2. LinksStay
  BY <1>1, ServerClosedStays DEF CloseConnection
<1>3. QED BY <1>1, <1>2 DEF Closes, CloseConnection

LEMMA PollSteps ==
    ASSUME TypeOK, [Next]_vars
    PROVE  \/ Ends
           \/ Still
           \/ \E k \in DOMAIN poll_set, f \in Fds : Accept(k, f) \/ Closes(k, f)
           \/ \E s \in Sessions, i \in Ids : Start(s, i) /\ UNCHANGED serverVars
<1>s. ASSUME link' = link PROVE LinksStay
  BY <1>s DEF LinksStay
<1>1. ASSUME NEW k \in DOMAIN poll_set, NEW f \in Fds, NEW i \in Ids,
             \/ Register(k, f, i)
             \/ HandleSubscribe(k, f, i)
             \/ HandleUnsubscribe(k, f, i)
      PROVE  Still
  BY <1>1, <1>s DEF Register, HandleSubscribe, HandleUnsubscribe, GoOn, Still
<1>2. ASSUME NEW k \in DOMAIN poll_set, NEW f \in Fds, NEW i \in Ids, Reconnect(k, f, i)
      PROVE  Still
  <2>1. link' = Struck([Nothing EXCEPT ![peer[f]] = Flushed(i)])
        /\ UNCHANGED <<status, poll_set, client_addresses, peer, listenq>>
    BY <1>2 DEF Reconnect, GoOn
  <2>2. QED BY <2>1, StruckStays DEF Still
<1>3. ASSUME NEW k \in DOMAIN poll_set, NEW f \in Fds, NEW i \in Ids, DieReconnecting(k, f, i)
      PROVE  Ends
  BY <1>3, DieEnds DEF DieReconnecting
<1>4. ASSUME NEW k \in DOMAIN poll_set, AcceptFails(k) \/ DieShuttingDown(k) \/ DieDistributing(k)
      PROVE  Ends
  BY <1>4, DieEnds DEF AcceptFails, DieShuttingDown, DieDistributing
<1>5. ASSUME NEW k \in DOMAIN poll_set, Shutdown(k) PROVE Ends
  BY <1>5 DEF Shutdown, CloseAllSockets, Ends
<1>6. ASSUME NEW k \in DOMAIN poll_set, ReadEnd(k) PROVE Still
  BY <1>6, <1>s DEF ReadEnd, GoOn, Still, subscriberVars
<1>7. ASSUME NEW k \in DOMAIN poll_set, Distribute(k) PROVE Still
  <2>1. /\ link' = Struck(Copies(Live(Head(udp)), Len(published) + 1))
        /\ UNCHANGED <<status, poll_set, client_addresses, peer, listenq>>
    BY <1>7 DEF Distribute, GoOn
  <2>2. QED BY <2>1, StruckStays DEF Still
<1>8. CASE Poll \/ (\E t \in Topics : Publish(t)) \/ ConsoleInput
  BY <1>8, <1>s DEF Poll, Publish, ConsoleInput, Still, subscriberVars
<1>9. ASSUME NEW s \in Sessions, SubscriberStep(s), UNCHANGED serverVars PROVE Still
  BY <1>9, SubscriberStepStays DEF Still, serverVars
<1>10. CASE UNCHANGED vars
  BY <1>10, <1>s DEF vars, subscriberVars, serverVars, Still
<1>11. ASSUME NEW k \in DOMAIN poll_set, NEW f \in Fds, HandleClient(k, f)
       PROVE  Ends \/ Still \/ Closes(k, f)
  BY <1>11, <1>1, <1>2, <1>3, ClosesByHandler DEF HandleClient
<1>12. ASSUME NEW k \in DOMAIN poll_set, Handle(k)
       PROVE  Ends \/ Still \/ \E f \in Fds : Accept(k, f) \/ Closes(k, f)
  BY <1>12, <1>4, <1>5, <1>6, <1>7, <1>11 DEF Handle
<1>13. CASE ServerStep
  BY <1>13, <1>8, <1>12 DEF ServerStep
<1>14. QED BY <1>8, <1>9, <1>10, <1>13 DEF Next

---------------------------------------------------------------------------
(* Each kind of step keeps the invariant *)

\* The entries behind the erased one move up by one.
LEMMA ErasedAt ==
    ASSUME poll_set \in Seq(AllFds), NEW k \in DOMAIN poll_set
    PROVE  /\ Len(Erased(k)) = Len(poll_set) - 1
           /\ \A j \in 1..(Len(poll_set) - 1) :
                 Erased(k)[j] = IF j < k THEN poll_set[j] ELSE poll_set[j + 1]
<1> DEFINE front == SubSeq(poll_set, 1, k - 1)
           back == SubSeq(poll_set, k + 1, Len(poll_set))
<1>1. k \in 1..Len(poll_set) /\ Len(poll_set) \in Nat
  OBVIOUS
<1>2. /\ front \in Seq(AllFds) /\ Len(front) = k - 1
      /\ \A j \in 1..(k - 1) : front[j] = poll_set[j]
  BY <1>1, SubSeqProperties
<1>3. /\ back \in Seq(AllFds) /\ Len(back) = Len(poll_set) - k
      /\ \A j \in 1..(Len(poll_set) - k) : back[j] = poll_set[j + k]
  <2>1. /\ back \in Seq(AllFds)
        /\ Len(back) = IF k + 1 <= Len(poll_set) THEN Len(poll_set) - (k + 1) + 1 ELSE 0
        /\ \A j \in 1..(Len(poll_set) - (k + 1) + 1) : back[j] = poll_set[k + 1 + j - 1]
    BY <1>1, SubSeqProperties
  <2> HIDE DEF back
  <2>2. QED BY <1>1, <2>1
<1>4. Erased(k) = front \o back
  BY DEF Erased
<1> HIDE DEF front, back
<1>5. /\ Len(front \o back) = Len(front) + Len(back)
      /\ \A j \in 1..(Len(front) + Len(back)) :
            (front \o back)[j] = IF j <= Len(front) THEN front[j] ELSE back[j - Len(front)]
  BY <1>2, <1>3, ConcatProperties
<1> DEFINE erased == front \o back
<1>6. /\ Len(erased) = Len(poll_set) - 1
      /\ \A j \in 1..(Len(poll_set) - 1) :
            erased[j] = IF j <= k - 1 THEN front[j] ELSE back[j - (k - 1)]
  <2>1. Len(front) + Len(back) = Len(poll_set) - 1
    BY <1>1, <1>2, <1>3
  <2>2. QED BY <1>2, <1>5, <2>1
<1> HIDE DEF erased
<1>7. ASSUME NEW j \in 1..(Len(poll_set) - 1)
      PROVE  erased[j] = IF j < k THEN poll_set[j] ELSE poll_set[j + 1]
  <2>1. CASE j < k
    BY <1>1, <1>2, <1>6, <2>1
  <2>2. CASE j >= k
    <3>1. erased[j] = back[j - (k - 1)]
      BY <1>1, <1>6, <2>2
    <3>2. j - (k - 1) \in 1..(Len(poll_set) - k)
      BY <1>1, <2>2
    <3>3. back[j - (k - 1)] = poll_set[j - (k - 1) + k]
      BY <1>3, <3>2
    <3>4. QED BY <1>1, <2>2, <3>1, <3>3
  <2>3. QED BY <1>1, <2>1, <2>2
<1>8. QED BY <1>4, <1>7, <1>6 DEF erased

LEMMA StillKeeps == TypeOK /\ PollInv /\ Still => PollInv'
<1> SUFFICES ASSUME TypeOK, PollInv, Still PROVE PollInv'
  OBVIOUS
<1>1. ASSUME NEW s \in Sessions, link[s] # "none" PROVE link'[s] # "none"
  BY <1>1 DEF Still, LinksStay
<1>2. Admission'
  <2>1. \A k \in 1..Len(listenq) : listenq[k] \in Sessions
    BY DEF TypeOK, SubscriberTypeOK
  <2>2. QED BY <1>1, <2>1 DEF PollInv, Admission, Still, TypeOK
<1>3. QED BY <1>2 DEF PollInv, Polled, Still

LEMMA EndsKeeps == Ends => PollInv'
  BY DEF Ends, PollInv, Admission

LEMMA ClosesKeeps ==
    ASSUME TypeOK, PollInv, NEW k \in DOMAIN poll_set, NEW f \in Fds, Closes(k, f)
    PROVE  PollInv'
<1>1. /\ \A g \in Fds : peer'[g] = IF g = f THEN 0 ELSE peer[g]
      /\ \A j \in 1..Len(listenq) : listenq[j] \in Sessions
      /\ \A s \in Sessions : link[s] # "none" => link'[s] # "none"
      /\ listenq' = listenq /\ status' = status
  BY DEF TypeOK, SubscriberTypeOK, Closes, LinksStay
<1>2. Admission'
  <2>1. Admission /\ \A g \in Fds : peer[g] # 0 => peer[g] \in Sessions
    BY DEF PollInv, TypeOK
  <2>2. \A g \in Fds : peer'[g] # 0 => peer'[g] = peer[g]
    BY <1>1
  <2>3. ASSUME NEW j \in 1..Len(listenq), NEW g \in Fds PROVE peer'[g] # listenq[j]
    <3>1. listenq[j] # 0
      BY <1>1, SubscribersAssumption DEF Sessions
    <3>2. QED BY <1>1, <2>1, <3>1 DEF Admission
  <2>4. \A j \in 1..Len(listenq) : link'[listenq[j]] # "none"
    BY <1>1, <2>1 DEF Admission
  <2>5. \A g, h \in Fds : peer'[g] # 0 /\ peer'[g] = peer'[h] => g = h
    BY <2>1, <2>2 DEF Admission
  <2>6. \A g \in Fds : peer'[g] # 0 => link'[peer'[g]] # "none"
    BY <1>1, <2>1, <2>2 DEF Admission
  <2>7. \A i, j \in 1..Len(listenq') : listenq'[i] = listenq'[j] => i = j
    BY <1>1, <2>1 DEF Admission
  <2>8. QED BY <1>1, <2>3, <2>4, <2>5, <2>6, <2>7 DEF Admission
<1>3. ASSUME status = "running" PROVE Polled'
  <2> DEFINE n == Len(poll_set)
  <2>1. Polled /\ n \in Nat /\ k \in 1..n
    BY <1>3 DEF PollInv, TypeOK
  <2>2. f > UDP /\ f \in Nat /\ poll_set[k] = f
    BY BrokerAssumption DEF Closes
  <2>3. k > 3
    BY <2>1, <2>2 DEF Polled, UDP, LISTEN, STDIN
  <2>4. /\ Len(poll_set') = n - 1
        /\ \A j \in 1..(n - 1) :
              poll_set'[j] = IF j < k THEN poll_set[j] ELSE poll_set[j + 1]
    BY ErasedAt DEF TypeOK, Closes
  <2>5. /\ Len(poll_set') >= 3
        /\ poll_set'[1] = UDP /\ poll_set'[2] = LISTEN /\ poll_set'[3] = STDIN
    BY <2>1, <2>3, <2>4 DEF Polled
  <2>6. \A i, j \in 1..Len(poll_set') : poll_set'[i] = poll_set'[j] => i = j
    <3> SUFFICES ASSUME NEW i \in 1..(n - 1), NEW j \in 1..(n - 1),
                        poll_set'[i] = poll_set'[j]
                 PROVE  i = j
      BY <2>4
    <3>1. \A a, b \in 1..n : poll_set[a] = poll_set[b] => a = b
      BY <2>1 DEF Polled
    <3>2. /\ poll_set'[i] = IF i < k THEN poll_set[i] ELSE poll_set[i + 1]
          /\ poll_set'[j] = IF j < k THEN poll_set[j] ELSE poll_set[j + 1]
      BY <2>4
    <3>3. i \in 1..n /\ i + 1 \in 1..n /\ j \in 1..n /\ j + 1 \in 1..n
      BY <2>1
    <3>4. CASE i < k /\ j < k
      BY <3>1, <3>2, <3>3, <3>4
    <3>5. CASE ~(i < k) /\ ~(j < k)
      <4>1. poll_set[i + 1] = poll_set[j + 1]
        BY <3>2, <3>5
      <4>2. i + 1 = j + 1
        BY <3>1, <3>3, <4>1
      <4>3. QED BY <4>2
    <3>6. CASE i < k /\ ~(j < k)
      <4>1. poll_set[i] = poll_set[j + 1]
        BY <3>2, <3>6
      <4>2. i = j + 1
        BY <3>1, <3>3, <4>1
      <4>3. QED BY <2>1, <3>6, <4>2
    <3>7. CASE ~(i < k) /\ j < k
      <4>1. poll_set[i + 1] = poll_set[j]
        BY <3>2, <3>7
      <4>2. i + 1 = j
        BY <3>1, <3>3, <4>1
      <4>3. QED BY <2>1, <3>7, <4>2
    <3>8. QED BY <2>1, <3>4, <3>5, <3>6, <3>7
  <2>7. client_addresses' = {poll_set'[j] : j \in 4..Len(poll_set')}
    <3>1. \A a, b \in 1..n : poll_set[a] = poll_set[b] => a = b
      BY <2>1 DEF Polled
    <3>2. client_addresses' = {poll_set[j] : j \in 4..n} \ {poll_set[k]}
      BY <2>1, <2>2 DEF Closes, Polled
    <3>3. ASSUME NEW j \in 4..n, j # k
          PROVE  \E i \in 4..(n - 1) : poll_set'[i] = poll_set[j]
      <4>1. CASE j < k
        BY <2>1, <2>4, <4>1
      <4>2. CASE j > k
        <5>1. j - 1 \in 4..(n - 1) /\ j - 1 >= k
          BY <2>1, <2>3, <4>2
        <5>2. poll_set'[j - 1] = poll_set[j - 1 + 1]
          BY <2>1, <2>4, <5>1
        <5>3. QED BY <2>1, <5>1, <5>2
      <4>3. QED BY <2>1, <3>3, <4>1, <4>2
    <3>4. ASSUME NEW i \in 4..(n - 1)
          PROVE  \E j \in 4..n : j # k /\ poll_set'[i] = poll_set[j]
      <4>1. CASE i < k
        BY <2>1, <2>4, <4>1
      <4>2. CASE i >= k
        <5>1. i + 1 \in 4..n /\ i + 1 # k
          BY <2>1, <4>2
        <5>2. poll_set'[i] = poll_set[i + 1]
          BY <2>1, <2>4, <4>2
        <5>3. QED BY <5>1, <5>2
      <4>3. QED BY <2>1, <4>1, <4>2
    <3>5. \A j \in 4..n : j # k => poll_set[j] # poll_set[k]
      BY <2>1, <3>1
    <3>6. 4..Len(poll_set') = 4..(n - 1)
      BY <2>4
    <3>7. ASSUME NEW g, g \in client_addresses'
          PROVE  \E i \in 4..(n - 1) : poll_set'[i] = g
      <4>1. PICK j \in 4..n : poll_set[j] = g /\ g # poll_set[k]
        BY <3>2, <3>7
      <4>2. QED BY <3>3, <4>1
    <3>8. ASSUME NEW i \in 4..(n - 1) PROVE poll_set'[i] \in client_addresses'
      <4>1. PICK j \in 4..n : j # k /\ poll_set'[i] = poll_set[j]
        BY <3>4
      <4>2. QED BY <3>2, <3>5, <4>1
    <3> HIDE DEF n
    <3>9. client_addresses' = {poll_set'[i] : i \in 4..(n - 1)}
      BY <3>7, <3>8
    <3>10. QED BY <3>6, <3>9
  <2>8. client_addresses' = {g \in Fds : peer'[g] # 0}
    BY <1>1, <2>1 DEF Polled, Closes
  <2>9. QED BY <2>5, <2>6, <2>7, <2>8 DEF Polled
<1>4. QED BY <1>1, <1>2, <1>3 DEF PollInv

LEMMA AcceptKeeps ==
    ASSUME TypeOK, PollInv, NEW k \in DOMAIN poll_set, NEW f \in Fds, Accept(k, f)
    PROVE  PollInv'
<1> DEFINE s == listenq[1]
<1>1. /\ listenq' = Tail(listenq) /\ listenq # <<>> /\ listenq \in Seq(Sessions)
      /\ peer' = [peer EXCEPT ![f] = Head(listenq)] /\ peer[f] = 0
      /\ client_addresses' = client_addresses \cup {f}
      /\ poll_set' = Append(poll_set, f)
      /\ link' = link /\ status' = status
  BY DEF TypeOK, SubscriberTypeOK, Accept, GoOn
<1>2. /\ Len(listenq) \in Nat /\ Len(listenq) >= 1
      /\ Head(listenq) = s /\ s \in Sessions
      /\ Len(listenq') = Len(listenq) - 1
      /\ \A j \in 1..(Len(listenq) - 1) : listenq'[j] = listenq[j + 1]
  BY <1>1, HeadTailProperties
<1>3. \A g \in Fds : peer'[g] = IF g = f THEN s ELSE peer[g]
  BY <1>1, <1>2 DEF TypeOK
<1> HIDE DEF s
<1>4. Admission'
  <2>1. /\ \A i, j \in 1..Len(listenq) : listenq[i] = listenq[j] => i = j
        /\ \A j \in 1..Len(listenq) :
              link[listenq[j]] # "none" /\ \A g \in Fds : peer[g] # listenq[j]
        /\ \A g, h \in Fds : peer[g] # 0 /\ peer[g] = peer[h] => g = h
        /\ \A g \in Fds : peer[g] # 0 => link[peer[g]] # "none"
    BY DEF PollInv, Admission
  <2>2. \A i, j \in 1..Len(listenq') : listenq'[i] = listenq'[j] => i = j
    <3> SUFFICES ASSUME NEW i \in 1..(Len(listenq) - 1), NEW j \in 1..(Len(listenq) - 1),
                        listenq[i + 1] = listenq[j + 1]
                 PROVE  i = j
      BY <1>2
    <3>1. i + 1 \in 1..Len(listenq) /\ j + 1 \in 1..Len(listenq)
      BY <1>2
    <3>2. i + 1 = j + 1
      BY <2>1, <3>1
    <3>3. QED BY <1>2, <3>2
  <2>3. ASSUME NEW j \in 1..(Len(listenq) - 1)
        PROVE  /\ link[listenq[j + 1]] # "none"
               /\ \A g \in Fds : peer'[g] # listenq[j + 1]
    <3>1. j + 1 \in 1..Len(listenq) /\ 1 \in 1..Len(listenq) /\ j + 1 # 1
      BY <1>2
    <3>2. listenq[j + 1] # s
      BY <2>1, <3>1 DEF s
    <3>3. QED BY <1>3, <2>1, <3>1, <3>2
  <2>4. link[s] # "none" /\ \A g \in Fds : peer[g] # s
    BY <1>2, <2>1 DEF s
  <2>5. \A g, h \in Fds : peer'[g] # 0 /\ peer'[g] = peer'[h] => g = h
    BY <1>3, <2>1, <2>4
  <2>6. \A g \in Fds : peer'[g] # 0 => link[peer'[g]] # "none"
    BY <1>3, <2>1, <2>4
  <2>7. \A j \in 1..Len(listenq') :
          link'[listenq'[j]] # "none" /\ \A g \in Fds : peer'[g] # listenq'[j]
    BY <1>1, <1>2, <2>3
  <2>8. QED BY <1>1, <2>2, <2>5, <2>6, <2>7 DEF Admission
<1>5. ASSUME status = "running" PROVE Polled'
  <2> DEFINE n == Len(poll_set)
  <2>1. Polled /\ n \in Nat
    BY <1>5 DEF PollInv, TypeOK
  <2>2. /\ Len(poll_set') = n + 1 /\ poll_set'[n + 1] = f
        /\ \A j \in 1..n : poll_set'[j] = poll_set[j]
    BY <1>1, AppendProperties DEF TypeOK, AllFds
  <2>3. f > UDP /\ f \in Nat
    BY BrokerAssumption
  <2>4. f \notin client_addresses
    BY <1>1, <2>1 DEF Polled
  <2>5. \A j \in 1..n : poll_set[j] # f
    <3> SUFFICES ASSUME NEW j \in 1..n PROVE poll_set[j] # f
      OBVIOUS
    <3>1. CASE j \in 4..n
      BY <2>1, <2>4, <3>1 DEF Polled
    <3>2. CASE j \in 1..3
      BY <2>1, <2>3, <3>2 DEF Polled, UDP, LISTEN, STDIN
    <3>3. QED BY <2>1, <3>1, <3>2
  <2>6. /\ Len(poll_set') >= 3
        /\ poll_set'[1] = UDP /\ poll_set'[2] = LISTEN /\ poll_set'[3] = STDIN
    BY <2>1, <2>2 DEF Polled
  <2>7. \A i, j \in 1..Len(poll_set') : poll_set'[i] = poll_set'[j] => i = j
    <3>1. \A i, j \in 1..n : poll_set[i] = poll_set[j] => i = j
      BY <2>1 DEF Polled
    <3>2. QED BY <2>1, <2>2, <2>5, <3>1
  <2>8. client_addresses' = {poll_set'[j] : j \in 4..Len(poll_set')}
    <3>1. client_addresses' = {poll_set[j] : j \in 4..n} \cup {f}
      BY <1>1, <2>1 DEF Polled
    <3>2. n >= 3
      BY <2>1 DEF Polled
    <3>3. 4..Len(poll_set') = 4..n \cup {n + 1}
      BY <2>1, <2>2, <3>2
    <3>4. \A j \in 4..n : poll_set'[j] = poll_set[j]
      BY <2>1, <2>2
    <3> HIDE DEF n
    <3>5. QED BY <2>2, <3>1, <3>3, <3>4
  <2>9. client_addresses' = {g \in Fds : peer'[g] # 0}
    BY <1>1, <1>2, <1>3, <2>1, SubscribersAssumption DEF Polled, Sessions
  <2>10. QED BY <2>6, <2>7, <2>8, <2>9 DEF Polled
<1>6. QED BY <1>1, <1>4, <1>5 DEF PollInv

LEMMA StartKeeps ==
    ASSUME TypeOK, PollInv, NEW s \in Sessions, NEW i \in Ids,
           Start(s, i), UNCHANGED serverVars
    PROVE  PollInv'
<1>1. /\ listenq' = Append(listenq, s) /\ listenq \in Seq(Sessions)
      /\ link' = [link EXCEPT ![s] = "connecting"] /\ link[s] = "none"
      /\ UNCHANGED <<status, poll_set, client_addresses, peer>>
  BY DEF TypeOK, SubscriberTypeOK, Start, serverVars
<1>2. /\ Len(listenq') = Len(listenq) + 1 /\ Len(listenq) \in Nat
      /\ listenq'[Len(listenq) + 1] = s
      /\ \A j \in 1..Len(listenq) : listenq'[j] = listenq[j] /\ listenq[j] \in Sessions
  BY <1>1, AppendProperties
<1>3. \A r \in Sessions : link'[r] = IF r = s THEN "connecting" ELSE link[r]
  BY <1>1 DEF TypeOK, SubscriberTypeOK
<1>4. /\ \A j, k \in 1..Len(listenq) : listenq[j] = listenq[k] => j = k
      /\ \A k \in 1..Len(listenq) :
            link[listenq[k]] # "none" /\ \A f \in Fds : peer[f] # listenq[k]
      /\ \A f, g \in Fds : peer[f] # 0 /\ peer[f] = peer[g] => f = g
      /\ \A f \in Fds : peer[f] # 0 => link[peer[f]] # "none"
  BY DEF PollInv, Admission
<1>5. \A j, k \in 1..Len(listenq') : listenq'[j] = listenq'[k] => j = k
  BY <1>1, <1>2, <1>4
<1>6. \A k \in 1..Len(listenq') :
        link'[listenq'[k]] # "none" /\ \A f \in Fds : peer'[f] # listenq'[k]
  <2> SUFFICES ASSUME NEW k \in 1..Len(listenq')
               PROVE  link'[listenq'[k]] # "none" /\ \A f \in Fds : peer'[f] # listenq'[k]
    OBVIOUS
  <2>1. CASE k \in 1..Len(listenq)
    BY <1>1, <1>2, <1>3, <1>4, <2>1
  <2>2. CASE k = Len(listenq) + 1
    <3>1. \A f \in Fds : peer[f] # s
      BY <1>1, <1>4, SubscribersAssumption DEF TypeOK, Sessions
    <3>2. QED BY <1>1, <1>2, <1>3, <2>2, <3>1
  <2>3. QED BY <1>2, <2>1, <2>2
<1>7. \A f \in Fds : peer'[f] # 0 => link'[peer'[f]] # "none"
  BY <1>1, <1>3, <1>4 DEF TypeOK
<1>8. Admission'
  BY <1>1, <1>4, <1>5, <1>6, <1>7 DEF Admission
<1>9. QED BY <1>1, <1>8 DEF PollInv, Polled

---------------------------------------------------------------------------

LEMMA PollInvariant == Spec => []PollInv
<1>1. Init => PollInv
  <2> SUFFICES ASSUME Init PROVE PollInv
    OBVIOUS
  <2>1. Admission
    BY DEF Init, SubscriberInit, Admission
  <2>2. Polled
    <3>1. Len(poll_set) = 3 /\ poll_set[1] = UDP /\ poll_set[2] = LISTEN /\ poll_set[3] = STDIN
      BY DEF Init
    <3>2. {poll_set[k] : k \in 4..Len(poll_set)} = {}
      BY <3>1
    <3>3. \A j, k \in 1..Len(poll_set) : poll_set[j] = poll_set[k] => j = k
      BY <3>1 DEF UDP, LISTEN, STDIN
    <3>4. client_addresses = {} /\ \A f \in Fds : peer[f] = 0
      BY DEF Init
    <3>5. QED BY <3>1, <3>2, <3>3, <3>4 DEF Polled
  <2>3. QED BY <2>1, <2>2 DEF PollInv
<1>2. TypeOK /\ PollInv /\ [Next]_vars => PollInv'
  BY PollSteps, StillKeeps, EndsKeeps, ClosesKeeps, AcceptKeeps, StartKeeps
<1>3. QED BY <1>1, <1>2, TypeCorrect, PTL DEF Spec

\* While the server runs, its poll set is its own three descriptors followed
\* by each open client connection exactly once, however many connections are
\* accepted, refused and lost and whatever descriptor numbers are reused: the
\* erasures in the middle of a round never leave a closed descriptor behind.
THEOREM PollSetStaysExact == Spec => []PollSetExact
<1>1. TypeOK /\ PollInv => PollSetExact
  <2> SUFFICES ASSUME TypeOK, PollInv, status = "running" PROVE PollSetExact
    BY DEF PollSetExact
  <2>1. Polled /\ Admission /\ Len(poll_set) \in Nat /\ DOMAIN poll_set = 1..Len(poll_set)
    BY DEF PollInv, TypeOK
  <2>2. SubSeq(poll_set, 1, 3) = <<UDP, LISTEN, STDIN>>
    <3>1. \A j \in 1..3 : poll_set[j] \in AllFds
      BY <2>1 DEF Polled, AllFds
    <3>2. /\ SubSeq(poll_set, 1, 3) \in Seq(AllFds) /\ Len(SubSeq(poll_set, 1, 3)) = 3
          /\ \A j \in 1..3 : SubSeq(poll_set, 1, 3)[j] = poll_set[1 + j - 1]
      <4>1. 1 \in Int /\ 3 \in Int /\ 1 <= 3 /\ 3 - 1 + 1 = 3
        OBVIOUS
      <4>2. QED BY <3>1, <4>1, SubSeqProperties
    <3>3. /\ SubSeq(poll_set, 1, 3)[1] = UDP
          /\ SubSeq(poll_set, 1, 3)[2] = LISTEN
          /\ SubSeq(poll_set, 1, 3)[3] = STDIN
      BY <2>1, <3>2 DEF Polled
    <3>4. Len(<<UDP, LISTEN, STDIN>>) = 3 /\ <<UDP, LISTEN, STDIN>> \in Seq(AllFds)
      BY DEF AllFds
    <3> DEFINE own == <<UDP, LISTEN, STDIN>>
               front == SubSeq(poll_set, 1, 3)
    <3>5. \A j \in 1..Len(front) : front[j] = own[j]
      BY <3>2, <3>3
    <3>6. front \in Seq(AllFds) /\ own \in Seq(AllFds) /\ Len(front) = Len(own)
      BY <3>2, <3>4
    <3> HIDE DEF own, front
    <3>7. front = own
      BY <3>5, <3>6, SeqEqual
    <3>8. QED BY <3>7 DEF own, front
  <2>3. \A f, g \in client_addresses : peer[f] = peer[g] => f = g
    BY <2>1 DEF Polled, Admission
  <2>4. QED BY <2>1, <2>2, <2>3 DEF PollSetExact, Polled
<1>2. QED BY <1>1, PollInvariant, TypeCorrect, PTL

---------------------------------------------------------------------------
(* The round over the poll set *)

\* A step takes nothing from descriptor f that poll would report.
Undisturbed(f) ==
    /\ Ready(f) # "none" => Ready(f)' # "none"
    /\ Ready(f) = "hup" => Ready(f)' = "hup"

\* What a step does to a connection that it does not read from.
Stays(s) ==
    /\ link[s] \in {"fin", "finrst"} => link'[s] \in {"fin", "finrst", "reset"}
    /\ link[s] = "reset" => link'[s] = "reset"
    /\ inbox[s] # <<>> => inbox'[s] # <<>>

\* Descriptors of clients are none of those that main opened.
LEMMA FdsApart ==
    ASSUME NEW f \in Fds
    PROVE  f \notin {UDP, LISTEN, STDIN}
  BY BrokerAssumption DEF UDP, LISTEN, STDIN

LEMMA ReadyKept ==
    ASSUME NEW f \in AllFds,
           f = UDP /\ udp # <<>> => udp' # <<>>,
           f = LISTEN /\ listenq # <<>> => listenq' # <<>>,
           f = STDIN => console' = console,
           f \in Fds /\ peer[f] # 0 => peer'[f] = peer[f] /\ Stays(peer[f])
    PROVE  Undisturbed(f)
<1>1. CASE f \in Fds
  <2>1. f \notin {UDP, LISTEN, STDIN}
    BY <1>1, FdsApart
  <2>2. CASE peer[f] = 0
    BY <2>1, <2>2 DEF Ready, Undisturbed
  <2>3. CASE peer[f] # 0
    <3> DEFINE s == peer[f]
    <3>1. /\ Ready(f) = ClientReady(s)
          /\ Ready(f)' = CASE link'[s] = "reset" -> "hup"
                           [] link'[s] \in {"fin", "finrst"} -> "in"
                           [] OTHER -> IF inbox'[s] = <<>> THEN "none" ELSE "in"
      BY <1>1, <2>1, <2>3 DEF Ready, ClientReady
    <3>2. Stays(s)
      BY <1>1, <2>3
    <3>3. QED BY <3>1, <3>2 DEF ClientReady, Stays, Undisturbed
  <2>4. QED BY <2>2, <2>3
<1>2. CASE f \in {UDP, LISTEN, STDIN}
  BY <1>2 DEF Ready, Undisturbed, UDP, LISTEN, STDIN
<1>3. QED BY <1>1, <1>2 DEF AllFds

---------------------------------------------------------------------------
(* What a step leaves of a connection *)

LEMMA AppendNonempty ==
    ASSUME NEW S, NEW q \in Seq(S), NEW x \in S
    PROVE  Append(q, x) # <<>>
  BY AppendProperties

LEMMA SubscriberStays ==
    ASSUME TypeOK, NEW s \in Sessions, SubscriberStep(s), NEW r \in Sessions
    PROVE  Stays(r)
<1> USE DEF TypeOK, SubscriberTypeOK, Stays
<1>1. ASSUME NEW q \in Requests, inbox' = [inbox EXCEPT ![s] = Append(@, q)]
      PROVE  inbox[r] # <<>> => inbox'[r] # <<>>
  <2>1. inbox'[r] = IF r = s THEN Append(inbox[s], q) ELSE inbox[r]
    BY <1>1
  <2>2. Append(inbox[s], q) # <<>>
    <3>1. inbox[s] \in Seq(Requests)
      OBVIOUS
    <3>2. QED BY <3>1, AppendNonempty
  <2>3. QED BY <2>1, <2>2
<1>2. ASSUME Hangup(s), link[s] \in Alive PROVE Stays(r)
  BY <1>2 DEF Hangup, HungUp, Alive
<1>3. CASE SendConnect(s)
  BY <1>3, <1>1 DEF SendConnect, Requests
<1>4. ASSUME NEW q \in Menu, Command(s, q) PROVE Stays(r)
  BY <1>4, <1>1, SubscribersAssumption DEF Command, Requests
<1>5. CASE Receive(s)
  BY <1>5 DEF Receive
<1>6. CASE TypeExit(s)
  BY <1>6, <1>1 DEF TypeExit, Requests
<1>7. CASE Close(s) \/ Kill(s) \/ SeeEnd(s)
  BY <1>7, <1>2 DEF Close, Kill, SeeEnd, Alive
<1>8. CASE RstArrives(s)
  BY <1>8 DEF RstArrives
<1>9. QED BY <1>3, <1>4, <1>5, <1>6, <1>7, <1>8 DEF SubscriberStep

LEMMA StruckLeaves ==
    ASSUME TypeOK, NEW q, link' = Struck(q), NEW r \in Sessions,
           inbox[r] # <<>> => inbox'[r] # <<>>
    PROVE  Stays(r)
  BY DEF TypeOK, SubscriberTypeOK, Stays, Struck

\* Closing one connection leaves the others alone.
LEMMA CloseLeaves ==
    ASSUME TypeOK, Admission, NEW f \in Fds, peer[f] # 0, CloseConnection(f),
           NEW g \in Fds, g # f, peer[g] # 0
    PROVE  peer'[g] = peer[g] /\ Stays(peer[g])
<1>1. peer[g] \in Sessions /\ peer[f] \in Sessions /\ peer[g] # peer[f]
  BY DEF TypeOK, Admission
<1>2. link'[peer[g]] = link[peer[g]] /\ inbox'[peer[g]] = inbox[peer[g]] /\ peer'[g] = peer[g]
  BY <1>1 DEF TypeOK, SubscriberTypeOK, CloseConnection, ServerClosed
<1>3. QED BY <1>2 DEF Stays

---------------------------------------------------------------------------
(* What a handler does to the round *)

\* The round continues behind the entry it served, which may be gone by then,
\* and which may have brought a new one.
GoesOn(k) ==
    \/ GoOn(poll_set, k + 1)
    \/ \E f \in Fds :
          poll_set[k] = LISTEN /\ peer[f] = 0 /\ GoOn(Append(poll_set, f), k + 1)
    \/ poll_set[k] \in Fds /\ (GoOn(Erased(k), k) \/ GoOn(Erased(k), k + 1))

\* A handler serves the first entry that has an event, and leaves the others
\* the events they have.
Serves(k) ==
    /\ \A j \in idx..(k - 1) : revents[poll_set[j]] = "none"
    /\ GoesOn(k)
    /\ \A g \in AllFds \ {poll_set[k]} : Undisturbed(g)

LEMMA OwnServes ==
    ASSUME TypeOK, NEW k \in DOMAIN poll_set, Distribute(k) \/ ReadEnd(k)
    PROVE  Serves(k)
<1>1. /\ \A j \in idx..(k - 1) : revents[poll_set[j]] = "none"
      /\ GoOn(poll_set, k + 1)
  BY DEF Distribute, ReceiveDatagram, ReadEnd, ReadConsole, At
<1>2. /\ console' = console /\ listenq' = listenq /\ peer' = peer /\ inbox' = inbox
      /\ poll_set[k] # UDP => udp' = udp
      /\ \A s \in Sessions : Stays(s)
  <2>1. CASE Distribute(k)
    <3>1. /\ link' = Struck(Copies(Live(Head(udp)), Len(published) + 1))
          /\ inbox' = inbox /\ poll_set[k] = UDP
          /\ console' = console /\ listenq' = listenq /\ peer' = peer
      BY <2>1 DEF Distribute, ReceiveDatagram
    <3>2. QED BY <3>1, StruckLeaves
  <2>2. CASE ReadEnd(k)
    BY <2>2 DEF ReadEnd, subscriberVars, Stays
  <2>3. QED BY <2>1, <2>2
<1>3. ASSUME NEW g \in AllFds \ {poll_set[k]} PROVE Undisturbed(g)
  <2>1. g \in Fds /\ peer[g] # 0 => peer'[g] = peer[g] /\ Stays(peer[g])
    BY <1>2 DEF TypeOK
  <2>2. QED BY <1>2, <2>1, ReadyKept
<1>4. QED BY <1>1, <1>3 DEF Serves, GoesOn

LEMMA AcceptServes ==
    ASSUME TypeOK, NEW k \in DOMAIN poll_set, NEW f \in Fds, Accept(k, f)
    PROVE  Serves(k)
<1>1. /\ \A j \in idx..(k - 1) : revents[poll_set[j]] = "none"
      /\ GoOn(Append(poll_set, f), k + 1)
      /\ poll_set[k] = LISTEN /\ peer[f] = 0
      /\ peer' = [peer EXCEPT ![f] = Head(listenq)]
      /\ UNCHANGED <<console, udp, link, inbox>>
  BY DEF Accept, At
<1>2. ASSUME NEW g \in AllFds \ {poll_set[k]} PROVE Undisturbed(g)
  <2>1. g \in Fds /\ peer[g] # 0 => peer'[g] = peer[g] /\ Stays(peer[g])
    BY <1>1 DEF TypeOK, Stays
  <2>2. QED BY <1>1, <2>1, ReadyKept
<1>3. QED BY <1>1, <1>2 DEF Serves, GoesOn

\* The requests that leave the connection open.
LEMMA RequestServes ==
    ASSUME TypeOK, Admission, NEW k \in DOMAIN poll_set, NEW f \in Fds, NEW i \in Ids,
           \/ Register(k, f, i)
           \/ Reconnect(k, f, i)
           \/ HandleSubscribe(k, f, i)
           \/ HandleUnsubscribe(k, f, i)
    PROVE  Serves(k)
<1>1. /\ \A j \in idx..(k - 1) : revents[poll_set[j]] = "none"
      /\ GoOn(poll_set, k + 1)
      /\ poll_set[k] = f /\ peer[f] # 0 /\ TakeRequest(f)
      /\ UNCHANGED <<console, udp, listenq, peer>>
      /\ link' = link \/ \E q : link' = Struck(q)
  BY DEF Register, Reconnect, HandleSubscribe, HandleUnsubscribe, Request, At
<1>2. ASSUME NEW g \in Fds, g # f, peer[g] # 0 PROVE Stays(peer[g])
  <2>1. peer[g] \in Sessions /\ inbox'[peer[g]] = inbox[peer[g]]
    BY <1>1, <1>2 DEF TypeOK, SubscriberTypeOK, Admission, TakeRequest
  <2>2. QED BY <1>1, <2>1, StruckLeaves DEF Stays
<1>3. ASSUME NEW g \in AllFds \ {poll_set[k]} PROVE Undisturbed(g)
  BY <1>1, <1>2, ReadyKept
<1>4. QED BY <1>1, <1>3 DEF Serves, GoesOn

\* Those that close it.
LEMMA ClosingServes ==
    ASSUME TypeOK, Admission, NEW k \in DOMAIN poll_set, NEW f \in Fds, peer[f] # 0,
           \/ \E i \in Ids : Reject(k, f, i) \/ HandleExit(k, f, i)
           \/ Disconnect(k, f)
    PROVE  Serves(k)
<1>1. /\ \A j \in idx..(k - 1) : revents[poll_set[j]] = "none"
      /\ GoOn(Erased(k), k) \/ GoOn(Erased(k), k + 1)
      /\ poll_set[k] = f /\ CloseConnection(f)
      /\ UNCHANGED <<console, udp, listenq>>
  BY DEF Reject, HandleExit, Disconnect, Request, At
<1>2. ASSUME NEW g \in AllFds \ {poll_set[k]} PROVE Undisturbed(g)
  <2>1. g \in Fds /\ peer[g] # 0 => peer'[g] = peer[g] /\ Stays(peer[g])
    BY <1>1, CloseLeaves
  <2>2. QED BY <1>1, <2>1, ReadyKept
<1>3. QED BY <1>1, <1>2 DEF Serves, GoesOn

LEMMA HandlerServes ==
    ASSUME TypeOK, Admission, EventsHold, NEW k \in DOMAIN poll_set,
           Due(k), Handle(k), status' = "running"
    PROVE  Serves(k)
<1>1. ASSUME NEW f \in Fds, poll_set[k] = f PROVE peer[f] # 0
  <2>1. f \in Pending
    BY <1>1 DEF Due, Pending, AllFds
  <2>2. QED BY <2>1, FdsApart DEF EventsHold, Ready
<1>2. ASSUME NEW f \in Fds, HandleClient(k, f) PROVE Serves(k)
  <2>1. poll_set[k] = f
    BY <1>2 DEF HandleClient, Register, Reject, Reconnect, DieReconnecting,
       HandleSubscribe, HandleUnsubscribe, HandleExit, Disconnect, Request
  <2>2. ASSUME NEW i \in Ids PROVE ~DieReconnecting(k, f, i)
    BY DEF DieReconnecting, Die
  <2>3. QED BY <1>1, <1>2, <2>1, <2>2, RequestServes, ClosingServes DEF HandleClient
<1>3. ~(AcceptFails(k) \/ DieDistributing(k) \/ Shutdown(k) \/ DieShuttingDown(k))
  BY DEF AcceptFails, DieDistributing, Shutdown, DieShuttingDown, Die
<1>4. QED BY <1>2, <1>3, OwnServes, AcceptServes DEF Handle

\* Handlers run in the server only.
LEMMA HandlerRuns ==
    ASSUME NEW k, Handle(k)
    PROVE  status = "running"
<1>1. ASSUME NEW f \in Fds, HandleClient(k, f) PROVE status = "running"
  BY <1>1 DEF HandleClient, Register, Reject, Reconnect, DieReconnecting, HandleSubscribe,
     HandleUnsubscribe, HandleExit, Disconnect, Request, At
<1>2. CASE \E f \in Fds : Accept(k, f)
  BY <1>2 DEF Accept, At
<1>3. QED
  BY <1>1, <1>2
  DEF Handle, AcceptFails, Distribute, DieDistributing, ReceiveDatagram, ReadEnd, Shutdown,
      DieShuttingDown, ReadConsole, At

---------------------------------------------------------------------------
(* Events of the entries ahead *)

\* The entries that are still in the poll set after entry k was served, with
\* where they are then.
LEMMA EntriesAhead ==
    ASSUME TypeOK, Polled, NEW k \in DOMAIN poll_set,
           NEW j \in DOMAIN poll_set, j # k, NEW ps, NEW n,
           \/ ps = poll_set /\ n = j
           \/ (\E f \in Fds : ps = Append(poll_set, f)) /\ n = j
           \/ ps = Erased(k) /\ n = IF j < k THEN j ELSE j - 1
    PROVE  n \in 1..Len(ps) /\ ps[n] = poll_set[j]
<1>1. /\ poll_set \in Seq(AllFds) /\ Len(poll_set) \in Nat
      /\ k \in 1..Len(poll_set) /\ j \in 1..Len(poll_set)
  BY DEF TypeOK
<1>2. CASE ps = poll_set /\ n = j
  BY <1>1, <1>2
<1>3. ASSUME NEW f \in Fds, ps = Append(poll_set, f), n = j
      PROVE  n \in 1..Len(ps) /\ ps[n] = poll_set[j]
  BY <1>1, <1>3, AppendProperties DEF AllFds
<1>4. CASE ps = Erased(k) /\ n = IF j < k THEN j ELSE j - 1
  <2>1. /\ Len(Erased(k)) = Len(poll_set) - 1
        /\ \A l \in 1..(Len(poll_set) - 1) :
              Erased(k)[l] = IF l < k THEN poll_set[l] ELSE poll_set[l + 1]
    BY <1>1, ErasedAt
  <2>2. CASE j < k
    BY <1>1, <1>4, <2>1, <2>2
  <2>3. CASE j > k
    <3>1. n = j - 1 /\ n \in 1..(Len(poll_set) - 1) /\ ~(n < k) /\ n + 1 = j
      BY <1>1, <1>4, <2>3
    <3>2. QED BY <1>4, <2>1, <3>1
  <2>4. QED BY <1>1, <2>2, <2>3
<1>5. QED BY <1>2, <1>3, <1>4

\* The descriptor of entry k is found no more from there on.
LEMMA NotAhead ==
    ASSUME TypeOK, Polled, NEW k \in DOMAIN poll_set, NEW ps, NEW n,
           \/ ps = poll_set /\ n = k + 1
           \/ (\E f \in Fds : poll_set[k] = LISTEN /\ ps = Append(poll_set, f)) /\ n = k + 1
           \/ ps = Erased(k) /\ n \in {k, k + 1},
           NEW m \in n..Len(ps)
    PROVE  ps[m] # poll_set[k]
<1>1. /\ poll_set \in Seq(AllFds) /\ Len(poll_set) \in Nat /\ k \in 1..Len(poll_set)
      /\ \A i, j \in 1..Len(poll_set) : poll_set[i] = poll_set[j] => i = j
  BY DEF TypeOK, Polled
<1>2. CASE ps = poll_set /\ n = k + 1
  BY <1>1, <1>2
<1>3. ASSUME NEW f \in Fds, poll_set[k] = LISTEN, ps = Append(poll_set, f), n = k + 1
      PROVE  ps[m] # poll_set[k]
  <2>1. /\ Len(ps) = Len(poll_set) + 1 /\ ps[Len(poll_set) + 1] = f
        /\ \A l \in 1..Len(poll_set) : ps[l] = poll_set[l]
    BY <1>1, <1>3, AppendProperties DEF AllFds
  <2>2. CASE m = Len(poll_set) + 1
    BY <1>3, <2>1, <2>2, FdsApart
  <2>3. CASE m \in 1..Len(poll_set)
    BY <1>1, <1>3, <2>1, <2>3
  <2>4. QED BY <1>1, <1>3, <2>1, <2>2, <2>3
<1>4. CASE ps = Erased(k) /\ n \in {k, k + 1}
  <2>1. /\ Len(Erased(k)) = Len(poll_set) - 1
        /\ \A l \in 1..(Len(poll_set) - 1) :
              Erased(k)[l] = IF l < k THEN poll_set[l] ELSE poll_set[l + 1]
    BY <1>1, ErasedAt
  <2>2. m \in 1..(Len(poll_set) - 1) /\ ~(m < k) /\ m + 1 \in 1..Len(poll_set) /\ m + 1 # k
    BY <1>1, <1>4, <2>1
  <2>3. ps[m] = poll_set[m + 1]
    BY <1>4, <2>1, <2>2
  <2>4. QED BY <1>1, <2>2, <2>3
<1>5. QED BY <1>2, <1>3, <1>4

\* The ways to go on, as the poll set and the position the round has then.
Forms(k, ps, n) ==
    \/ ps = poll_set /\ n = k + 1
    \/ (\E f \in Fds : poll_set[k] = LISTEN /\ ps = Append(poll_set, f)) /\ n = k + 1
    \/ ps = Erased(k) /\ n \in {k, k + 1}

LEMMA GoOnPending ==
    ASSUME NEW ps, NEW n, GoOn(ps, n)
    PROVE  /\ Pending' = {f \in Pending : \E m \in n..Len(ps) : ps[m] = f}
           /\ \A f \in Pending' : revents'[f] = revents[f]
           /\ Pending' # {} => idx' = n
           /\ poll_set' = ps
<1> DEFINE due == {f \in AllFds : revents[f] # "none" /\ \E j \in n..Len(ps) : ps[j] = f}
<1>1. /\ poll_set' = ps
      /\ revents' = [f \in AllFds |-> IF f \in due THEN revents[f] ELSE "none"]
      /\ idx' = IF due = {} THEN 0 ELSE n
  BY DEF GoOn
<1>2. Pending' = due /\ \A f \in due : revents'[f] = revents[f]
  BY <1>1 DEF Pending
<1>3. due = {f \in Pending : \E m \in n..Len(ps) : ps[m] = f}
  BY DEF Pending
<1> HIDE DEF due
<1>4. QED BY <1>1, <1>2, <1>3

\* A pending event other than that of the entry served is one of an entry
\* behind it.
LEMMA OthersBehind ==
    ASSUME TypeOK, EventsHold, NEW k \in DOMAIN poll_set,
           \A j \in idx..(k - 1) : revents[poll_set[j]] = "none",
           NEW f \in Pending, f # poll_set[k]
    PROVE  \E j \in DOMAIN poll_set : j > k /\ poll_set[j] = f
<1>1. PICK j \in 1..Len(poll_set) : idx \in 1..j /\ poll_set[j] = f
  BY DEF EventsHold
<1>2. k \in Nat /\ j \in Nat /\ idx \in Nat /\ Len(poll_set) \in Nat
  BY DEF TypeOK
<1>3. revents[poll_set[j]] # "none"
  BY <1>1 DEF Pending
<1>4. ~(j \in idx..(k - 1)) /\ j # k
  BY <1>1, <1>3
<1>5. j > k
  BY <1>1, <1>2, <1>4
<1>6. QED BY <1>1, <1>5

LEMMA ServesKeeps ==
    ASSUME TypeOK, Polled, EventsHold, NEW k \in DOMAIN poll_set, Due(k), Serves(k)
    PROVE  LET others == Pending \ {poll_set[k]}
           IN  /\ EventsHold'
               /\ Pending' \subseteq others
               /\ \A f \in others : Ready(f)' # "none" /\ f \in ToSet(poll_set')
               /\ \A f, g \in others \ Pending' : f = g
               /\ others # Pending' => poll_set[k] \notin ToSet(poll_set')
<1> DEFINE others == Pending \ {poll_set[k]}
<1>1. PICK ps, n : Forms(k, ps, n) /\ GoOn(ps, n)
  BY DEF Serves, GoesOn, Forms
<1>2. /\ Pending' = {f \in Pending : \E m \in n..Len(ps) : ps[m] = f}
      /\ \A f \in Pending' : revents'[f] = revents[f]
      /\ Pending' # {} => idx' = n
      /\ poll_set' = ps
  BY <1>1, GoOnPending
<1>3. \A m \in n..Len(ps) : ps[m] # poll_set[k]
  BY <1>1, NotAhead DEF Forms
<1>4. k \in Nat \ {0} /\ n \in {k, k + 1} /\ Len(poll_set) \in Nat
  BY <1>1 DEF Forms, TypeOK
<1>5. Pending' \subseteq others
  BY <1>2, <1>3
<1>6. \A f \in others : Undisturbed(f) /\ Ready(f) # "none" /\ (revents[f] = "hup" => Ready(f) = "hup")
  BY DEF Serves, EventsHold, Pending
<1>7. EventsHold'
  <2> SUFFICES ASSUME NEW f \in Pending'
               PROVE  /\ \E m \in 1..Len(ps) : idx' \in 1..m /\ ps[m] = f
                      /\ Ready(f)' # "none"
                      /\ revents'[f] = "hup" => Ready(f)' = "hup"
    BY <1>2 DEF EventsHold
  <2>1. PICK m \in n..Len(ps) : ps[m] = f
    BY <1>2
  <2>2. idx' = n
    BY <1>2
  <2>3. m \in 1..Len(ps) /\ n \in 1..m
    BY <1>4, <2>1
  <2>4. QED BY <1>2, <1>5, <1>6, <2>1, <2>2, <2>3 DEF Undisturbed
<1>8. ASSUME NEW f \in others
      PROVE  \E j \in DOMAIN poll_set, l \in 1..Len(ps) :
                /\ j > k /\ poll_set[j] = f /\ ps[l] = f
                /\ l = IF ps = Erased(k) THEN j - 1 ELSE j
  <2>1. PICK j \in DOMAIN poll_set : j > k /\ poll_set[j] = f
    BY OthersBehind DEF Serves
  <2> DEFINE l == IF ps = Erased(k) THEN j - 1 ELSE j
  <2>2. j # k /\ ~(j < k) /\ j \in Nat
    BY <1>4, <2>1
  <2>3. \/ ps = poll_set /\ l = j
        \/ (\E g \in Fds : ps = Append(poll_set, g)) /\ l = j
        \/ ps = Erased(k) /\ l = IF j < k THEN j ELSE j - 1
    BY <1>1, <2>2 DEF Forms
  <2>4. l \in 1..Len(ps) /\ ps[l] = f
    BY <2>1, <2>2, <2>3, EntriesAhead
  <2>5. QED BY <2>1, <2>4
<1>9. \A f \in others : Ready(f)' # "none" /\ f \in ToSet(poll_set')
  <2>1. \A f \in others : Ready(f)' # "none"
    BY <1>6 DEF Undisturbed
  <2>2. ASSUME NEW f \in others PROVE f \in ToSet(ps)
    <3>1. PICK l \in 1..Len(ps) : ps[l] = f
      BY <1>8, <2>2
    <3>2. ps \in Seq(AllFds)
      <4>1. poll_set \in Seq(AllFds)
        BY DEF TypeOK
      <4>2. ASSUME NEW g \in Fds PROVE Append(poll_set, g) \in Seq(AllFds)
        BY <4>1, AppendProperties DEF AllFds
      <4>3. QED BY <1>1, <4>1, <4>2, ErasedType DEF Forms
    <3>3. QED BY <3>1, <3>2 DEF ToSet
  <2>3. QED BY <1>2, <2>1, <2>2
<1>10. ASSUME NEW f \in others, f \notin Pending'
       PROVE  ps = Erased(k) /\ f = poll_set[k + 1]
  <2>1. PICK j \in DOMAIN poll_set, l \in 1..Len(ps) :
           /\ j > k /\ poll_set[j] = f /\ ps[l] = f
           /\ l = IF ps = Erased(k) THEN j - 1 ELSE j
    BY <1>8, <1>10
  <2>2. ~(l \in n..Len(ps))
    BY <1>2, <1>10, <2>1
  <2>3. j \in Nat /\ l \in Nat /\ l < n
    BY <1>4, <2>1, <2>2
  <2>4. l = j - 1 /\ ps = Erased(k)
    BY <1>4, <2>1, <2>3
  <2>5. j = k + 1
    BY <1>4, <2>1, <2>3, <2>4
  <2>6. QED BY <2>1, <2>4, <2>5
<1>11. \A f, g \in others \ Pending' : f = g
  BY <1>10
<1>12. ASSUME others # Pending' PROVE poll_set[k] \notin ToSet(poll_set')
  <2>1. ps = Erased(k)
    BY <1>5, <1>10, <1>12
  <2>2. /\ Len(Erased(k)) = Len(poll_set) - 1
        /\ \A l \in 1..(Len(poll_set) - 1) :
              Erased(k)[l] = IF l < k THEN poll_set[l] ELSE poll_set[l + 1]
    BY ErasedAt DEF TypeOK
  <2>3. \A i, j \in 1..Len(poll_set) : poll_set[i] = poll_set[j] => i = j
    BY DEF Polled
  <2>4. ASSUME NEW l \in 1..(Len(poll_set) - 1) PROVE Erased(k)[l] # poll_set[k]
    <3>1. k \in 1..Len(poll_set) /\ l \in 1..Len(poll_set) /\ l + 1 \in 1..Len(poll_set)
      BY <1>4
    <3>2. CASE l < k
      BY <2>2, <2>3, <3>1, <3>2
    <3>3. CASE ~(l < k)
      BY <1>4, <2>2, <2>3, <3>1, <3>3
    <3>4. QED BY <3>2, <3>3
  <2>5. Erased(k) \in Seq(AllFds)
    BY ErasedType DEF TypeOK
  <2>6. QED BY <1>2, <2>1, <2>2, <2>4, <2>5 DEF ToSet
<1>13. QED BY <1>5, <1>7, <1>9, <1>11, <1>12

---------------------------------------------------------------------------
(* The other steps *)

\* A step that no handler takes part in and that takes nothing away.
LEMMA AwayFromRound ==
    ASSUME EventsHold, UNCHANGED <<poll_set, revents, idx>>,
           \A f \in AllFds : Undisturbed(f)
    PROVE  EventsHold'
  BY DEF EventsHold, Pending, Undisturbed

LEMMA NothingPending ==
    ASSUME revents' = [f \in AllFds |-> "none"]
    PROVE  EventsHold'
  BY DEF EventsHold, Pending

LEMMA PollKeeps ==
    ASSUME TypeOK, Poll
    PROVE  EventsHold'
<1>1. /\ revents' = [f \in AllFds |->
                       IF \E k \in DOMAIN poll_set : poll_set[k] = f THEN Ready(f) ELSE "none"]
      /\ idx' = 1 /\ poll_set' = poll_set
      /\ UNCHANGED <<udp, listenq, console, peer, link, inbox>>
  BY DEF Poll, subscriberVars
<1>2. \A f : Ready(f)' = Ready(f)
  BY <1>1 DEF Ready, ClientReady
<1>3. \A f \in Pending' :
        revents'[f] = Ready(f) /\ \E k \in 1..Len(poll_set) : poll_set[k] = f
  BY <1>1 DEF Pending, TypeOK
<1>4. QED BY <1>1, <1>2, <1>3 DEF EventsHold, Pending

LEMMA OutsideKeeps ==
    ASSUME TypeOK, EventsHold,
           \/ \E s \in Sessions : SubscriberStep(s) /\ UNCHANGED serverVars
           \/ \E s \in Sessions, i \in Ids : Start(s, i) /\ UNCHANGED serverVars
           \/ \E t \in Topics : Publish(t)
           \/ ConsoleInput
           \/ UNCHANGED vars
    PROVE  EventsHold'
<1>1. ASSUME UNCHANGED <<poll_set, revents, idx, peer>>,
             udp # <<>> => udp' # <<>>,
             listenq # <<>> => listenq' # <<>>,
             console # "nothing" => console' = console,
             \A s \in Sessions : Stays(s)
      PROVE  EventsHold'
  <2>1. ASSUME NEW f \in AllFds, Ready(f) # "none" PROVE Undisturbed(f)
    <3>1. f \in Fds /\ peer[f] # 0 => peer'[f] = peer[f] /\ Stays(peer[f])
      BY <1>1 DEF TypeOK
    <3>2. CASE f = STDIN
      BY <1>1, <2>1, <3>2 DEF Ready, Undisturbed, UDP, LISTEN, STDIN
    <3>3. CASE f # STDIN
      BY <1>1, <3>1, <3>3, ReadyKept
    <3>4. QED BY <3>2, <3>3
  <2>2. ASSUME NEW f \in AllFds, Ready(f) = "none" PROVE Undisturbed(f)
    BY <2>2 DEF Undisturbed
  <2>3. QED BY <1>1, <2>1, <2>2, AwayFromRound
<1>2. ASSUME link' = link, inbox' = inbox PROVE \A s \in Sessions : Stays(s)
  BY <1>2 DEF Stays
<1>3. ASSUME NEW s \in Sessions, SubscriberStep(s), UNCHANGED serverVars PROVE EventsHold'
  <2>1. listenq' = listenq
    BY <1>3, SubscriberStepStays
  <2>2. UNCHANGED <<poll_set, revents, idx, peer, udp, console>>
    BY <1>3 DEF serverVars
  <2>3. \A r \in Sessions : Stays(r)
    BY <1>3, SubscriberStays
  <2>4. QED BY <1>1, <2>1, <2>2, <2>3
<1>4. ASSUME NEW s \in Sessions, NEW i \in Ids, Start(s, i), UNCHANGED serverVars
      PROVE  EventsHold'
  <2>1. UNCHANGED <<poll_set, revents, idx, peer, udp, console, inbox>>
    BY <1>4 DEF serverVars, Start
  <2>2. listenq' # <<>>
    <3>1. listenq' = Append(listenq, s) /\ listenq \in Seq(Sessions)
      BY <1>4 DEF Start, TypeOK, SubscriberTypeOK
    <3>2. QED BY <3>1, AppendProperties
  <2>3. \A r \in Sessions : Stays(r)
    BY <1>4, <2>1 DEF Start, Stays, TypeOK, SubscriberTypeOK
  <2>4. QED BY <1>1, <2>1, <2>2, <2>3
<1>5. ASSUME NEW t \in Topics, Publish(t) PROVE EventsHold'
  <2>1. UNCHANGED <<poll_set, revents, idx, peer, console, link, inbox, listenq>>
    BY <1>5 DEF Publish, subscriberVars
  <2>2. udp' # <<>>
    <3>1. udp' = Append(udp, t)
      BY <1>5 DEF Publish
    <3>2. udp \in Seq(Topics)
      BY DEF TypeOK
    <3>3. QED BY <3>1, <3>2, AppendProperties
  <2>3. QED BY <1>1, <1>2, <2>1, <2>2
<1>6. CASE ConsoleInput
  <2>1. /\ UNCHANGED <<poll_set, revents, idx, peer, udp, link, inbox, listenq>>
        /\ console = "nothing"
    BY <1>6 DEF ConsoleInput, subscriberVars
  <2>2. QED BY <1>1, <1>2, <2>1
<1>7. CASE UNCHANGED vars
  <2>1. UNCHANGED <<poll_set, revents, idx, peer, udp, console, link, inbox, listenq>>
    BY <1>7 DEF vars, subscriberVars, serverVars
  <2>2. QED BY <1>1, <1>2, <2>1
<1>8. QED BY <1>3, <1>4, <1>5, <1>6, <1>7

\* The end of the process leaves no event.
LEMMA LastHandler ==
    ASSUME NEW k \in DOMAIN poll_set, Handle(k), status' # "running"
    PROVE  EventsHold'
<1>1. ASSUME NEW q, CloseAllSockets(q) PROVE EventsHold'
  BY <1>1, NothingPending DEF CloseAllSockets
<1>2. ASSUME NEW q, Die(q) PROVE EventsHold'
  BY <1>1, <1>2 DEF Die
<1>3. CASE Shutdown(k)
  BY <1>1, <1>3 DEF Shutdown
<1>4. CASE AcceptFails(k) \/ DieDistributing(k) \/ DieShuttingDown(k)
  BY <1>2, <1>4 DEF AcceptFails, DieDistributing, DieShuttingDown
<1>5. ASSUME NEW f \in Fds, NEW i \in Ids, DieReconnecting(k, f, i) PROVE EventsHold'
  BY <1>2, <1>5 DEF DieReconnecting
<1>6. ASSUME NEW f \in Fds PROVE ~Accept(k, f) /\ ~Disconnect(k, f)
  BY DEF Accept, Disconnect, At
<1>7. ASSUME NEW f \in Fds, NEW i \in Ids
      PROVE  /\ ~Register(k, f, i) /\ ~Reject(k, f, i) /\ ~Reconnect(k, f, i)
             /\ ~HandleSubscribe(k, f, i) /\ ~HandleUnsubscribe(k, f, i)
             /\ ~HandleExit(k, f, i)
  BY DEF Register, Reject, Reconnect, HandleSubscribe, HandleUnsubscribe, HandleExit,
     Request, At
<1>8. ~Distribute(k) /\ ~ReadEnd(k)
  BY DEF Distribute, ReceiveDatagram, ReadEnd, ReadConsole, At
<1>9. QED BY <1>3, <1>4, <1>5, <1>6, <1>7, <1>8 DEF Handle, HandleClient

---------------------------------------------------------------------------

LEMMA EventsKept ==
    ASSUME TypeOK, PollInv, EventsHold, [Next]_vars
    PROVE  EventsHold'
<1>1. CASE Poll
  BY <1>1, PollKeeps
<1>2. ASSUME NEW k \in DOMAIN poll_set, Due(k), Handle(k) PROVE EventsHold'
  <2>1. CASE status' # "running"
    BY <1>2, <2>1, LastHandler
  <2>2. CASE status' = "running"
    <3>1. Polled /\ Admission
      <4>1. status = "running"
        BY <1>2, HandlerRuns
      <4>2. QED BY <4>1 DEF PollInv
    <3>2. Serves(k)
      BY <1>2, <2>2, <3>1, HandlerServes
    <3>3. QED BY <1>2, <3>1, <3>2, ServesKeeps
  <2>3. QED BY <2>1, <2>2
<1>3. CASE ServerStep
  BY <1>1, <1>2, <1>3 DEF ServerStep
<1>4. QED BY <1>3, OutsideKeeps DEF Next

\* However the steps of subscribers and publishers fall between those of a round,
\* and whatever entries its handlers close or add, each event poll reported is
\* still there when the round comes to it: no handler waits in recv, accept or
\* recvfrom, or acts on a descriptor that was closed or reused meanwhile.
THEOREM EventsStayTrue == Spec => []EventsHold
<1>1. Init => EventsHold
  BY DEF Init, EventsHold, Pending
<1>2. TypeOK /\ PollInv /\ EventsHold /\ [Next]_vars => EventsHold'
  BY EventsKept
<1>3. QED BY <1>1, <1>2, PollInvariant, TypeCorrect, PTL DEF Spec

\* Every handler settles the event of its entry and adds none, so that a round
\* ends; a rejection or an EXIT makes it leave out one event at most, which the
\* next poll reports again.
THEOREM RoundsGoOn == Spec => RoundsServe
<1> DEFINE Step ==
      \A k \in DOMAIN poll_set :
          Due(k) /\ Handle(k) /\ status' = "running" =>
            LET others == Pending \ {poll_set[k]}
            IN  /\ Pending' \subseteq others
                /\ \A f \in others : Ready(f)' # "none" /\ f \in ToSet(poll_set')
                /\ \A f, g \in others \ Pending' : f = g
                /\ others # Pending' => poll_set[k] \notin ToSet(poll_set')
<1>1. TypeOK /\ PollInv /\ EventsHold => Step
  <2> SUFFICES ASSUME TypeOK, PollInv, EventsHold, NEW k \in DOMAIN poll_set,
                      Due(k), Handle(k), status' = "running"
               PROVE  LET others == Pending \ {poll_set[k]}
                      IN  /\ Pending' \subseteq others
                          /\ \A f \in others : Ready(f)' # "none" /\ f \in ToSet(poll_set')
                          /\ \A f, g \in others \ Pending' : f = g
                          /\ others # Pending' => poll_set[k] \notin ToSet(poll_set')
    OBVIOUS
  <2>1. Polled /\ Admission
    BY HandlerRuns DEF PollInv
  <2>2. Serves(k)
    BY <2>1, HandlerServes
  <2>3. QED BY <2>1, <2>2, ServesKeeps
<1>2. Step => [Step]_vars
  OBVIOUS
<1>3. [][Step]_vars => RoundsServe
  BY PTL DEF RoundsServe
<1>4. QED BY <1>1, <1>2, <1>3, EventsStayTrue, PollInvariant, TypeCorrect, PTL
=============================================================================
