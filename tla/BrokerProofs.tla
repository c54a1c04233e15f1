---------------------------- MODULE BrokerProofs ----------------------------
(***************************************************************************)
(* Invariants of Broker for every value of its constants.                  *)
(***************************************************************************)
EXTENDS Broker, FiniteSetTheorems, SequenceTheorems, TLAPS

\* The groups of variables that steps leave unchanged.
USE DEF registry, tables, queues, sockets, datagrams, kept

(* What the helpers of the model return *)

\* A server that closes connections leaves each in a state of LinkStates.
LEMMA ServerClosedType ==
    ASSUME NEW lk \in [Sessions -> LinkStates], NEW S
    PROVE  ServerClosed(lk, S) \in [Sessions -> LinkStates]
  BY DEF ServerClosed, LinkStates, Alive

\* A function stays in its set when one value is replaced by another of the range.
LEMMA UpdateType ==
    ASSUME NEW D, NEW R, NEW g \in [D -> R], NEW d, NEW v \in R
    PROVE  [g EXCEPT ![d] = v] \in [D -> R]
  OBVIOUS

\* Writing to connections keeps every outbox a sequence of data.
LEMMA DeliveredType ==
    ASSUME SubscriberTypeOK, NEW q \in [Sessions -> Seq(Nat)]
    PROVE  Delivered(q) \in [Sessions -> Seq(Nat)]
  BY DEF SubscriberTypeOK, Delivered

LEMMA StruckType ==
    ASSUME SubscriberTypeOK, NEW q
    PROVE  Struck(q) \in [Sessions -> LinkStates]
  BY DEF SubscriberTypeOK, Struck, LinkStates

\* There are finitely many clients, so a set of them can be counted.
LEMMA ClientsFinite ==
    ASSUME NEW S, S \subseteq Ids
    PROVE  IsFiniteSet(S) /\ Cardinality(S) \in Nat
  BY SubscribersAssumption, FS_Subset, FS_CardinalityType

\* What is written for a set of clients is a sequence of data per session.
LEMMA CopiesType ==
    ASSUME NEW S, S \subseteq Ids, NEW m \in Nat
    PROVE  Copies(S, m) \in [Sessions -> Seq(Nat)]
<1>1. ASSUME NEW s \in Sessions
      PROVE  [n \in 1..Cardinality({i \in S : peer[fd[i]] = s}) |-> m] \in Seq(Nat)
  <2>1. Cardinality({i \in S : peer[fd[i]] = s}) \in Nat
    BY ClientsFinite
  <2>2. QED BY <2>1
<1>2. QED BY <1>1 DEF Copies

LEMMA NothingType == Nothing \in [Sessions -> Seq(Nat)]
  BY DEF Nothing

\* Erasing an entry leaves a sequence of descriptors.
LEMMA ErasedType ==
    ASSUME poll_set \in Seq(AllFds), NEW k \in DOMAIN poll_set
    PROVE  Erased(k) \in Seq(AllFds)
<1>1. k \in 1..Len(poll_set)
  OBVIOUS
<1>2. SubSeq(poll_set, 1, k - 1) \in Seq(AllFds)
  BY <1>1, SubSeqProperties
<1>3. SubSeq(poll_set, k + 1, Len(poll_set)) \in Seq(AllFds)
  BY <1>1, SubSeqProperties
<1>4. QED BY <1>2, <1>3, ConcatProperties DEF Erased

\* The round goes on with a well-typed poll set, events and position.
LEMMA GoOnType ==
    ASSUME TypeOK, NEW ps \in Seq(AllFds), NEW k \in Nat, GoOn(ps, k)
    PROVE  /\ poll_set' \in Seq(AllFds)
           /\ revents' \in [AllFds -> {"none", "in", "hup"}]
           /\ idx' \in Nat
  BY DEF TypeOK, GoOn

\* Closing one connection keeps the kernel's part and the descriptors typed.
LEMMA CloseConnectionType ==
    ASSUME TypeOK, NEW f, CloseConnection(f)
    PROVE  /\ link' \in [Sessions -> LinkStates]
           /\ inbox' \in [Sessions -> Seq(Requests)]
           /\ peer' \in [Fds -> Sessions \cup {0}]
           /\ client_addresses' \subseteq Fds
<1>1. link \in [Sessions -> LinkStates] /\ link' = ServerClosed(link, {peer[f]})
  BY DEF TypeOK, SubscriberTypeOK, CloseConnection
<1>2. link' \in [Sessions -> LinkStates]
  BY <1>1, ServerClosedType
<1>3. inbox' \in [Sessions -> Seq(Requests)]
  <2>1. inbox' = [s \in Sessions |-> IF s = peer[f] THEN <<>> ELSE inbox[s]]
    BY DEF TypeOK, SubscriberTypeOK, CloseConnection
  <2>2. QED BY <2>1 DEF TypeOK, SubscriberTypeOK
<1>4. peer' \in [Fds -> Sessions \cup {0}] /\ client_addresses' \subseteq Fds
  BY DEF TypeOK, CloseConnection
<1>5. QED BY <1>2, <1>3, <1>4

\* The end of the process, after writing q, keeps the kernel's part typed.
LEMMA CloseAllSocketsType ==
    ASSUME TypeOK, NEW q \in [Sessions -> Seq(Nat)], CloseAllSockets(q)
    PROVE  /\ SubscriberTypeOK'
           /\ peer' \in [Fds -> Sessions \cup {0}]
           /\ udp' \in Seq(Topics)
           /\ revents' \in [AllFds -> {"none", "in", "hup"}]
           /\ idx' \in Nat
<1> USE DEF TypeOK, SubscriberTypeOK, CloseAllSockets
<1>1. outbox' \in [Sessions -> Seq(Nat)]
  BY DeliveredType
<1>2. link' \in [Sessions -> LinkStates]
  BY ServerClosedType
<1>3. inbox' \in [Sessions -> Seq(Requests)]
  OBVIOUS
<1>4. QED BY <1>1, <1>2, <1>3

\* Dropping references leaves integer counts and fewer allocated messages.
LEMMA ReleaseType ==
    ASSUME TypeOK, NEW n \in [MsgIds -> Int], Release(n)
    PROVE  c' \in [MsgIds -> Int] /\ heap' \subseteq MsgIds
  BY DEF TypeOK, Release

LEMMA DieType ==
    ASSUME TypeOK, NEW q \in [Sessions -> Seq(Nat)], Die(q),
           published' \in Seq(Topics), Len(published') <= MaxMessages
    PROVE  TypeOK'
<1>1. /\ SubscriberTypeOK'
      /\ peer' \in [Fds -> Sessions \cup {0}]
      /\ udp' \in Seq(Topics)
      /\ revents' \in [AllFds -> {"none", "in", "hup"}]
      /\ idx' \in Nat
  BY CloseAllSocketsType DEF Die
<1>2. Len(published') + Len(udp') <= MaxMessages
  BY BrokerAssumption DEF TypeOK, Die, CloseAllSockets
<1>3. QED BY <1>1, <1>2 DEF TypeOK, Die

---------------------------------------------------------------------------
(* Every step keeps the types *)

LEMMA SubscriberStepType ==
    ASSUME TypeOK, NEW s \in Sessions, SubscriberStep(s) \/ \E i \in Ids : Start(s, i)
    PROVE  SubscriberTypeOK'
<1> USE DEF TypeOK, SubscriberTypeOK
<1>h. ASSUME Hangup(s) PROVE SubscriberTypeOK'
  BY <1>h DEF Hangup, HungUp, LinkStates
<1>r. ASSUME ReadMessage(s)
      PROVE  got' \in [Sessions -> Seq(Nat)] /\ outbox' \in [Sessions -> Seq(Nat)]
  BY <1>r, HeadTailProperties, AppendProperties DEF ReadMessage
<1>1. CASE SendConnect(s)
  BY <1>1 DEF SendConnect, Requests, LinkStates, Alive
<1>2. ASSUME NEW r \in Menu, Command(s, r) PROVE SubscriberTypeOK'
  BY <1>2, SubscribersAssumption DEF Command, Requests
<1>3. CASE Receive(s)
  BY <1>3, <1>r DEF Receive
<1>4. CASE TypeExit(s)
  <2>1. got' \in [Sessions -> Seq(Nat)] /\ outbox' \in [Sessions -> Seq(Nat)]
    <3>1. CASE UNCHANGED <<outbox, got>>
      BY <3>1
    <3>2. CASE ReadMessage(s)
      BY <3>2, <1>r
    <3>3. QED BY <1>4, <3>1, <3>2 DEF TypeExit
  <2>2. link' \in [Sessions -> LinkStates]
    BY <1>4 DEF TypeExit, LinkStates, Alive
  <2>3. inbox' \in [Sessions -> Seq(Requests)]
    BY <1>4 DEF TypeExit, Requests
  <2>4. QED BY <1>4, <2>1, <2>2, <2>3 DEF TypeExit
<1>5. CASE Close(s) \/ Kill(s) \/ SeeEnd(s)
  BY <1>5, <1>h DEF Close, Kill, SeeEnd
<1>6. CASE RstArrives(s)
  BY <1>6 DEF RstArrives, LinkStates
<1>7. ASSUME NEW i \in Ids, Start(s, i) PROVE SubscriberTypeOK'
  BY <1>7 DEF Start, LinkStates, Alive
<1>8. QED BY <1>1, <1>2, <1>3, <1>4, <1>5, <1>6, <1>7 DEF SubscriberStep

LEMMA PollType == TypeOK /\ Poll => TypeOK'
<1> SUFFICES ASSUME TypeOK, Poll PROVE TypeOK'
  OBVIOUS
<1>1. revents' \in [AllFds -> {"none", "in", "hup"}]
  BY DEF Poll, Ready, ClientReady
<1>2. QED
  BY <1>1 DEF TypeOK, SubscriberTypeOK, Poll, subscriberVars

LEMMA AcceptType ==
    ASSUME TypeOK, NEW k \in DOMAIN poll_set, NEW f \in Fds, Accept(k, f)
    PROVE  TypeOK'
<1>1. k + 1 \in Nat
  BY DEF TypeOK
<1>2. Append(poll_set, f) \in Seq(AllFds)
  BY DEF TypeOK, AllFds
<1>3. /\ poll_set' \in Seq(AllFds)
      /\ revents' \in [AllFds -> {"none", "in", "hup"}]
      /\ idx' \in Nat
  BY <1>1, <1>2, GoOnType DEF Accept
<1>4. listenq # <<>>
  BY DEF Accept
<1>5. QED
  BY <1>3, <1>4, HeadTailProperties
  DEF TypeOK, SubscriberTypeOK, Accept

LEMMA DistributeType ==
    ASSUME TypeOK, NEW k \in DOMAIN poll_set, Distribute(k)
    PROVE  TypeOK'
<1> DEFINE t == Head(udp)
           m == Len(published) + 1
<1>1. t \in Topics /\ Tail(udp) \in Seq(Topics)
  BY HeadTailProperties DEF TypeOK, Distribute, ReceiveDatagram
<1>2. m \in Nat /\ k \in Nat
  BY DEF TypeOK
<1>3. Live(t) \subseteq Ids /\ Stored(t) \subseteq Ids
  BY DEF TypeOK, Live, Stored
<1>4. outbox' \in [Sessions -> Seq(Nat)]
  BY <1>2, <1>3, CopiesType, DeliveredType DEF TypeOK, Distribute
<1>5. link' \in [Sessions -> LinkStates]
  BY StruckType DEF TypeOK, Distribute
<1>6. lost_messages' \in [Ids -> Seq(Nat)]
  BY <1>2, AppendProperties DEF TypeOK, Distribute, Queue
<1>7. c' \in [MsgIds -> Int]
  <2>1. Cardinality(Stored(t)) \in Int
    BY <1>3, ClientsFinite
  <2>2. QED BY <2>1 DEF TypeOK, Distribute
<1>8. published' \in Seq(Topics)
  BY <1>1, AppendProperties DEF TypeOK, Distribute, ReceiveDatagram
<1>9. /\ poll_set' \in Seq(AllFds)
      /\ revents' \in [AllFds -> {"none", "in", "hup"}]
      /\ idx' \in Nat
  BY <1>2, GoOnType DEF TypeOK, Distribute
<1>10. Len(published') + Len(udp') <= MaxMessages /\ m \in MsgIds
  <2>1. Len(published') = Len(published) + 1 /\ Len(udp') = Len(udp) - 1
    BY <1>1, AppendProperties, HeadTailProperties
    DEF TypeOK, Distribute, ReceiveDatagram
  <2>2. Len(udp') \in Nat
    BY <1>1, LenProperties DEF Distribute
  <2>3. QED BY <2>1, <2>2, BrokerAssumption DEF TypeOK, MsgIds
<1>14. heap' \subseteq MsgIds
  BY <1>10 DEF TypeOK, Distribute
<1>11. udp' \in Seq(Topics)
  BY <1>1 DEF Distribute
<1> HIDE DEF t, m
<1>12. SubscriberTypeOK'
  BY <1>4, <1>5 DEF TypeOK, SubscriberTypeOK, Distribute
<1>13. QED
  BY <1>6, <1>7, <1>8, <1>9, <1>10, <1>11, <1>12, <1>14 DEF TypeOK, Distribute

LEMMA DieDistributingType ==
    ASSUME TypeOK, NEW k \in DOMAIN poll_set, DieDistributing(k)
    PROVE  TypeOK'
<1> DEFINE m == Len(published) + 1
<1>1. PICK S \in SUBSET {i \in Live(Head(udp)) : ~WriteKills(fd[i])} : Die(Copies(S, m))
  BY DEF DieDistributing
<1>2. S \subseteq Ids /\ m \in Nat
  BY DEF TypeOK, Live
<1>3. Copies(S, m) \in [Sessions -> Seq(Nat)]
  BY <1>2, CopiesType
<1>4. udp # <<>> /\ published' = Append(published, Head(udp))
  BY DEF DieDistributing, ReceiveDatagram
<1>5. published' \in Seq(Topics) /\ Len(published') = Len(published) + 1
  BY <1>4, HeadTailProperties, AppendProperties DEF TypeOK
<1>6. Len(udp) \in Nat \ {0}
  BY <1>4, LenProperties, EmptySeq DEF TypeOK
<1>7. Len(published') <= MaxMessages
  BY <1>5, <1>6, BrokerAssumption DEF TypeOK
<1>8. QED BY <1>1, <1>3, <1>5, <1>7, DieType

\* A Die that changes nothing else.
LEMMA DieElsewhereType ==
    ASSUME TypeOK, NEW q \in [Sessions -> Seq(Nat)], Die(q), UNCHANGED published
    PROVE  TypeOK'
<1>1. Len(published') <= MaxMessages /\ published' \in Seq(Topics)
  BY BrokerAssumption, LenProperties DEF TypeOK
<1>2. QED BY <1>1, DieType

LEMMA DieShuttingDownType ==
    ASSUME TypeOK, NEW k \in DOMAIN poll_set, DieShuttingDown(k)
    PROVE  TypeOK'
<1>1. PICK S \in SUBSET {i \in Connected : ~WriteKills(fd[i])} : Die(Copies(S, Notice))
  BY DEF DieShuttingDown
<1>2. S \subseteq Ids /\ Notice \in Nat
  BY DEF TypeOK, Connected, Notice
<1>3. Copies(S, Notice) \in [Sessions -> Seq(Nat)]
  BY <1>2, CopiesType
<1>4. QED BY <1>1, <1>3, DieElsewhereType DEF DieShuttingDown

LEMMA ShutdownType ==
    ASSUME TypeOK, NEW k \in DOMAIN poll_set, Shutdown(k)
    PROVE  TypeOK'
<1>1. Connected \subseteq Ids /\ Notice \in Nat
  BY DEF TypeOK, Connected, Notice
<1>2. Copies(Connected, Notice) \in [Sessions -> Seq(Nat)]
  BY <1>1, CopiesType
<1>3. /\ SubscriberTypeOK'
      /\ peer' \in [Fds -> Sessions \cup {0}]
      /\ udp' \in Seq(Topics)
      /\ revents' \in [AllFds -> {"none", "in", "hup"}]
      /\ idx' \in Nat
  BY <1>2, CloseAllSocketsType DEF Shutdown
<1>4. Len(published') + Len(udp') <= MaxMessages
  BY BrokerAssumption, LenProperties DEF TypeOK, Shutdown, CloseAllSockets
<1>5. ASSUME NEW m \in MsgIds PROVE Cardinality(Holders(m)) \in Int
  BY ClientsFinite DEF TypeOK, Holders
<1>6. [m \in MsgIds |-> Cardinality(Holders(m))] \in [MsgIds -> Int]
  BY <1>5
<1>7. c' \in [MsgIds -> Int] /\ heap' \subseteq MsgIds
  BY <1>6, ReleaseType DEF Shutdown
<1>8. lost_messages' \in [Ids -> Seq(Nat)]
  BY DEF Shutdown
<1>9. QED BY <1>3, <1>4, <1>7, <1>8 DEF TypeOK, Shutdown

---------------------------------------------------------------------------
(* handle_client_request and handle_client_disconnect *)

\* Taking a request off a connection leaves requests.
LEMMA TakeRequestType ==
    ASSUME TypeOK, NEW k, NEW f \in Fds, NEW i, NEW type, Request(k, f, i, type),
           TakeRequest(f)
    PROVE  inbox' \in [Sessions -> Seq(Requests)]
<1>1. peer[f] \in Sessions /\ inbox[peer[f]] # <<>>
  BY DEF TypeOK, Request
<1>2. Tail(inbox[peer[f]]) \in Seq(Requests)
  BY <1>1, HeadTailProperties DEF TypeOK, SubscriberTypeOK
<1>3. QED BY <1>1, <1>2 DEF TypeOK, SubscriberTypeOK, TakeRequest

\* A request for a pattern names one of Patterns.
LEMMA CommandType ==
    ASSUME TypeOK, NEW k, NEW f \in Fds, NEW i, NEW type \in {"SUBSCRIBE", "UNSUBSCRIBE"},
           Request(k, f, i, type)
    PROVE  Head(inbox[peer[f]]).topic \in Patterns
<1>1. Head(inbox[peer[f]]) \in Requests
  BY HeadTailProperties DEF TypeOK, SubscriberTypeOK, Request
<1>2. Head(inbox[peer[f]]).type = type
  BY DEF Request
<1>3. QED BY <1>1, <1>2 DEF Requests, Commands, Connect, Exit

LEMMA HandlerType ==
    ASSUME TypeOK, NEW k \in DOMAIN poll_set, NEW f \in Fds, NEW i \in Ids,
           \/ Register(k, f, i)
           \/ HandleSubscribe(k, f, i)
           \/ HandleUnsubscribe(k, f, i)
           \/ Reconnect(k, f, i)
    PROVE  /\ inbox' \in [Sessions -> Seq(Requests)]
           /\ poll_set' \in Seq(AllFds)
           /\ revents' \in [AllFds -> {"none", "in", "hup"}]
           /\ idx' \in Nat
<1>1. inbox' \in [Sessions -> Seq(Requests)]
  BY TakeRequestType DEF Register, HandleSubscribe, HandleUnsubscribe, Reconnect
<1>2. GoOn(poll_set, k + 1)
  BY DEF Register, HandleSubscribe, HandleUnsubscribe, Reconnect
<1>3. k + 1 \in Nat /\ poll_set \in Seq(AllFds)
  BY DEF TypeOK
<1>4. QED BY <1>1, <1>2, <1>3, GoOnType

LEMMA RegisterType ==
    ASSUME TypeOK, NEW k \in DOMAIN poll_set, NEW f \in Fds, NEW i \in Ids, Register(k, f, i)
    PROVE  TypeOK'
  BY HandlerType DEF TypeOK, SubscriberTypeOK, Register

LEMMA ReconnectType ==
    ASSUME TypeOK, NEW k \in DOMAIN poll_set, NEW f \in Fds, NEW i \in Ids, Reconnect(k, f, i)
    PROVE  TypeOK'
<1> DEFINE q == [Nothing EXCEPT ![peer[f]] = Flushed(i)]
<1>1. q \in [Sessions -> Seq(Nat)]
  BY NothingType DEF TypeOK, Flushed
<1>2. outbox' \in [Sessions -> Seq(Nat)] /\ link' \in [Sessions -> LinkStates]
  BY <1>1, DeliveredType, StruckType DEF TypeOK, Reconnect
<1>3. c' \in [MsgIds -> Int] /\ heap' \subseteq MsgIds
  <2>1. [m \in MsgIds |-> IF i \in Holders(m) THEN 1 ELSE 0] \in [MsgIds -> Int]
    OBVIOUS
  <2>2. QED BY <2>1, ReleaseType DEF Reconnect
<1>4. lost_messages' \in [Ids -> Seq(Nat)]
  BY DEF TypeOK, Reconnect
<1>5. fd' \in [Ids -> Fds \cup {0}] /\ connected' \in [Ids -> BOOLEAN]
  BY DEF TypeOK, Reconnect
<1> HIDE DEF q
<1>6. SubscriberTypeOK'
  BY <1>2, HandlerType DEF TypeOK, SubscriberTypeOK, Reconnect
<1>7. QED BY <1>3, <1>4, <1>5, <1>6, HandlerType DEF TypeOK, Reconnect

LEMMA SubscribeType ==
    ASSUME TypeOK, NEW k \in DOMAIN poll_set, NEW f \in Fds, NEW i \in Ids,
           HandleSubscribe(k, f, i) \/ HandleUnsubscribe(k, f, i)
    PROVE  TypeOK'
<1> DEFINE r == Head(inbox[peer[f]])
<1>1. r.topic \in Patterns
  BY CommandType DEF HandleSubscribe, HandleUnsubscribe
<1>2. subscriptions' \in [Patterns -> SUBSET Ids]
  <2>1. \/ subscriptions' = subscriptions
        \/ subscriptions' = [subscriptions EXCEPT ![r.topic] = @ \cup {i}]
        \/ subscriptions' = [subscriptions EXCEPT ![r.topic] = @ \ {i}]
    BY DEF HandleSubscribe, HandleUnsubscribe, Unlisted
  <2>2. /\ subscriptions \in [Patterns -> SUBSET Ids]
        /\ subscriptions[r.topic] \cup {i} \in SUBSET Ids
        /\ subscriptions[r.topic] \ {i} \in SUBSET Ids
    BY <1>1 DEF TypeOK
  <2> HIDE DEF r
  <2>3. QED BY <2>1, <2>2, UpdateType
<1>3. topics' \in [Ids -> [Patterns -> {"none", "live", "sf"}]]
  <2>1. \/ topics' = topics
        \/ \E flag \in {"none", "live", "sf"} : topics' = [topics EXCEPT ![i][r.topic] = flag]
    BY DEF HandleSubscribe, HandleUnsubscribe
  <2> HIDE DEF r
  <2>2. ASSUME NEW flag \in {"none", "live", "sf"}
        PROVE  [topics EXCEPT ![i][r.topic] = flag] \in
                 [Ids -> [Patterns -> {"none", "live", "sf"}]]
    <3>1. topics[i] \in [Patterns -> {"none", "live", "sf"}]
      BY DEF TypeOK
    <3>2. [topics[i] EXCEPT ![r.topic] = flag] \in [Patterns -> {"none", "live", "sf"}]
      BY <3>1, UpdateType
    <3>3. QED BY <3>2, UpdateType DEF TypeOK
  <2>3. CASE topics' = topics
    BY <2>3 DEF TypeOK
  <2>4. ASSUME NEW flag \in {"none", "live", "sf"},
               topics' = [topics EXCEPT ![i][r.topic] = flag]
        PROVE  topics' \in [Ids -> [Patterns -> {"none", "live", "sf"}]]
    BY <2>2, <2>4
  <2>5. QED BY <2>1, <2>3, <2>4
<1>4. SubscriberTypeOK'
  BY HandlerType DEF TypeOK, SubscriberTypeOK, HandleSubscribe, HandleUnsubscribe
<1>5. QED
  BY <1>2, <1>3, <1>4, HandlerType
  DEF TypeOK, HandleSubscribe, HandleUnsubscribe

\* The handlers that close the connection they serve.
LEMMA ClosingType ==
    ASSUME TypeOK, NEW k \in DOMAIN poll_set, NEW f \in Fds,
           \/ \E i \in Ids : Reject(k, f, i) \/ HandleExit(k, f, i)
           \/ Disconnect(k, f)
    PROVE  TypeOK'
<1>1. CloseConnection(f) /\ (GoOn(Erased(k), k) \/ GoOn(Erased(k), k + 1))
  BY DEF Reject, HandleExit, Disconnect
<1>2. /\ poll_set' \in Seq(AllFds)
      /\ revents' \in [AllFds -> {"none", "in", "hup"}]
      /\ idx' \in Nat
  <2>1. k \in Nat /\ k + 1 \in Nat /\ Erased(k) \in Seq(AllFds)
    BY ErasedType DEF TypeOK
  <2>2. QED BY <1>1, <2>1, GoOnType
<1>3. connected' \in [Ids -> BOOLEAN] /\ mixup' \in BOOLEAN
  BY DEF TypeOK, Reject, HandleExit, Disconnect
<1>4. QED
  BY <1>1, <1>2, <1>3, CloseConnectionType
  DEF TypeOK, SubscriberTypeOK, Reject, HandleExit, Disconnect

LEMMA HandleType ==
    ASSUME TypeOK, NEW k \in DOMAIN poll_set, Handle(k)
    PROVE  TypeOK'
<1>1. ASSUME NEW f \in Fds, HandleClient(k, f) PROVE TypeOK'
  <2>1. ASSUME NEW i \in Ids, DieReconnecting(k, f, i) PROVE TypeOK'
    BY <2>1, NothingType, DieElsewhereType DEF DieReconnecting
  <2>2. QED
    BY <1>1, <2>1, RegisterType, ReconnectType, SubscribeType, ClosingType
    DEF HandleClient
<1>2. CASE AcceptFails(k)
  BY <1>2, NothingType, DieElsewhereType DEF AcceptFails
<1>3. CASE ReadEnd(k)
  <2>1. /\ poll_set' \in Seq(AllFds)
        /\ revents' \in [AllFds -> {"none", "in", "hup"}]
        /\ idx' \in Nat
    <3>1. k + 1 \in Nat /\ poll_set \in Seq(AllFds)
      BY DEF TypeOK
    <3>2. QED BY <1>3, <3>1, GoOnType DEF ReadEnd
  <2>2. QED BY <1>3, <2>1 DEF TypeOK, SubscriberTypeOK, ReadEnd, subscriberVars
<1>4. QED
  BY <1>1, <1>2, <1>3, AcceptType, DistributeType, DieDistributingType, ShutdownType,
     DieShuttingDownType
  DEF Handle

---------------------------------------------------------------------------

\* The variables of Broker keep their types, a message that is distributed has
\* an identifier within the bound on datagrams, and every descriptor in the
\* poll set is one the process was given.
THEOREM TypeCorrect == Spec => []TypeOK
<1>1. Init => TypeOK
  <2> SUFFICES ASSUME Init PROVE TypeOK
    OBVIOUS
  <2>1. SubscriberTypeOK
    BY DEF Init, SubscriberInit, SubscriberTypeOK, LinkStates
  <2>2. poll_set \in Seq(AllFds)
    BY DEF Init, AllFds
  <2>3. Len(published) + Len(udp) <= MaxMessages
    BY BrokerAssumption DEF Init
  <2>4. topics \in [Ids -> [Patterns -> {"none", "live", "sf"}]]
    BY DEF Init
  <2>5. /\ revents \in [AllFds -> {"none", "in", "hup"}]
        /\ lost_messages \in [Ids -> Seq(Nat)]
        /\ subscriptions \in [Patterns -> SUBSET Ids]
        /\ udp \in Seq(Topics) /\ published \in Seq(Topics)
    BY DEF Init
  <2>6. /\ fd \in [Ids -> Fds \cup {0}]
        /\ connected \in [Ids -> BOOLEAN]
        /\ c \in [MsgIds -> Int]
        /\ peer \in [Fds -> Sessions \cup {0}]
    BY DEF Init
  <2>7. /\ status \in {"running", "exited", "dead"}
        /\ idx \in Nat
        /\ clients \subseteq Ids /\ client_addresses \subseteq Fds /\ heap \subseteq MsgIds
        /\ console \in {"nothing", "exit", "end"} /\ mixup \in BOOLEAN
    BY DEF Init
  <2>8. QED BY <2>1, <2>2, <2>3, <2>4, <2>5, <2>6, <2>7 DEF TypeOK
<1>2. TypeOK /\ [Next]_vars => TypeOK'
  <2> SUFFICES ASSUME TypeOK, [Next]_vars PROVE TypeOK'
    OBVIOUS
  <2>1. CASE ServerStep
    BY <2>1, PollType, HandleType DEF ServerStep
  <2>2. ASSUME NEW s \in Sessions, SubscriberStep(s) \/ \E i \in Ids : Start(s, i),
               UNCHANGED serverVars
        PROVE  TypeOK'
    <3>1. SubscriberTypeOK'
      BY <2>2, SubscriberStepType
    <3>2. QED BY <2>2, <3>1 DEF TypeOK, serverVars
  <2>3. ASSUME NEW t \in Topics, Publish(t) PROVE TypeOK'
    <3>1. udp' \in Seq(Topics) /\ Len(udp') = Len(udp) + 1
      BY <2>3, AppendProperties DEF TypeOK, Publish
    <3>2. Len(published') + Len(udp') <= MaxMessages
      BY <2>3, <3>1, LenProperties, BrokerAssumption DEF TypeOK, Publish
    <3>3. QED
      BY <2>3, <3>1, <3>2
      DEF TypeOK, SubscriberTypeOK, Publish, subscriberVars
  <2>4. CASE ConsoleInput
    BY <2>4 DEF TypeOK, SubscriberTypeOK, ConsoleInput, subscriberVars
  <2>5. CASE UNCHANGED vars
    BY <2>5 DEF TypeOK, SubscriberTypeOK, vars, subscriberVars, serverVars
  <2>6. QED BY <2>1, <2>2, <2>3, <2>4, <2>5 DEF Next
<1>3. QED BY <1>1, <1>2, PTL DEF Spec

---------------------------------------------------------------------------
(* The two tables of subscriptions *)

\* SubscriptionsAgree is not inductive by itself: a client that registers must
\* find no subscription under its id.
SubscriptionsInv ==
    \A p \in Patterns, i \in Ids :
        /\ i \in subscriptions[p] <=> topics[i][p] # "none"
        /\ topics[i][p] # "none" => i \in clients

\* Only SUBSCRIBE and UNSUBSCRIBE touch the tables, and no client is forgotten.
LEMMA SubscriptionSteps ==
    ASSUME [Next]_vars
    PROVE  \/ subscriptions' = subscriptions /\ topics' = topics /\ clients \subseteq clients'
           \/ \E k \in DOMAIN poll_set, f \in Fds, i \in Ids :
                 HandleSubscribe(k, f, i) \/ HandleUnsubscribe(k, f, i)
<1> DEFINE Kept == subscriptions' = subscriptions /\ topics' = topics /\ clients \subseteq clients'
<1>1. ASSUME NEW k \in DOMAIN poll_set, NEW f \in Fds, NEW i \in Ids,
             \/ Register(k, f, i)
             \/ Reject(k, f, i)
             \/ Reconnect(k, f, i)
             \/ DieReconnecting(k, f, i)
             \/ HandleExit(k, f, i)
      PROVE  Kept
  BY <1>1 DEF Register, Reject, Reconnect, DieReconnecting, HandleExit, Die
<1>2. ASSUME NEW k \in DOMAIN poll_set, NEW f \in Fds, Disconnect(k, f) \/ Accept(k, f)
      PROVE  Kept
  BY <1>2 DEF Disconnect, Accept
<1>3. ASSUME NEW k \in DOMAIN poll_set,
             AcceptFails(k) \/ Distribute(k) \/ DieDistributing(k)
               \/ ReadEnd(k) \/ Shutdown(k) \/ DieShuttingDown(k)
      PROVE  Kept
  BY <1>3 DEF AcceptFails, Distribute, DieDistributing, ReadEnd, Shutdown, DieShuttingDown, Die
<1>4. CASE Poll \/ (\E t \in Topics : Publish(t)) \/ ConsoleInput
  BY <1>4 DEF Poll, Publish, ConsoleInput
<1>5. CASE UNCHANGED serverVars \/ UNCHANGED vars
  BY <1>5 DEF vars, serverVars
<1>6. QED
  BY <1>1, <1>2, <1>3, <1>4, <1>5 DEF Next, ServerStep, Handle, HandleClient

LEMMA SubscriptionsInvariant == Spec => []SubscriptionsInv
<1>1. Init => SubscriptionsInv
  BY DEF Init, SubscriptionsInv
<1>2. TypeOK /\ SubscriptionsInv /\ [Next]_vars => SubscriptionsInv'
  <2> SUFFICES ASSUME TypeOK, SubscriptionsInv, [Next]_vars PROVE SubscriptionsInv'
    OBVIOUS
  <2>1. CASE subscriptions' = subscriptions /\ topics' = topics /\ clients \subseteq clients'
    BY <2>1 DEF SubscriptionsInv
  <2>2. ASSUME NEW k \in DOMAIN poll_set, NEW f \in Fds, NEW i \in Ids,
               HandleSubscribe(k, f, i) \/ HandleUnsubscribe(k, f, i)
        PROVE  SubscriptionsInv'
    <3> DEFINE r == Head(inbox[peer[f]])
    <3>1. r.topic \in Patterns
      BY <2>2, CommandType DEF HandleSubscribe, HandleUnsubscribe
    <3>2. clients' = clients
      BY <2>2 DEF HandleSubscribe, HandleUnsubscribe
    <3>3. \/ subscriptions' = subscriptions /\ topics' = topics
          \/ /\ i \in clients
             /\ subscriptions' = [subscriptions EXCEPT ![r.topic] = @ \cup {i}]
             /\ \E flag \in {"live", "sf"} : topics' = [topics EXCEPT ![i][r.topic] = flag]
          \/ /\ subscriptions' = [subscriptions EXCEPT ![r.topic] = @ \ {i}]
             /\ topics' = [topics EXCEPT ![i][r.topic] = "none"]
      BY <2>2 DEF HandleSubscribe, HandleUnsubscribe, Unlisted
    <3> HIDE DEF r
    <3>4. CASE subscriptions' = subscriptions /\ topics' = topics
      BY <3>2, <3>4 DEF SubscriptionsInv
    <3>5. ASSUME i \in clients,
                 subscriptions' = [subscriptions EXCEPT ![r.topic] = @ \cup {i}],
                 NEW flag \in {"live", "sf"},
                 topics' = [topics EXCEPT ![i][r.topic] = flag],
                 NEW p \in Patterns, NEW j \in Ids
          PROVE  /\ j \in subscriptions'[p] <=> topics'[j][p] # "none"
                 /\ topics'[j][p] # "none" => j \in clients
      <4>1. CASE j = i /\ p = r.topic
        BY <3>5, <4>1 DEF TypeOK
      <4>2. CASE ~(j = i /\ p = r.topic)
        BY <3>5, <4>2 DEF TypeOK, SubscriptionsInv
      <4>3. QED BY <4>1, <4>2
    <3>6. ASSUME subscriptions' = [subscriptions EXCEPT ![r.topic] = @ \ {i}],
                 topics' = [topics EXCEPT ![i][r.topic] = "none"],
                 NEW p \in Patterns, NEW j \in Ids
          PROVE  /\ j \in subscriptions'[p] <=> topics'[j][p] # "none"
                 /\ topics'[j][p] # "none" => j \in clients
      <4>1. CASE j = i /\ p = r.topic
        BY <3>6, <4>1 DEF TypeOK
      <4>2. CASE ~(j = i /\ p = r.topic)
        BY <3>6, <4>2 DEF TypeOK, SubscriptionsInv
      <4>3. QED BY <4>1, <4>2
    <3>7. QED BY <3>2, <3>3, <3>4, <3>5, <3>6 DEF SubscriptionsInv
  <2>3. QED BY <2>1, <2>2, SubscriptionSteps
<1>3. QED BY <1>1, <1>2, TypeCorrect, PTL DEF Spec

\* The table of each pattern and the table of each client always list the same
\* subscriptions, whatever connections come, go, are refused or lost.
THEOREM SubscriptionTablesAgree == Spec => []SubscriptionsAgree
<1>1. SubscriptionsInv => SubscriptionsAgree
  BY DEF SubscriptionsInv, SubscriptionsAgree
<1>2. QED BY <1>1, SubscriptionsInvariant, PTL
=============================================================================
