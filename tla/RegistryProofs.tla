--------------------------- MODULE RegistryProofs ---------------------------
(***************************************************************************)
(* The registry of the clients, the connections it points to, and what     *)
(* ends the server, for every value of the constants.                      *)
(***************************************************************************)
EXTENDS PollProofs, WellFoundedInduction

\* The groups of variables that steps leave unchanged.
USE DEF registry, tables, queues, sockets, datagrams, kept

\* No CONNECT of session s waits to be read.
NoConnect(s) == \A k \in 1..Len(inbox[s]) : inbox[s][k].type # "MESSAGE"

\* Session s has sent its CONNECT and the server has read it, or s has been
\* cut off; neither is undone.
Past(s) == link[s] \notin {"none", "connecting"} /\ NoConnect(s)

\* The server has read the CONNECT of session s: as Past, and there is still
\* something by which to know that it was sent.
Entered(s) == (link[s] \in {"open", "exiting"} \/ inbox[s] # <<>>) /\ NoConnect(s)

\* A session sends CONNECT first, and once.
ConnectFirst ==
    \A s \in Sessions :
        /\ link[s] \in {"none", "connecting"} => inbox[s] = <<>>
        /\ \A k \in 1..Len(inbox[s]) : inbox[s][k].type = "MESSAGE" => k = 1

\* Nobody reads from a connection that has not been accepted.
Waiting ==
    \A s \in Sessions : (\E k \in 1..Len(listenq) : listenq[k] = s) => ~Entered(s)

\* RegistrySound, with what keeps a client's own connection from being refused.
Held ==
    \A i \in Connected :
        /\ fd[i] \in Fds
        /\ \E s \in Sessions : peer[fd[i]] = s /\ owner[s] = i /\ Past(s)

\* The converse, for every session that Entered and not only those running.
AllHeld ==
    \A f \in Fds, s \in Sessions :
        peer[f] = s /\ Entered(s) => owner[s] \in Connected /\ fd[owner[s]] = f

RegistryInv ==
    /\ ConnectFirst
    /\ Waiting
    /\ status = "running" /\ ~mixup => Held /\ AllHeld

---------------------------------------------------------------------------
(* The steps of sessions *)

\* A step after which each session is as far as it was, or as good as.
Calm ==
    /\ UNCHANGED <<status, clients, fd, connected, peer, listenq, owner, mixup>>
    /\ ConnectFirst'
    /\ \A s \in Sessions : (Past(s) => Past(s)') /\ (Entered(s)' => Entered(s))

\* What a write does to the connections.
Written ==
    \A s \in Sessions : link'[s] = link[s] \/ (link[s] = "fin" /\ link'[s] = "finrst")

LEMMA StruckWritten ==
    ASSUME TypeOK, NEW q, link' = Struck(q)
    PROVE  Written
  BY DEF TypeOK, SubscriberTypeOK, Struck, Written

LEMMA UnreadCalm ==
    ASSUME ConnectFirst, Written, inbox' = inbox,
           UNCHANGED <<status, clients, fd, connected, peer, listenq, owner, mixup>>
    PROVE  Calm
  BY DEF ConnectFirst, Written, Calm, Past, Entered, NoConnect

\* Session s sends r, which is not CONNECT, and stays or becomes lk.
LEMMA SendCalm ==
    ASSUME TypeOK, ConnectFirst, NEW s \in Sessions, NEW r \in Requests, r.type # "MESSAGE",
           link[s] = "open", inbox' = [inbox EXCEPT ![s] = Append(@, r)],
           link' = link \/ link' = [link EXCEPT ![s] = "exiting"],
           UNCHANGED <<status, clients, fd, connected, peer, listenq, owner, mixup>>
    PROVE  Calm
<1>1. inbox[s] \in Seq(Requests)
  BY DEF TypeOK, SubscriberTypeOK
<1>2. /\ Len(Append(inbox[s], r)) = Len(inbox[s]) + 1 /\ Len(inbox[s]) \in Nat
      /\ \A k \in 1..Len(inbox[s]) : Append(inbox[s], r)[k] = inbox[s][k]
      /\ Append(inbox[s], r)[Len(inbox[s]) + 1] = r
  BY <1>1, AppendProperties
<1>3. /\ inbox'[s] = Append(inbox[s], r)
      /\ \A t \in Sessions : t # s => inbox'[t] = inbox[t] /\ link'[t] = link[t]
      /\ link'[s] \in {"open", "exiting"}
  BY DEF TypeOK, SubscriberTypeOK
<1>4. \A k \in 1..Len(inbox'[s]) :
        (k \in 1..Len(inbox[s]) /\ inbox'[s][k] = inbox[s][k]) \/ inbox'[s][k].type # "MESSAGE"
  BY <1>2, <1>3
<1>5. NoConnect(s)' <=> NoConnect(s)
  BY <1>2, <1>3, <1>4 DEF NoConnect
<1>6. ConnectFirst'
  <2>1. \A k \in 1..Len(inbox'[s]) : inbox'[s][k].type = "MESSAGE" => k = 1
    BY <1>4 DEF ConnectFirst
  <2>2. QED BY <1>3, <2>1 DEF ConnectFirst
<1>7. \A t \in Sessions : (Past(t) => Past(t)') /\ (Entered(t)' => Entered(t))
  <2>1. (Past(s) => Past(s)') /\ (Entered(s)' => Entered(s))
    BY <1>3, <1>5 DEF Past, Entered
  <2>2. ASSUME NEW t \in Sessions, t # s
        PROVE  (Past(t) => Past(t)') /\ (Entered(t)' => Entered(t))
    BY <1>3, <2>2 DEF Past, Entered, NoConnect
  <2>3. QED BY <2>1, <2>2
<1>8. QED BY <1>6, <1>7 DEF Calm

LEMMA SubscriberStepCalm ==
    ASSUME TypeOK, ConnectFirst, NEW s \in Sessions, SubscriberStep(s), UNCHANGED serverVars
    PROVE  Calm
<1>1. /\ UNCHANGED <<status, clients, fd, connected, peer, mixup>>
      /\ UNCHANGED <<owner, listenq>>
  BY DEF serverVars, SubscriberStep, SendConnect, Command, Receive, TypeExit, Close, Kill,
         SeeEnd, Hangup, RstArrives
<1>2. CASE inbox' = inbox /\ link' = link
  BY <1>1, <1>2, UnreadCalm DEF Written
<1>3. ASSUME inbox' = inbox, link[s] \notin {"none"},
             NEW lk \in {"fin", "rst", "gone", "reset"}, link' = [link EXCEPT ![s] = lk]
      PROVE  Calm
  <2>1. \A t \in Sessions : t # s => link'[t] = link[t]
    BY <1>3 DEF TypeOK, SubscriberTypeOK
  <2>2. link'[s] = lk
    BY <1>3 DEF TypeOK, SubscriberTypeOK
  <2>3. ConnectFirst'
    BY <1>3, <2>1, <2>2 DEF ConnectFirst
  <2>4. \A t \in Sessions : NoConnect(t)' <=> NoConnect(t)
    BY <1>3 DEF NoConnect
  <2>5. \A t \in Sessions : (Past(t) => Past(t)') /\ (Entered(t)' => Entered(t))
    BY <1>3, <2>1, <2>2, <2>4 DEF Past, Entered
  <2>6. QED BY <1>1, <2>3, <2>5 DEF Calm
<1>4. CASE SendConnect(s)
  <2>1. Len(inbox'[s]) = 1 /\ inbox'[s][1] = Connect /\ link'[s] = "open"
    <3>1. inbox[s] = <<>> /\ inbox'[s] = Append(inbox[s], Connect) /\ link'[s] = "open"
      BY <1>4 DEF SendConnect, ConnectFirst, TypeOK, SubscriberTypeOK
    <3>2. inbox[s] \in Seq(Requests) /\ Connect \in Requests /\ Len(inbox[s]) = 0
      BY <3>1 DEF TypeOK, SubscriberTypeOK, Requests
    <3>3. QED BY <3>1, <3>2, AppendProperties
  <2>2. \A t \in Sessions : t # s => inbox'[t] = inbox[t] /\ link'[t] = link[t]
    BY <1>4 DEF SendConnect, TypeOK, SubscriberTypeOK
  <2>3. ~NoConnect(s)'
    BY <2>1 DEF NoConnect, Connect
  <2>4. ~Past(s)
    BY <1>4 DEF SendConnect, Past
  <2>5. ASSUME NEW t \in Sessions, t # s
        PROVE  (Past(t) => Past(t)') /\ (Entered(t)' => Entered(t))
    BY <2>2, <2>5 DEF Past, Entered, NoConnect
  <2>6. \A t \in Sessions : (Past(t) => Past(t)') /\ (Entered(t)' => Entered(t))
    BY <2>3, <2>4, <2>5 DEF Entered
  <2>7. ConnectFirst'
    <3>1. \A k \in 1..Len(inbox'[s]) : k = 1
      BY <2>1
    <3>2. QED BY <2>1, <2>2, <3>1 DEF ConnectFirst
  <2>8. QED BY <1>1, <2>6, <2>7 DEF Calm
<1>5. ASSUME NEW r \in Menu, Command(s, r) PROVE Calm
  <2>1. r \in Requests /\ r.type # "MESSAGE"
    BY SubscribersAssumption DEF Commands, Requests
  <2>2. QED BY <1>1, <1>5, <2>1, SendCalm DEF Command
<1>6. CASE Receive(s)
  BY <1>2, <1>6 DEF Receive
<1>7. CASE TypeExit(s)
  <2>1. Exit \in Requests /\ Exit.type # "MESSAGE"
    BY DEF Requests, Exit
  <2>2. QED BY <1>1, <1>7, <2>1, SendCalm DEF TypeExit
<1>8. ASSUME link[s] # "none", Hangup(s) PROVE Calm
  <2>1. HungUp(s) \in {"fin", "rst", "gone", "reset"}
    BY DEF HungUp
  <2>2. QED BY <1>3, <1>8, <2>1 DEF Hangup
<1>9. CASE Close(s) \/ Kill(s) \/ SeeEnd(s)
  BY <1>8, <1>9 DEF Close, Kill, SeeEnd, Alive
<1>10. CASE RstArrives(s)
  BY <1>3, <1>10 DEF RstArrives
<1>11. QED BY <1>4, <1>5, <1>6, <1>7, <1>9, <1>10 DEF SubscriberStep

---------------------------------------------------------------------------
(* The steps of the server *)

\* The server closes connection f and tells no other.
LEMMA ClosedSessions ==
    ASSUME TypeOK, NEW f \in Fds, CloseConnection(f)
    PROVE  /\ \A s \in Sessions :
                 IF s = peer[f]
                   THEN inbox'[s] = <<>> /\ link'[s] \notin {"connecting", "open", "exiting"}
                   ELSE inbox'[s] = inbox[s] /\ link'[s] = link[s]
           /\ \A g \in Fds : peer'[g] = IF g = f THEN 0 ELSE peer[g]
<1>1. \A s \in Sessions : inbox'[s] = IF s = peer[f] THEN <<>> ELSE inbox[s]
  BY DEF TypeOK, SubscriberTypeOK, CloseConnection
<1>2. \A s \in Sessions :
        link'[s] = CASE s # peer[f] \/ link[s] \in {"none", "eof", "ending"} -> link[s]
                     [] s = peer[f] /\ link[s] \in {"connecting", "open"} -> "eof"
                     [] s = peer[f] /\ link[s] = "exiting" -> "ending"
                     [] OTHER -> "gone"
  BY DEF CloseConnection, ServerClosed
<1>3. ASSUME NEW s \in Sessions, s = peer[f]
      PROVE  link'[s] \notin {"connecting", "open", "exiting"}
  BY <1>2, <1>3
<1>4. \A s \in Sessions : s # peer[f] => link'[s] = link[s]
  BY <1>2
<1>5. QED BY <1>1, <1>3, <1>4 DEF TypeOK, CloseConnection

\* One request of session s is read, and nothing is closed.
LEMMA ReadSessions ==
    ASSUME TypeOK, ConnectFirst, NEW s \in Sessions, NEW k, NEW f \in Fds, peer[f] = s,
           NEW i, NEW type, Request(k, f, i, type), TakeRequest(f), Written
    PROVE  /\ ConnectFirst'
           /\ \A t \in Sessions \ {s} : (Past(t) => Past(t)') /\ (Entered(t)' => Entered(t))
           /\ Past(s)'
           /\ NoConnect(s) <=> type # "MESSAGE"
           /\ inbox[s] # <<>>
<1> DEFINE q == inbox[s]
<1>1. q # <<>> /\ q \in Seq(Requests) /\ Head(q).type = type
  BY DEF TypeOK, SubscriberTypeOK, Request
<1>2. inbox'[s] = Tail(q) /\ \A t \in Sessions : t # s => inbox'[t] = inbox[t]
  BY DEF TypeOK, SubscriberTypeOK, TakeRequest
<1>3. \A j \in 1..Len(q) : q[j].type = "MESSAGE" => j = 1
  BY DEF ConnectFirst
<1>4. link[s] \notin {"none", "connecting"} /\ link'[s] \notin {"none", "connecting"}
  BY <1>1 DEF ConnectFirst, Written
<1> HIDE DEF q
<1>5. /\ Len(Tail(q)) = Len(q) - 1 /\ Len(q) \in Nat \ {0}
      /\ \A j \in 1..(Len(q) - 1) : Tail(q)[j] = q[j + 1]
  BY <1>1, HeadTailProperties, EmptySeq
<1>6. \A j \in 1..Len(Tail(q)) : Tail(q)[j].type # "MESSAGE"
  <2> SUFFICES ASSUME NEW j \in 1..(Len(q) - 1) PROVE q[j + 1].type # "MESSAGE"
    BY <1>5
  <2>1. j + 1 \in 1..Len(q) /\ j + 1 # 1
    BY <1>5
  <2>2. QED BY <1>3, <2>1
<1>7. q[1] = Head(q) /\ 1 \in 1..Len(q)
  BY <1>1, <1>5
<1>8. (\A j \in 1..Len(q) : q[j].type # "MESSAGE") <=> type # "MESSAGE"
  BY <1>1, <1>3, <1>7
<1>9. \A j \in 1..Len(inbox'[s]) : inbox'[s][j].type # "MESSAGE"
  BY <1>2, <1>6
<1>10. Past(s)'
  BY <1>4, <1>9 DEF Past, NoConnect
<1>11. NoConnect(s) <=> type # "MESSAGE"
  BY <1>8 DEF q, NoConnect
<1>12. ASSUME NEW t \in Sessions, t # s
       PROVE  /\ (Past(t) => Past(t)') /\ (Entered(t)' => Entered(t))
              /\ link'[t] \in {"none", "connecting"} => inbox'[t] = <<>>
              /\ \A j \in 1..Len(inbox'[t]) : inbox'[t][j].type = "MESSAGE" => j = 1
  BY <1>2, <1>12 DEF Written, ConnectFirst, Past, Entered, NoConnect
<1>13. ConnectFirst'
  BY <1>4, <1>9, <1>12 DEF ConnectFirst
<1>14. QED BY <1>1, <1>10, <1>11, <1>12, <1>13 DEF q

\* SUBSCRIBE and UNSUBSCRIBE leave every session where it is.
LEMMA CommandCalm ==
    ASSUME TypeOK, ConnectFirst, NEW k, NEW f \in Fds, NEW i \in Ids,
           HandleSubscribe(k, f, i) \/ HandleUnsubscribe(k, f, i)
    PROVE  Calm
<1>1. PICK type \in {"SUBSCRIBE", "UNSUBSCRIBE"} : Request(k, f, i, type)
  BY DEF HandleSubscribe, HandleUnsubscribe
<1>2. /\ TakeRequest(f)
      /\ UNCHANGED <<status, clients, fd, connected, peer, listenq, owner, mixup, link>>
  BY DEF HandleSubscribe, HandleUnsubscribe
<1>3. Written
  BY <1>2 DEF Written
<1>4. PICK s \in Sessions : peer[f] = s
  BY <1>1 DEF TypeOK, Request
<1>5. /\ ConnectFirst'
      /\ \A t \in Sessions \ {s} : (Past(t) => Past(t)') /\ (Entered(t)' => Entered(t))
      /\ Past(s)' /\ NoConnect(s) /\ inbox[s] # <<>>
  BY <1>1, <1>2, <1>3, <1>4, ReadSessions
<1>6. Entered(s)
  BY <1>5 DEF Entered
<1>7. QED BY <1>2, <1>5, <1>6 DEF Calm

\* The client i of session s at f is now served there.
Joins(f, s, i) ==
    /\ peer[f] = s /\ owner[s] = i
    /\ i \notin Connected
    /\ clients' = clients \cup {i}
    /\ fd' = [fd EXCEPT ![i] = f]
    /\ connected' = [connected EXCEPT ![i] = TRUE]
    /\ UNCHANGED <<status, peer, listenq, owner, mixup>>
    /\ ConnectFirst'
    /\ \A t \in Sessions \ {s} : (Past(t) => Past(t)') /\ (Entered(t)' => Entered(t))
    /\ Past(s)'

LEMMA MessageJoins ==
    ASSUME TypeOK, ConnectFirst, NEW k, NEW f \in Fds, NEW i \in Ids,
           Register(k, f, i) \/ Reconnect(k, f, i)
    PROVE  \E s \in Sessions : Joins(f, s, i)
<1>1. /\ Request(k, f, i, "MESSAGE") /\ TakeRequest(f)
      /\ i \notin Connected
      /\ fd' = [fd EXCEPT ![i] = f]
      /\ connected' = [connected EXCEPT ![i] = TRUE]
      /\ UNCHANGED <<status, peer, listenq, owner, mixup>>
  BY DEF Register, Reconnect, Connected, Away
<1>2. clients' = clients \cup {i}
  BY DEF Register, Reconnect, Away
<1>3. Written
  <2>1. CASE Register(k, f, i)
    BY <2>1 DEF Register, Written
  <2>2. CASE Reconnect(k, f, i)
    BY <2>2, StruckWritten DEF Reconnect
  <2>3. QED BY <2>1, <2>2
<1>4. PICK s \in Sessions : peer[f] = s
  BY <1>1 DEF TypeOK, Request
<1>5. /\ ConnectFirst'
      /\ \A t \in Sessions \ {s} : (Past(t) => Past(t)') /\ (Entered(t)' => Entered(t))
      /\ Past(s)'
  BY <1>1, <1>3, <1>4, ReadSessions
<1>6. owner[s] = i
  BY <1>1, <1>4 DEF Request
<1>7. QED BY <1>1, <1>2, <1>4, <1>5, <1>6 DEF Joins

\* The process ended, and nothing is left to read or to accept.
Over == Ends /\ inbox' = [s \in Sessions |-> <<>>]

LEMMA RegistrySteps ==
    ASSUME TypeOK, ConnectFirst, [Next]_vars
    PROVE  \/ Over
           \/ Calm
           \/ \E k \in DOMAIN poll_set, f \in Fds :
                 \/ Accept(k, f)
                 \/ \E s \in Sessions, i \in Ids : Joins(f, s, i)
                 \/ \E i \in Ids : Reject(k, f, i) \/ HandleExit(k, f, i)
                 \/ Disconnect(k, f)
           \/ \E s \in Sessions, i \in Ids : Start(s, i) /\ UNCHANGED serverVars
<1>d. ASSUME NEW q, Die(q) PROVE Over
  BY <1>d DEF Die, CloseAllSockets, Ends, Over
<1>w. ASSUME link' = link PROVE Written
  BY <1>w DEF Written
<1>1. ASSUME NEW k \in DOMAIN poll_set, NEW f \in Fds, NEW i \in Ids, DieReconnecting(k, f, i)
      PROVE  Over
  BY <1>1, <1>d DEF DieReconnecting
<1>2. ASSUME NEW k \in DOMAIN poll_set, AcceptFails(k) \/ DieShuttingDown(k) \/ DieDistributing(k)
      PROVE  Over
  BY <1>2, <1>d DEF AcceptFails, DieShuttingDown, DieDistributing
<1>3. ASSUME NEW k \in DOMAIN poll_set, Shutdown(k) PROVE Over
  BY <1>3 DEF Shutdown, CloseAllSockets, Ends, Over
<1>4. ASSUME NEW k \in DOMAIN poll_set, ReadEnd(k) PROVE Calm
  BY <1>4, <1>w, UnreadCalm DEF ReadEnd, GoOn, subscriberVars
<1>5. ASSUME NEW k \in DOMAIN poll_set, Distribute(k) PROVE Calm
  <2>1. /\ link' = Struck(Copies(Live(Head(udp)), Len(published) + 1))
        /\ inbox' = inbox
        /\ UNCHANGED <<status, clients, fd, connected, peer, listenq, owner, mixup>>
    BY <1>5 DEF Distribute, GoOn
  <2>2. QED BY <2>1, StruckWritten, UnreadCalm
<1>6. CASE Poll \/ (\E t \in Topics : Publish(t)) \/ ConsoleInput
  BY <1>6, <1>w, UnreadCalm DEF Poll, Publish, ConsoleInput, subscriberVars
<1>7. CASE UNCHANGED vars
  BY <1>7, <1>w, UnreadCalm DEF vars, subscriberVars, serverVars
<1>8. ASSUME NEW k \in DOMAIN poll_set, NEW f \in Fds, HandleClient(k, f)
      PROVE  \/ Over
             \/ Calm
             \/ \E s \in Sessions, i \in Ids : Joins(f, s, i)
             \/ \E i \in Ids : Reject(k, f, i) \/ HandleExit(k, f, i)
             \/ Disconnect(k, f)
  BY <1>1, <1>8, CommandCalm, MessageJoins DEF HandleClient
<1>9. ASSUME NEW k \in DOMAIN poll_set, Handle(k)
      PROVE  \/ Over
             \/ Calm
             \/ \E f \in Fds : Accept(k, f) \/ HandleClient(k, f)
  BY <1>2, <1>3, <1>4, <1>5, <1>9 DEF Handle
<1>10. CASE ServerStep
  BY <1>6, <1>8, <1>9, <1>10 DEF ServerStep
<1>11. ASSUME NEW s \in Sessions, SubscriberStep(s), UNCHANGED serverVars PROVE Calm
  BY <1>11, SubscriberStepCalm
<1>12. QED BY <1>6, <1>7, <1>10, <1>11 DEF Next

---------------------------------------------------------------------------
(* Each kind of step keeps the invariant *)

LEMMA OverKeeps == Over => RegistryInv'
  BY DEF Over, Ends, RegistryInv, ConnectFirst, Waiting

LEMMA CalmKeeps == TypeOK /\ RegistryInv /\ Calm => RegistryInv'
<1> SUFFICES ASSUME TypeOK, RegistryInv, Calm PROVE RegistryInv'
  OBVIOUS
<1>1. Connected' = Connected
  BY DEF Connected, Calm
<1>2. Waiting'
  BY DEF RegistryInv, Waiting, Calm
<1>3. ASSUME Held PROVE Held'
  BY <1>1, <1>3 DEF Held, Calm
<1>4. ASSUME AllHeld PROVE AllHeld'
  BY <1>1, <1>4 DEF AllHeld, Calm
<1>5. QED BY <1>2, <1>3, <1>4 DEF RegistryInv, Calm

LEMMA StartKeepsRegistry ==
    ASSUME TypeOK, PollInv, RegistryInv, NEW s \in Sessions, NEW i \in Ids,
           Start(s, i), UNCHANGED serverVars
    PROVE  RegistryInv'
<1>1. /\ listenq' = Append(listenq, s) /\ listenq \in Seq(Sessions)
      /\ link[s] = "none" /\ link'[s] = "connecting" /\ inbox' = inbox
      /\ \A t \in Sessions : t # s => link'[t] = link[t] /\ owner'[t] = owner[t]
      /\ UNCHANGED <<status, peer, clients, fd, connected, mixup>>
  BY DEF TypeOK, SubscriberTypeOK, Start, serverVars
<1>2. inbox[s] = <<>>
  BY <1>1 DEF RegistryInv, ConnectFirst
<1>3. /\ ~Entered(s)'
      /\ \A t \in Sessions : t # s => (Past(t)' <=> Past(t)) /\ (Entered(t)' <=> Entered(t))
  BY <1>1, <1>2 DEF Past, Entered, NoConnect
<1>4. \A f \in Fds : peer[f] # s
  BY <1>1, SubscribersAssumption DEF PollInv, Admission, Sessions
<1>5. ConnectFirst'
  BY <1>1, <1>2 DEF RegistryInv, ConnectFirst
<1>6. Waiting'
  <2> SUFFICES ASSUME NEW t \in Sessions, NEW k \in 1..Len(listenq'), listenq'[k] = t, t # s
               PROVE  ~Entered(t)'
    BY <1>3 DEF Waiting
  <2>1. /\ Len(listenq') = Len(listenq) + 1 /\ Len(listenq) \in Nat
        /\ listenq'[Len(listenq) + 1] = s
        /\ \A j \in 1..Len(listenq) : listenq'[j] = listenq[j]
    BY <1>1, AppendProperties
  <2>2. k \in 1..Len(listenq) /\ listenq[k] = t
    BY <2>1
  <2>3. QED BY <1>3, <2>2 DEF RegistryInv, Waiting
<1>7. Connected' = Connected
  BY <1>1 DEF Connected
<1>8. ASSUME Held PROVE Held'
  <2> SUFFICES ASSUME NEW j \in Connected
               PROVE  /\ fd[j] \in Fds
                      /\ \E t \in Sessions : peer[fd[j]] = t /\ owner'[t] = j /\ Past(t)'
    BY <1>1, <1>7 DEF Held
  <2>1. fd[j] \in Fds
    BY <1>8 DEF Held
  <2>2. PICK t \in Sessions : peer[fd[j]] = t /\ owner[t] = j /\ Past(t)
    BY <1>8 DEF Held
  <2>3. t # s
    BY <1>4, <2>1, <2>2
  <2>4. QED BY <1>1, <1>3, <2>1, <2>2, <2>3
<1>9. ASSUME AllHeld PROVE AllHeld'
  <2> SUFFICES ASSUME NEW f \in Fds, NEW t \in Sessions, peer[f] = t, Entered(t)'
               PROVE  owner'[t] \in Connected /\ fd[owner'[t]] = f
    BY <1>1, <1>7 DEF AllHeld
  <2>1. t # s
    BY <1>4
  <2>2. QED BY <1>1, <1>3, <1>9, <2>1 DEF AllHeld
<1>10. QED BY <1>1, <1>5, <1>6, <1>8, <1>9 DEF RegistryInv

LEMMA AcceptKeepsRegistry ==
    ASSUME TypeOK, PollInv, RegistryInv, NEW k \in DOMAIN poll_set, NEW f \in Fds, Accept(k, f)
    PROVE  RegistryInv'
<1>1. /\ listenq' = Tail(listenq) /\ listenq # <<>> /\ listenq \in Seq(Sessions)
      /\ peer' = [peer EXCEPT ![f] = Head(listenq)] /\ peer[f] = 0
      /\ UNCHANGED <<status, clients, fd, connected, owner, link, inbox, mixup>>
  BY DEF TypeOK, SubscriberTypeOK, Accept, GoOn
<1>2. PICK s \in Sessions : listenq[1] = s
  BY <1>1, HeadTailProperties
<1>3. /\ Len(listenq) \in Nat /\ Len(listenq) >= 1
      /\ Len(listenq') = Len(listenq) - 1
      /\ \A j \in 1..(Len(listenq) - 1) : listenq'[j] = listenq[j + 1]
      /\ Head(listenq) = s
  BY <1>1, <1>2, HeadTailProperties
<1>4. \A g \in Fds : peer'[g] = IF g = f THEN s ELSE peer[g]
  BY <1>1, <1>3 DEF TypeOK
<1>5. \A t \in Sessions : (Past(t)' <=> Past(t)) /\ (Entered(t)' <=> Entered(t))
  BY <1>1 DEF Past, Entered, NoConnect
<1>6. ~Entered(s)
  BY <1>2, <1>3 DEF RegistryInv, Waiting
<1>7. ConnectFirst'
  BY <1>1 DEF RegistryInv, ConnectFirst
<1>8. Waiting'
  <2> SUFFICES ASSUME NEW t \in Sessions, NEW j \in 1..Len(listenq'), listenq'[j] = t
               PROVE  ~Entered(t)
    BY <1>5 DEF Waiting
  <2>1. j + 1 \in 1..Len(listenq) /\ listenq[j + 1] = t
    BY <1>3
  <2>2. QED BY <2>1 DEF RegistryInv, Waiting
<1>9. Connected' = Connected
  BY <1>1 DEF Connected
<1>10. ASSUME Held PROVE Held'
  <2> SUFFICES ASSUME NEW j \in Connected
               PROVE  /\ fd[j] \in Fds
                      /\ \E t \in Sessions : peer'[fd[j]] = t /\ owner[t] = j /\ Past(t)'
    BY <1>1, <1>9 DEF Held
  <2>1. fd[j] \in Fds
    BY <1>10 DEF Held
  <2>2. PICK t \in Sessions : peer[fd[j]] = t /\ owner[t] = j /\ Past(t)
    BY <1>10 DEF Held
  <2>3. fd[j] # f
    BY <1>1, <2>2, SubscribersAssumption DEF Sessions
  <2>4. QED BY <1>4, <1>5, <2>1, <2>2, <2>3
<1>11. ASSUME AllHeld PROVE AllHeld'
  <2> SUFFICES ASSUME NEW g \in Fds, NEW t \in Sessions, peer'[g] = t, Entered(t)
               PROVE  owner[t] \in Connected /\ fd[owner[t]] = g
    BY <1>1, <1>5, <1>9 DEF AllHeld
  <2>1. g # f
    BY <1>4, <1>6
  <2>2. QED BY <1>4, <1>11, <2>1 DEF AllHeld
<1>12. QED BY <1>1, <1>7, <1>8, <1>10, <1>11 DEF RegistryInv

LEMMA JoinsKeeps ==
    ASSUME TypeOK, PollInv, RegistryInv, NEW f \in Fds, NEW s \in Sessions, NEW i \in Ids,
           Joins(f, s, i)
    PROVE  RegistryInv'
<1>1. /\ peer[f] = s /\ owner[s] = i /\ i \notin Connected
      /\ \A j \in Ids : fd'[j] = IF j = i THEN f ELSE fd[j]
      /\ UNCHANGED <<status, peer, listenq, owner, mixup>>
      /\ ConnectFirst'
      /\ \A t \in Sessions : t # s => (Past(t) => Past(t)') /\ (Entered(t)' => Entered(t))
      /\ Past(s)'
  BY DEF TypeOK, Joins
<1>2. Connected' = Connected \cup {i}
  BY DEF TypeOK, Joins, Connected
<1>3. /\ \A j \in 1..Len(listenq) : listenq[j] # s
      /\ \A g \in Fds : peer[g] = s => g = f
  BY <1>1, SubscribersAssumption DEF PollInv, Admission, Sessions
<1>4. Waiting'
  BY <1>1, <1>3 DEF RegistryInv, Waiting
<1>5. ASSUME Held PROVE Held'
  <2> SUFFICES ASSUME NEW j \in Connected \cup {i}
               PROVE  /\ fd'[j] \in Fds
                      /\ \E t \in Sessions : peer[fd'[j]] = t /\ owner[t] = j /\ Past(t)'
    BY <1>1, <1>2 DEF Held
  <2>1. CASE j = i
    BY <1>1, <2>1
  <2>2. CASE j # i
    <3>1. j \in Connected /\ j \in Ids /\ fd'[j] = fd[j]
      BY <1>1, <2>2 DEF TypeOK, Connected
    <3>2. PICK t \in Sessions : peer[fd[j]] = t /\ owner[t] = j /\ Past(t)
      BY <1>5, <3>1 DEF Held
    <3>3. t # s
      BY <1>1, <2>2, <3>2
    <3>4. QED BY <1>1, <1>5, <3>1, <3>2, <3>3 DEF Held
  <2>3. QED BY <2>1, <2>2
<1>6. ASSUME AllHeld PROVE AllHeld'
  <2> SUFFICES ASSUME NEW g \in Fds, NEW t \in Sessions, peer[g] = t, Entered(t)'
               PROVE  owner[t] \in Connected \cup {i} /\ fd'[owner[t]] = g
    BY <1>1, <1>2 DEF AllHeld
  <2>1. CASE t = s
    BY <1>1, <1>3, <2>1
  <2>2. CASE t # s
    <3>1. owner[t] \in Connected /\ fd[owner[t]] = g
      BY <1>1, <1>6, <2>2 DEF AllHeld
    <3>2. owner[t] \in Ids /\ owner[t] # i
      BY <1>1, <3>1 DEF TypeOK, Connected
    <3>3. QED BY <1>1, <3>1, <3>2
  <2>3. QED BY <2>1, <2>2
<1>7. QED BY <1>1, <1>4, <1>5, <1>6 DEF RegistryInv

\* What a handler that closes f leaves of the rest.
LEMMA ClosedElsewhere ==
    ASSUME TypeOK, PollInv, RegistryInv, NEW f \in Fds, CloseConnection(f),
           UNCHANGED <<listenq, owner>>
    PROVE  /\ ConnectFirst'
           /\ Waiting'
           /\ \A g \in Fds : peer'[g] = IF g = f THEN 0 ELSE peer[g]
           /\ \A g \in Fds \ {f}, t \in Sessions :
                 peer[g] = t => (Past(t)' <=> Past(t)) /\ (Entered(t)' <=> Entered(t))
<1>1. /\ \A s \in Sessions :
            IF s = peer[f]
              THEN inbox'[s] = <<>> /\ link'[s] \notin {"connecting", "open", "exiting"}
              ELSE inbox'[s] = inbox[s] /\ link'[s] = link[s]
      /\ \A g \in Fds : peer'[g] = IF g = f THEN 0 ELSE peer[g]
  BY ClosedSessions
<1>2. \A t \in Sessions :
        t # peer[f] => (Past(t)' <=> Past(t)) /\ (Entered(t)' <=> Entered(t))
  BY <1>1 DEF Past, Entered, NoConnect
<1>3. \A t \in Sessions : Entered(t)' => t # peer[f]
  BY <1>1 DEF Entered
<1>4. ConnectFirst'
  BY <1>1 DEF RegistryInv, ConnectFirst
<1>5. Waiting'
  BY <1>2, <1>3 DEF RegistryInv, Waiting
<1>6. \A g \in Fds \ {f} : peer[g] \in Sessions => peer[g] # peer[f]
  BY SubscribersAssumption DEF PollInv, Admission, Sessions
<1>7. QED BY <1>1, <1>2, <1>4, <1>5, <1>6

\* A connection is closed, the clients of gone are away, and no client that
\* is still connected had it.
LEMMA ClosingKeepsRegistry ==
    ASSUME TypeOK, PollInv, RegistryInv, NEW f \in Fds, CloseConnection(f), NEW gone,
           status = "running" /\ ~mixup => Held /\ AllHeld,
           UNCHANGED <<status, listenq, owner, clients, fd>>, ~mixup' => ~mixup,
           Connected' = Connected \ gone,
           ~mixup' /\ Held => \A i \in Connected \ gone : fd[i] # f,
           ~mixup' /\ Held /\ AllHeld => \A i \in gone \cap Connected : fd[i] = f
    PROVE  RegistryInv'
<1>1. /\ ConnectFirst'
      /\ Waiting'
      /\ \A g \in Fds : peer'[g] = IF g = f THEN 0 ELSE peer[g]
      /\ \A g \in Fds \ {f}, t \in Sessions :
            peer[g] = t => (Past(t)' <=> Past(t)) /\ (Entered(t)' <=> Entered(t))
  BY ClosedElsewhere
<1>2. ASSUME ~mixup', Held PROVE Held'
  <2> SUFFICES ASSUME NEW j \in Connected \ gone
               PROVE  /\ fd[j] \in Fds
                      /\ \E t \in Sessions : peer'[fd[j]] = t /\ owner[t] = j /\ Past(t)'
    BY DEF Held
  <2>1. fd[j] # f /\ fd[j] \in Fds
    BY <1>2 DEF Held
  <2>2. PICK t \in Sessions : peer[fd[j]] = t /\ owner[t] = j /\ Past(t)
    BY <1>2 DEF Held
  <2>3. QED BY <1>1, <2>1, <2>2
<1>3. ASSUME ~mixup', Held, AllHeld PROVE AllHeld'
  <2> SUFFICES ASSUME NEW g \in Fds, NEW t \in Sessions, peer'[g] = t, Entered(t)'
               PROVE  owner[t] \in Connected \ gone /\ fd[owner[t]] = g
    BY DEF AllHeld
  <2>1. g # f /\ peer[g] = t
    BY <1>1, SubscribersAssumption DEF Sessions
  <2>2. Entered(t)
    BY <1>1, <2>1
  <2>3. owner[t] \in Connected /\ fd[owner[t]] = g
    BY <1>3, <2>1, <2>2 DEF AllHeld
  <2>4. QED BY <1>3, <2>1, <2>3
<1>4. QED BY <1>1, <1>2, <1>3 DEF RegistryInv

\* A client that is connected elsewhere is refused, and not the one connected.
LEMMA RejectKeeps ==
    ASSUME TypeOK, PollInv, RegistryInv, NEW k, NEW f \in Fds, NEW i \in Ids, Reject(k, f, i)
    PROVE  RegistryInv'
<1>1. /\ Request(k, f, i, "MESSAGE") /\ CloseConnection(f)
      /\ UNCHANGED <<status, listenq, owner, clients, fd, connected, mixup>>
  BY DEF Reject
<1>2. PICK s \in Sessions : peer[f] = s /\ owner[s] = i
  BY <1>1 DEF TypeOK, Request
<1>3. ~Past(s)
  <2>1. /\ inbox[s] \in Seq(Requests) /\ inbox[s] # <<>>
        /\ Head(inbox[s]).type = "MESSAGE"
    BY <1>1, <1>2 DEF TypeOK, SubscriberTypeOK, Request
  <2>2. 1 \in 1..Len(inbox[s]) /\ inbox[s][1].type = "MESSAGE"
    BY <2>1, EmptySeq
  <2>3. QED BY <2>2 DEF Past, NoConnect
<1>4. ASSUME Held, NEW j \in Connected, fd[j] = f PROVE FALSE
  BY <1>2, <1>3, <1>4 DEF Held
<1>5. Connected' = Connected \ {}
  BY <1>1 DEF Connected
<1>6. QED BY <1>1, <1>4, <1>5, ClosingKeepsRegistry DEF RegistryInv

\* EXIT comes from the connection under which its client is registered.
LEMMA ExitKeeps ==
    ASSUME TypeOK, PollInv, RegistryInv, NEW k, NEW f \in Fds, NEW i \in Ids,
           HandleExit(k, f, i)
    PROVE  RegistryInv'
<1>1. /\ Request(k, f, i, "EXIT") /\ CloseConnection(f)
      /\ UNCHANGED <<status, listenq, owner, clients, fd, mixup>>
      /\ connected' = [connected EXCEPT ![i] = IF i \in clients THEN FALSE ELSE @]
  BY DEF HandleExit
<1>2. PICK s \in Sessions : peer[f] = s /\ owner[s] = i
  BY <1>1 DEF TypeOK, Request
<1>3. Connected' = Connected \ {i}
  BY <1>1 DEF TypeOK, Connected
<1>4. Entered(s)
  <2>1. /\ inbox[s] \in Seq(Requests) /\ inbox[s] # <<>>
        /\ Head(inbox[s]).type = "EXIT"
        /\ \A j \in 1..Len(inbox[s]) : inbox[s][j].type = "MESSAGE" => j = 1
    BY <1>1, <1>2 DEF TypeOK, SubscriberTypeOK, Request, RegistryInv, ConnectFirst
  <2>2. inbox[s][1].type = "EXIT"
    BY <2>1, EmptySeq
  <2>3. QED BY <2>1, <2>2 DEF Entered, NoConnect
<1>5. ASSUME Held, NEW j \in Connected, j # i PROVE fd[j] # f
  BY <1>2, <1>5 DEF Held
<1>6. ASSUME AllHeld PROVE fd[i] = f
  BY <1>2, <1>4, <1>6 DEF AllHeld
<1>7. /\ Held => \A j \in Connected \ {i} : fd[j] # f
      /\ AllHeld => \A j \in {i} \cap Connected : fd[j] = f
  BY <1>5, <1>6
<1>8. QED BY <1>1, <1>3, <1>7, ClosingKeepsRegistry DEF RegistryInv

\* A nonempty set of numbers has a least.
LEMMA Least ==
    ASSUME NEW S, S \subseteq Nat, S # {}
    PROVE  \E m \in S : \A n \in S : m <= n
<1>1. PICK m \in S : \A n \in S : <<n, m>> \notin OpToRel(<, Nat)
  BY NatLessThanWellFounded, WFMin
<1>2. \A n \in S : ~(n < m)
  BY <1>1 DEF OpToRel
<1>3. QED BY <1>2

\* If the client connected by way of f is not marked, it is for one of the two
\* reasons: no other connected client has f, so the first one with it is away.
LEMMA DisconnectCharged ==
    ASSUME TypeOK, Held, NEW f, NEW i \in Connected \ Marked(f), fd[i] = f
    PROVE  Mischarged(f)
<1> DEFINE S == {j \in clients : fd[j] = f}
<1>1. S \subseteq Nat /\ i \in S
  BY SubscribersAssumption DEF TypeOK, Connected
<1>2. PICK m \in S : \A n \in S : m <= n
  BY <1>1, Least
<1>3. CASE m = i
  <2>1. i \in FirstWith(f)
    BY <1>2, <1>3 DEF FirstWith
  <2>2. i = EMPTY
    BY <2>1 DEF Marked
  <2>3. QED BY <2>2 DEF Mischarged
<1>4. CASE m # i
  <2>1. m \in Nat /\ i \in Nat /\ m < i
    BY <1>1, <1>2, <1>4
  <2>2. m \notin Connected
    BY <1>2, <1>4 DEF Held
  <2>3. Away(m) /\ fd[m] = f /\ m \in clients
    BY <1>2, <2>2 DEF Away, Connected
  <2>4. QED BY <2>1, <2>3 DEF Mischarged
<1>5. QED BY <1>3, <1>4

LEMMA DisconnectKeeps ==
    ASSUME TypeOK, PollInv, RegistryInv, NEW k, NEW f \in Fds, Disconnect(k, f)
    PROVE  RegistryInv'
<1>1. /\ CloseConnection(f)
      /\ UNCHANGED <<status, listenq, owner, clients, fd>>
      /\ connected' = [i \in Ids |-> connected[i] /\ i \notin Marked(f)]
      /\ mixup' = (mixup \/ Mischarged(f))
  BY DEF Disconnect
<1>2. Connected' = Connected \ Marked(f)
  BY <1>1 DEF TypeOK, Connected
<1>3. ASSUME ~mixup', Held, NEW i \in Connected \ Marked(f) PROVE fd[i] # f
  BY <1>1, <1>3, DisconnectCharged
<1>4. \A i \in Marked(f) : fd[i] = f
  BY DEF Marked, FirstWith
<1>5. ~mixup' => ~mixup
  BY <1>1
<1>6. QED BY <1>1, <1>2, <1>3, <1>4, <1>5, ClosingKeepsRegistry DEF RegistryInv

---------------------------------------------------------------------------

LEMMA RegistryInvariant == Spec => []RegistryInv
<1>1. Init => RegistryInv
  <2> SUFFICES ASSUME Init PROVE RegistryInv
    OBVIOUS
  <2>1. ConnectFirst /\ Waiting
    BY DEF Init, SubscriberInit, ConnectFirst, Waiting
  <2>2. Held
    BY DEF Init, Held, Connected
  <2>3. AllHeld
    BY SubscribersAssumption DEF Init, AllHeld, Sessions
  <2>4. QED BY <2>1, <2>2, <2>3 DEF RegistryInv
<1>2. TypeOK /\ PollInv /\ RegistryInv /\ [Next]_vars => RegistryInv'
  <2> SUFFICES ASSUME TypeOK, PollInv, RegistryInv, [Next]_vars PROVE RegistryInv'
    OBVIOUS
  <2>1. ConnectFirst
    BY DEF RegistryInv
  <2>2. QED
    BY <2>1, RegistrySteps, OverKeeps, CalmKeeps, StartKeepsRegistry, AcceptKeepsRegistry,
       JoinsKeeps, RejectKeeps, ExitKeeps, DisconnectKeeps
<1>3. QED BY <1>1, <1>2, TypeCorrect, PollInvariant, PTL DEF Spec

\* A client marked connected has an open connection of its own, although ids
\* are claimed twice, descriptors are reused and a client that leaves keeps the
\* number of its old one, until a disconnect misses its client; which happens
\* to the empty id, and to a client listed after one that is away and has its
\* number, and in no other way.
THEOREM RegistryStaysSound == Spec => []RegistrySoundUnlessMixup
<1>1. RegistryInv => RegistrySoundUnlessMixup
  <2> SUFFICES ASSUME RegistryInv, ~mixup, status = "running", NEW i \in Connected
               PROVE  peer[fd[i]] # 0 /\ owner[peer[fd[i]]] = i
    BY DEF RegistrySoundUnlessMixup, RegistrySound
  <2>1. PICK s \in Sessions : peer[fd[i]] = s /\ owner[s] = i
    BY DEF RegistryInv, Held
  <2>2. QED BY <2>1, SubscribersAssumption DEF Sessions
<1>2. QED BY <1>1, RegistryInvariant, PTL

\* While no disconnect misses its client, a running session whose CONNECT
\* was handled is the one its client is registered under: one id is never
\* served on two connections, and no client with one is held for away.
THEOREM JoinedStayRegistered == Spec => []JoinedIsRegistered
<1>1. TypeOK /\ RegistryInv => JoinedIsRegistered
  <2> SUFFICES ASSUME TypeOK, RegistryInv, status = "running", ~mixup,
                      NEW f \in Fds, peer[f] # 0, Joined(peer[f])
               PROVE  connected[owner[peer[f]]] /\ fd[owner[peer[f]]] = f
    BY DEF JoinedIsRegistered
  <2>1. PICK s \in Sessions : peer[f] = s
    BY DEF TypeOK
  <2>2. /\ link[s] \in {"open", "exiting"}
        /\ \A k \in DOMAIN inbox[s] : inbox[s][k] # Connect
        /\ inbox[s] \in Seq(Requests)
    BY <2>1 DEF TypeOK, SubscriberTypeOK, Joined
  <2>3. \A r \in Requests : r.type = "MESSAGE" => r = Connect
    BY DEF Requests, Commands, Exit
  <2>4. NoConnect(s)
    BY <2>2, <2>3 DEF NoConnect
  <2>5. owner[s] \in Connected /\ fd[owner[s]] = f
    BY <2>1, <2>2, <2>4 DEF RegistryInv, AllHeld, Entered
  <2>6. QED BY <2>1, <2>5 DEF Connected
<1>2. QED BY <1>1, TypeCorrect, RegistryInvariant, PTL

---------------------------------------------------------------------------
(* What ends the server *)

\* Some connection of the server was closed by its subscriber.
Departure ==
    \E f \in Fds : peer[f] # 0 /\ link[peer[f]] \in {"fin", "finrst", "reset"}

\* A write to a connected client fails only if its subscriber has gone.
LEMMA FatalWrite ==
    ASSUME RegistryInv, status = "running", ~mixup, NEW i \in Connected,
           WriteKills(fd[i]) \/ WriteMayKill(fd[i])
    PROVE  Departure
<1>1. fd[i] \in Fds /\ \E s \in Sessions : peer[fd[i]] = s
  BY DEF RegistryInv, Held
<1>2. peer[fd[i]] # 0
  BY <1>1, SubscribersAssumption DEF Sessions
<1>3. QED BY <1>1, <1>2 DEF WriteKills, WriteMayKill, Departure

LEMMA StepDies ==
    ASSUME RegistryInv, [Next]_vars, status = "running", status' = "dead", ~mixup
    PROVE  (\A f \in Fds : peer[f] # 0) \/ Departure
<1>1. ASSUME NEW k, AcceptFails(k) PROVE \A f \in Fds : peer[f] # 0
  BY <1>1 DEF AcceptFails
<1>2. ASSUME NEW k, DieDistributing(k) PROVE Departure
  <2>1. PICK i \in Live(Head(udp)) : WriteMayKill(fd[i])
    BY <1>2 DEF DieDistributing
  <2>2. QED BY <2>1, FatalWrite DEF Live, Connected
<1>3. ASSUME NEW k, DieShuttingDown(k) PROVE Departure
  BY <1>3, FatalWrite DEF DieShuttingDown
<1>4. ASSUME NEW k, NEW f \in Fds, NEW i \in Ids, DieReconnecting(k, f, i) PROVE Departure
  BY <1>4 DEF DieReconnecting, Request, WriteMayKill, Departure
<1>5. ASSUME NEW k, NEW f \in Fds, HandleClient(k, f),
             ~(\E i \in Ids : DieReconnecting(k, f, i))
      PROVE  FALSE
  BY <1>5 DEF HandleClient, Register, Reject, Reconnect, HandleSubscribe, HandleUnsubscribe,
     HandleExit, Disconnect
<1>6. ASSUME NEW k, Handle(k)
      PROVE  \/ AcceptFails(k) \/ DieDistributing(k) \/ DieShuttingDown(k)
             \/ \E f \in Fds, i \in Ids : DieReconnecting(k, f, i)
  <2>1. /\ ~Distribute(k) /\ ~ReadEnd(k) /\ ~Shutdown(k)
        /\ \A f \in Fds : ~Accept(k, f)
    BY DEF Distribute, ReadEnd, Shutdown, Accept
  <2>2. QED BY <1>5, <1>6, <2>1 DEF Handle
<1>7. ServerStep /\ ~Poll
  BY DEF Next, vars, serverVars, Publish, ConsoleInput, Poll
<1>8. QED BY <1>1, <1>2, <1>3, <1>4, <1>6, <1>7 DEF ServerStep

\* The server ends itself for three reasons only: a subscriber closed a
\* connection that the server has not closed yet, accept had no descriptor left, or
\* a disconnect missed its client before, for one of the reasons of Mischarged.
THEOREM CausesOfDeath == Spec => DiesOnlyOf
<1> DEFINE Step ==
      status = "running" /\ status' = "dead" =>
          \/ mixup
          \/ \A f \in Fds : peer[f] # 0
          \/ \E f \in Fds : peer[f] # 0 /\ link[peer[f]] \in {"fin", "finrst", "reset"}
<1>1. RegistryInv /\ [Next]_vars => [Step]_vars
  BY StepDies DEF Departure
<1>2. [][Step]_vars => DiesOnlyOf
  BY PTL DEF DiesOnlyOf
<1>3. QED BY <1>1, <1>2, RegistryInvariant, PTL DEF Spec
=============================================================================
