------------------------------- MODULE Broker -------------------------------
(***************************************************************************)
(* The server (src/server.cpp): one thread that polls the UDP socket, the  *)
(* listening socket, its console and one descriptor per subscriber, and    *)
(* handles what poll reported one entry at a time.  Each handler is one    *)
(* step; subscribers and publishers take steps between any two of them.    *)
(***************************************************************************)
EXTENDS Subscribers, Integers, SequencesExt

CONSTANTS
    Topics,       \* topics of the datagrams published
    Matches,      \* the pairs <<topic, pattern>> that topic_matches_pattern accepts
    Fds,          \* descriptors the kernel can give to accepted connections
    MaxMessages,  \* bound: datagrams published
    MaxExits      \* bound: 1 if the server's console gets exit or its end, else 0

\* Descriptors of the process before its first client, as main opens them.
STDIN == 0
LISTEN == 3
UDP == 4

\* The empty string, the first of the ids (which are numbers in their order).
EMPTY == 1

ASSUME BrokerAssumption ==
    /\ Matches \subseteq Topics \X Patterns
    /\ Fds \subseteq {f \in Nat : f > UDP}
    /\ MaxMessages \in Nat
    /\ MaxExits \in {0, 1}

AllFds == Fds \cup {STDIN, LISTEN, UDP}
MsgIds == 1..MaxMessages

VARIABLES
    status,           \* the server process: "running", "exited" or "dead"
    poll_set,         \* descriptors of poll_set, in order
    revents,          \* revents[f]: the event poll reported and the round has yet to serve
    idx,              \* next position of the round over poll_set, 0 while in poll()
    clients,          \* keys of ServerState::clients
    fd,               \* tcp_client_t::fd, kept after the client disconnects
    connected,        \* tcp_client_t::connected
    topics,           \* tcp_client_t::topics: "none", or "live" / "sf" by the flag
    lost_messages,    \* tcp_client_t::lost_messages
    subscriptions,    \* ServerState::subscriptions: the clients listed for a pattern
    client_addresses, \* keys of ServerState::client_addresses
    c,                \* stored_message_t::c, the reference count
    heap,             \* stored messages allocated and not deleted
    peer,             \* kernel: session at the other end of a descriptor, 0 if closed
    udp,              \* kernel: topics of the datagrams waiting in the UDP socket
    published,        \* topics of the datagrams received; a message is its position
    console,          \* stdin holds: "nothing", the line "exit", or it is at its "end"
    mixup             \* history: a disconnect left its client marked connected

registry == <<clients, fd, connected>>
tables == <<topics, subscriptions>>
queues == <<lost_messages, c, heap>>
sockets == <<listenq, client_addresses, peer>>
datagrams == <<udp, published>>
kept == <<owner, got, typed, status, console>>
serverVars == <<status, poll_set, revents, idx, registry, topics, queues,
                subscriptions, client_addresses, peer, udp, published, console, mixup>>
vars == <<subscriberVars, serverVars>>

TypeOK ==
    /\ SubscriberTypeOK
    /\ status \in {"running", "exited", "dead"}
    /\ poll_set \in Seq(AllFds)
    /\ revents \in [AllFds -> {"none", "in", "hup"}]
    /\ idx \in Nat
    /\ clients \subseteq Ids
    /\ fd \in [Ids -> Fds \cup {0}]
    /\ connected \in [Ids -> BOOLEAN]
    /\ topics \in [Ids -> [Patterns -> {"none", "live", "sf"}]]
    /\ lost_messages \in [Ids -> Seq(Nat)]
    /\ subscriptions \in [Patterns -> SUBSET Ids]
    /\ client_addresses \subseteq Fds
    /\ c \in [MsgIds -> Int]
    /\ heap \subseteq MsgIds
    /\ peer \in [Fds -> Sessions \cup {0}]
    /\ udp \in Seq(Topics)
    /\ published \in Seq(Topics)
    /\ Len(published) + Len(udp) <= MaxMessages
    /\ console \in {"nothing", "exit", "end"}
    /\ mixup \in BOOLEAN

Init ==
    /\ SubscriberInit
    /\ status = "running"
    /\ poll_set = <<UDP, LISTEN, STDIN>>
    /\ revents = [f \in AllFds |-> "none"]
    /\ idx = 0
    /\ clients = {}
    /\ fd = [i \in Ids |-> 0]
    /\ connected = [i \in Ids |-> FALSE]
    /\ topics = [i \in Ids |-> [p \in Patterns |-> "none"]]
    /\ lost_messages = [i \in Ids |-> <<>>]
    /\ subscriptions = [p \in Patterns |-> {}]
    /\ client_addresses = {}
    /\ c = [m \in MsgIds |-> 0]
    /\ heap = {}
    /\ peer = [f \in Fds |-> 0]
    /\ udp = <<>>
    /\ published = <<>>
    /\ console = "nothing"
    /\ mixup = FALSE

---------------------------------------------------------------------------
(* The round over the poll set *)

\* Mutant: the end of the stream is not taken for an event.
ClientReadyNoEof(s) ==
    IF link[s] = "reset" THEN "hup" ELSE IF inbox[s] = <<>> THEN "none" ELSE "in"

ClientReady(s) ==
    CASE link[s] = "reset" -> "hup"
      [] link[s] \in {"fin", "finrst"} -> "in"
      [] OTHER -> IF inbox[s] = <<>> THEN "none" ELSE "in"

\* What poll reports of a descriptor.
Ready(f) ==
    CASE f = UDP -> IF udp = <<>> THEN "none" ELSE "in"
      [] f = LISTEN -> IF listenq = <<>> THEN "none" ELSE "in"
      [] f = STDIN -> IF console = "nothing" THEN "none" ELSE "in"
      [] OTHER -> IF peer[f] = 0 THEN "none" ELSE ClientReady(peer[f])

Poll ==
    /\ status = "running"
    /\ idx = 0
    /\ revents' = [f \in AllFds |->
                     IF \E k \in DOMAIN poll_set : poll_set[k] = f THEN Ready(f) ELSE "none"]
    /\ \E f \in AllFds : revents'[f] # "none"
    /\ idx' = 1
    /\ UNCHANGED <<subscriberVars, status, console, poll_set, registry, tables, queues,
                   client_addresses, peer, datagrams, mixup>>

\* The round has come to the entry at position k: its event is r, and no
\* entry between the last one served and this one had an event.
At(k, r) ==
    /\ status = "running"
    /\ idx > 0
    /\ k \in idx..Len(poll_set)
    /\ revents[poll_set[k]] = r
    /\ \A j \in idx..(k - 1) : revents[poll_set[j]] = "none"

\* Mutant: an entry is appended with its event set (the fields of pollfd swapped).
GoOnReported(ps, k) ==
    LET due == {f \in AllFds : \E j \in k..Len(ps) :
                   ps[j] = f /\ (revents[f] # "none" \/ j > Len(poll_set))}
    IN  /\ poll_set' = ps
        /\ revents' = [f \in AllFds |-> CASE f \notin due -> "none"
                                         [] revents[f] # "none" -> revents[f]
                                         [] OTHER -> "in"]
        /\ idx' = IF due = {} THEN 0 ELSE k

\* The round goes on at position k of the poll set ps, or poll is called again.
GoOn(ps, k) ==
    LET due == {f \in AllFds : revents[f] # "none" /\ \E j \in k..Len(ps) : ps[j] = f}
    IN  /\ poll_set' = ps
        /\ revents' = [f \in AllFds |-> IF f \in due THEN revents[f] ELSE "none"]
        /\ idx' = IF due = {} THEN 0 ELSE k

\* Mutant: index taken one too far.
ErasedNext(k) == SubSeq(poll_set, 1, k) \o SubSeq(poll_set, k + 2, Len(poll_set))

\* poll_fds.erase(poll_fds.begin() + index)
Erased(k) == SubSeq(poll_set, 1, k - 1) \o SubSeq(poll_set, k + 1, Len(poll_set))

---------------------------------------------------------------------------
(* Clients and the messages stored for them *)

Connected == {i \in clients : connected[i]}

\* Mutant: the branch for a known client forgets to test connected.
AwayOrNot(i) == i \in clients

Away(i) == i \in clients /\ ~connected[i]

\* The clients whose queues hold message m.
Holders(m) ==
    {i \in clients : \E k \in DOMAIN lost_messages[i] : lost_messages[i][k] = m}

\* Mutant: a message is deleted with the first reference dropped.
ReleaseAtOnce(n) ==
    /\ c' = [m \in MsgIds |-> c[m] - n[m]]
    /\ heap' = {m \in heap : n[m] = 0}

\* Mutant: the references are dropped without being counted.
ReleaseNever(n) == UNCHANGED <<c, heap>>

\* n[m] references to message m are dropped; the last one deletes it.
Release(n) ==
    /\ c' = [m \in MsgIds |-> c[m] - n[m]]
    /\ heap' = {m \in heap : n[m] = 0 \/ c'[m] # 0}

---------------------------------------------------------------------------
(* Writing to connections, and the end of the server *)

\* Mutant: what is written overtakes what is on its way (MSG_OOB).
DeliveredInFront(q) ==
    [s \in Sessions |-> IF link[s] \in Alive THEN q[s] \o outbox[s] ELSE outbox[s]]

\* q[s] is written to session s: what the other end still reads of it.
Delivered(q) ==
    [s \in Sessions |-> IF link[s] \in Alive THEN outbox[s] \o q[s] ELSE outbox[s]]

\* A closed connection answers what is written to it with a RST.
Struck(q) ==
    [s \in Sessions |-> IF link[s] = "fin" /\ q[s] # <<>> THEN "finrst" ELSE link[s]]

Nothing == [s \in Sessions |-> <<>>]

\* A write on descriptor f ends the process: EBADF (DIE in send_all), or SIGPIPE.
WriteKills(f) == peer[f] # 0 => link[peer[f]] = "reset"

\* The RST that answers the length prefix can arrive before the payload is
\* written; that second write then raises SIGPIPE.
WriteMayKill(f) == peer[f] # 0 => link[peer[f]] \in {"reset", "fin"}

\* Mutant: exit closes the connections of the registered clients only.
CloseRegisteredSockets(q) ==
    /\ outbox' = Delivered(q)
    /\ link' = ServerClosed(link, {peer[fd[i]] : i \in Connected})
    /\ inbox' = [s \in Sessions |-> <<>>]
    /\ listenq' = <<>>
    /\ peer' = [f \in Fds |-> 0]
    /\ udp' = <<>>
    /\ revents' = [f \in AllFds |-> "none"]
    /\ idx' = 0
    /\ UNCHANGED <<owner, got, typed>>

\* The process ends: the kernel closes every socket and discards what the
\* server had not read.  The messages q were written before that.
CloseAllSockets(q) ==
    /\ outbox' = Delivered(q)
    /\ link' = ServerClosed(link, Sessions)
    /\ inbox' = [s \in Sessions |-> <<>>]
    /\ listenq' = <<>>
    /\ peer' = [f \in Fds |-> 0]
    /\ udp' = <<>>
    /\ revents' = [f \in AllFds |-> "none"]
    /\ idx' = 0
    /\ UNCHANGED <<owner, got, typed>>

\* The process is ended by a failed write (or accept) in the middle of a handler.
Die(q) ==
    /\ status' = "dead"
    /\ CloseAllSockets(q)
    /\ UNCHANGED <<console, poll_set, registry, tables, queues, client_addresses, mixup>>

\* close(fd) by the server, erase(fd) from client_addresses.
CloseConnection(f) ==
    /\ link' = ServerClosed(link, {peer[f]})
    /\ inbox' = [inbox EXCEPT ![peer[f]] = <<>>]
    /\ peer' = [peer EXCEPT ![f] = 0]
    /\ client_addresses' = client_addresses \ {f}
---------------------------------------------------------------------------
(* handle_new_connection *)

\* accept() waits for a connection and returns the lowest free descriptor f.
Accept(k, f) ==
    /\ At(k, "in")
    /\ poll_set[k] = LISTEN
    /\ listenq # <<>>
    /\ peer[f] = 0
    /\ \A g \in Fds : g < f => peer[g] # 0
    /\ listenq' = Tail(listenq)
    /\ peer' = [peer EXCEPT ![f] = Head(listenq)]
    /\ client_addresses' = client_addresses \cup {f}
    /\ GoOn(Append(poll_set, f), k + 1)
    /\ UNCHANGED <<kept, link, inbox, outbox, registry, tables, queues, datagrams, mixup>>

\* Mutant: the result of accept() is stored unchecked.
AcceptFailsUnnoticed(k) ==
    /\ At(k, "in")
    /\ poll_set[k] = LISTEN
    /\ \A f \in Fds : peer[f] # 0
    /\ poll_set' = Append(poll_set, -1)
    /\ idx' = 0
    /\ revents' = [f \in AllFds |-> "none"]
    /\ UNCHANGED <<subscriberVars, status, console, registry, tables, queues,
                   client_addresses, peer, datagrams, mixup>>

\* The process has no descriptor left: DIE(tcp_cli_fd < 0, ...).
AcceptFails(k) ==
    /\ At(k, "in")
    /\ poll_set[k] = LISTEN
    /\ \A f \in Fds : peer[f] # 0
    /\ Die(Nothing)
    /\ UNCHANGED published

---------------------------------------------------------------------------
(* process_udp_message *)

\* The subscriptions of client i that a message on topic t goes through.
Routes(i, t) ==
    {p \in Patterns : <<t, p>> \in Matches /\ i \in subscriptions[p] /\ topics[i][p] # "none"}

\* Mutant: clients that are away are written to as well.
LiveOrNot(t) == {i \in clients : Routes(i, t) # {}}

\* Mutant: the loop over the subscribers is left after the first one served.
LiveFirst(t) ==
    {i \in clients : connected[i] /\ Routes(i, t) # {}
                       /\ \A j \in clients : connected[j] /\ Routes(j, t) # {} => i <= j}

\* The clients it is sent to; the set message_recipients keeps this to once each.
Live(t) == {i \in clients : connected[i] /\ Routes(i, t) # {}}

\* Mutant: stored for every client with the flag, connected or not.
StoredAnyway(t) ==
    {i \in clients : \E p \in Routes(i, t) : topics[i][p] = "sf"}

\* The clients it is stored for.
Stored(t) ==
    {i \in clients : ~connected[i] /\ \E p \in Routes(i, t) : topics[i][p] = "sf"}

\* Mutant: no search for the message in the queue (already_stored).
QueuePerRoute(i, t, m) ==
    IF i \in Stored(t)
      THEN lost_messages[i] \o
             [n \in 1..Cardinality({p \in Routes(i, t) : topics[i][p] = "sf"}) |-> m]
      ELSE lost_messages[i]

\* Mutant: the message is queued before those that wait.
QueueInFront(i, t, m) ==
    IF i \in Stored(t) THEN <<m>> \o lost_messages[i] ELSE lost_messages[i]

\* The queue of client i after message m on topic t; already_stored keeps the
\* message to once, whatever number of routes it takes.
Queue(i, t, m) ==
    IF i \in Stored(t) THEN Append(lost_messages[i], m) ELSE lost_messages[i]

\* m written once to the stored descriptor of each client of S.
Copies(S, m) ==
    [s \in Sessions |-> [n \in 1..Cardinality({i \in S : peer[fd[i]] = s}) |-> m]]

\* recvfrom() waits for a datagram.
ReceiveDatagram(k) ==
    /\ At(k, "in")
    /\ poll_set[k] = UDP
    /\ udp # <<>>
    /\ published' = Append(published, Head(udp))

Distribute(k) ==
    LET t == Head(udp)
        m == Len(published) + 1
    IN  /\ ReceiveDatagram(k)
        /\ \A i \in Live(t) : ~WriteKills(fd[i])
        /\ outbox' = Delivered(Copies(Live(t), m))
        /\ link' = Struck(Copies(Live(t), m))
        /\ lost_messages' = [i \in Ids |-> Queue(i, t, m)]
        /\ c' = [c EXCEPT ![m] = Cardinality(Stored(t))]
        /\ heap' = IF Stored(t) = {} THEN heap ELSE heap \cup {m}
        /\ udp' = Tail(udp)
        /\ GoOn(poll_set, k + 1)
        /\ UNCHANGED <<kept, inbox, registry, tables, sockets, mixup>>

\* Some of the other recipients were served before the write that failed.
DieDistributing(k) ==
    LET t == Head(udp)
    IN  /\ ReceiveDatagram(k)
        /\ \E i \in Live(t) : WriteMayKill(fd[i])
        /\ \E S \in SUBSET {i \in Live(t) : ~WriteKills(fd[i])} :
              Die(Copies(S, Len(published) + 1))

---------------------------------------------------------------------------
(* handle_server_command; a line other than exit changes nothing            *)

ReadConsole(k) ==
    /\ At(k, "in")
    /\ poll_set[k] = STDIN
    /\ console # "nothing"

\* fgets fails at the end of the input and is not checked: buff holds what the
\* stack held before, taken for a line without a command (or for exit, Shutdown
\* then).  poll reports the descriptor again at once.
ReadEnd(k) ==
    /\ ReadConsole(k)
    /\ console = "end"
    /\ GoOn(poll_set, k + 1)
    /\ UNCHANGED <<subscriberVars, status, console, registry, tables, queues,
                   client_addresses, peer, datagrams, mixup>>

Shutdown(k) ==
    /\ ReadConsole(k)
    /\ \A i \in Connected : ~WriteKills(fd[i])
    /\ status' = "exited"
    /\ CloseAllSockets(Copies(Connected, Notice))
    /\ Release([m \in MsgIds |-> Cardinality(Holders(m))])
    /\ lost_messages' = [i \in Ids |-> <<>>]
    /\ console' = "nothing"
    /\ UNCHANGED <<poll_set, registry, tables, client_addresses, published, mixup>>

DieShuttingDown(k) ==
    /\ ReadConsole(k)
    /\ \/ \E i \in Connected : WriteKills(fd[i])
       \/ \E i, j \in Connected : i # j /\ fd[i] = fd[j] /\ WriteMayKill(fd[i])
    /\ \E S \in SUBSET {i \in Connected : ~WriteKills(fd[i])} : Die(Copies(S, Notice))
    /\ UNCHANGED published

---------------------------------------------------------------------------
(* handle_client_request *)

\* recv_all read the next request r of client i, from descriptor f.
Request(k, f, i, type) ==
    /\ At(k, "in")
    /\ poll_set[k] = f
    /\ peer[f] # 0
    /\ inbox[peer[f]] # <<>>
    /\ Head(inbox[peer[f]]).type = type
    /\ i = owner[peer[f]]

TakeRequest(f) == inbox' = [inbox EXCEPT ![peer[f]] = Tail(@)]

\* MESSAGE, first connection of client i.
Register(k, f, i) ==
    /\ Request(k, f, i, "MESSAGE")
    /\ i \notin clients
    /\ clients' = clients \cup {i}
    /\ fd' = [fd EXCEPT ![i] = f]
    /\ connected' = [connected EXCEPT ![i] = TRUE]
    /\ TakeRequest(f)
    /\ GoOn(poll_set, k + 1)
    /\ UNCHANGED <<kept, link, outbox, tables, queues, sockets, datagrams, mixup>>

\* MESSAGE, id in use.  The entry is erased and idx is left as it is, so the
\* round skips the entry that follows.
Reject(k, f, i) ==
    /\ Request(k, f, i, "MESSAGE")
    /\ i \in clients
    /\ connected[i]
    /\ CloseConnection(f)
    /\ GoOn(Erased(k), k + 1)
    /\ UNCHANGED <<kept, outbox, listenq, registry, tables, queues, datagrams, mixup>>

\* Mutant: the newest stored message first.
FlushedBackwards(i) == Reverse(lost_messages[i])

\* Mutant: the loop over the stored messages starts at the second.
FlushedButFirst(i) == SubSeq(lost_messages[i], 2, Len(lost_messages[i]))

Flushed(i) == lost_messages[i]

\* MESSAGE, a client that was away: its queue is written to it and released.
Reconnect(k, f, i) ==
    LET q == [Nothing EXCEPT ![peer[f]] = Flushed(i)]
    IN  /\ Request(k, f, i, "MESSAGE")
        /\ Away(i)
        /\ lost_messages[i] # <<>> => ~WriteKills(f)
        /\ fd' = [fd EXCEPT ![i] = f]
        /\ connected' = [connected EXCEPT ![i] = TRUE]
        /\ outbox' = Delivered(q)
        /\ link' = Struck(q)
        /\ Release([m \in MsgIds |-> IF i \in Holders(m) THEN 1 ELSE 0])
        /\ lost_messages' = [lost_messages EXCEPT ![i] = <<>>]
        /\ TakeRequest(f)
        /\ GoOn(poll_set, k + 1)
        /\ UNCHANGED <<kept, clients, tables, sockets, datagrams, mixup>>

DieReconnecting(k, f, i) ==
    /\ Request(k, f, i, "MESSAGE")
    /\ Away(i)
    /\ lost_messages[i] # <<>>
    /\ WriteMayKill(f)
    /\ Die(Nothing)
    /\ UNCHANGED published

HandleSubscribe(k, f, i) ==
    LET r == Head(inbox[peer[f]])
    IN  /\ Request(k, f, i, "SUBSCRIBE")
        /\ IF i \in clients
             THEN /\ subscriptions' = [subscriptions EXCEPT ![r.topic] = @ \cup {i}]
                  /\ topics' = [topics EXCEPT ![i][r.topic] = IF r.sf THEN "sf" ELSE "live"]
             ELSE UNCHANGED tables
        /\ TakeRequest(f)
        /\ GoOn(poll_set, k + 1)
        /\ UNCHANGED <<kept, link, outbox, registry, queues, sockets, datagrams, mixup>>

\* Mutant: only the client's own table is updated.
StillListed(p, i) == subscriptions

Unlisted(p, i) == [subscriptions EXCEPT ![p] = @ \ {i}]

HandleUnsubscribe(k, f, i) ==
    LET r == Head(inbox[peer[f]])
    IN  /\ Request(k, f, i, "UNSUBSCRIBE")
        /\ IF i \in clients
             THEN /\ subscriptions' = Unlisted(r.topic, i)
                  /\ topics' = [topics EXCEPT ![i][r.topic] = "none"]
             ELSE UNCHANGED tables
        /\ TakeRequest(f)
        /\ GoOn(poll_set, k + 1)
        /\ UNCHANGED <<kept, link, outbox, registry, queues, sockets, datagrams, mixup>>

\* EXIT.  As in Reject, the entry after the erased one is skipped.
HandleExit(k, f, i) ==
    /\ Request(k, f, i, "EXIT")
    /\ connected' = [connected EXCEPT ![i] = IF i \in clients THEN FALSE ELSE @]
    /\ CloseConnection(f)
    /\ GoOn(Erased(k), k + 1)
    /\ UNCHANGED <<kept, outbox, listenq, clients, fd, tables, queues, datagrams, mixup>>

---------------------------------------------------------------------------
(* handle_client_disconnect *)

\* Mutant: the client of the descriptor is not looked up.
NoClient(f) == {}

\* The first client, in the order of ids, whose stored descriptor is f.
FirstWith(f) ==
    {i \in clients : fd[i] = f /\ \A j \in clients : fd[j] = f => i <= j}

\* The client that is marked: an empty id counts as none found.
Marked(f) == FirstWith(f) \ {EMPTY}

\* The client connected by way of f has the empty id, or one that comes
\* before it in the registry is away and kept the number f.
Mischarged(f) ==
    \E i \in Connected :
        fd[i] = f /\ (i = EMPTY \/ \E j \in clients : j < i /\ Away(j) /\ fd[j] = f)

\* POLLERR | POLLHUP, or recv_all found the end of the stream.  The round
\* goes on at the entry that took the place of the erased one (idx--).
Disconnect(k, f) ==
    /\ \/ At(k, "hup")
       \/ At(k, "in") /\ peer[f] # 0 /\ inbox[peer[f]] = <<>>
    /\ poll_set[k] = f
    /\ connected' = [i \in Ids |-> connected[i] /\ i \notin Marked(f)]
    /\ mixup' = (mixup \/ Mischarged(f))
    /\ CloseConnection(f)
    /\ GoOn(Erased(k), k)
    /\ UNCHANGED <<kept, outbox, listenq, clients, fd, tables, queues, datagrams>>

---------------------------------------------------------------------------
(* The system *)

Publish(t) ==
    /\ status = "running"
    /\ Len(published) + Len(udp) < MaxMessages
    /\ udp' = Append(udp, t)
    /\ UNCHANGED <<subscriberVars, status, console, poll_set, revents, idx, registry,
                   tables, queues, client_addresses, peer, published, mixup>>

\* exit is typed at the server, or its input ends.
ConsoleInput ==
    /\ status = "running"
    /\ console = "nothing"
    /\ MaxExits = 1
    /\ console' \in {"exit", "end"}
    /\ UNCHANGED <<subscriberVars, status, poll_set, revents, idx, registry, tables, queues,
                   client_addresses, peer, datagrams, mixup>>

HandleClient(k, f) ==
    \/ \E i \in Ids :
          \/ Register(k, f, i)
          \/ Reject(k, f, i)
          \/ Reconnect(k, f, i)
          \/ DieReconnecting(k, f, i)
          \/ HandleSubscribe(k, f, i)
          \/ HandleUnsubscribe(k, f, i)
          \/ HandleExit(k, f, i)
    \/ Disconnect(k, f)

Handle(k) ==
    \/ \E f \in Fds : Accept(k, f)
    \/ AcceptFails(k)
    \/ Distribute(k)
    \/ DieDistributing(k)
    \/ ReadEnd(k)
    \/ Shutdown(k)
    \/ DieShuttingDown(k)
    \/ \E f \in Fds : HandleClient(k, f)

\* Position k is ahead of the round and has an event to serve; At says more,
\* and each handler begins with it.
Due(k) == idx > 0 /\ k >= idx /\ revents[poll_set[k]] # "none"

ServerStep == Poll \/ \E k \in DOMAIN poll_set : Due(k) /\ Handle(k)

Next ==
    \/ ServerStep
    \/ \E s \in Sessions :
          /\ SubscriberStep(s)
          /\ UNCHANGED serverVars
    \/ /\ status = "running"
       /\ \E s \in Sessions, i \in Ids : Start(s, i)
       /\ UNCHANGED serverVars
    \/ \E t \in Topics : Publish(t)
    \/ ConsoleInput

Spec == Init /\ [][Next]_vars

\* What happens without a user, a publisher or a crash: a subscriber's loop
\* takes a step, or a RST that is on its way arrives.
SubscribersRun ==
    /\ \E s \in Sessions : SubscriberLoop(s) \/ RstArrives(s)
    /\ UNCHANGED serverVars

\* The loops of both programs keep running.  One condition for all sessions is
\* weaker than one for each; users and publishers are under no obligation.
Fairness == WF_vars(ServerStep) /\ WF_vars(SubscribersRun)

FairSpec == Spec /\ Fairness

---------------------------------------------------------------------------
(* Safety of the registry and of the connections *)

\* The poll set is the three descriptors of main followed by each open client
\* connection exactly once, and client_addresses holds the same descriptors:
\* neither the erasures in the middle of a round nor the reuse of descriptor
\* numbers leaves a closed descriptor behind, or polls one twice.
PollSetExact ==
    status = "running" =>
        /\ SubSeq(poll_set, 1, 3) = <<UDP, LISTEN, STDIN>>
        /\ \A j, k \in DOMAIN poll_set : poll_set[j] = poll_set[k] => j = k
        /\ client_addresses = {poll_set[k] : k \in 4..Len(poll_set)}
        /\ client_addresses = {f \in Fds : peer[f] # 0}
        /\ \A f, g \in client_addresses : peer[f] = peer[g] => f = g

\* A client marked connected is connected: its stored descriptor is open and
\* leads to a session of that client.
RegistrySound ==
    status = "running" =>
        \A i \in Connected : peer[fd[i]] # 0 /\ owner[peer[fd[i]]] = i

\* RegistrySound until handle_client_disconnect, which looks the client up by
\* descriptor, misses it; and it misses it for two reasons only (Mischarged): the
\* id is empty, or a client that left earlier kept the number and comes first.
RegistrySoundUnlessMixup == ~mixup => RegistrySound

\* Session s is running and its CONNECT was handled.
Joined(s) ==
    /\ link[s] \in {"open", "exiting"}
    /\ \A k \in DOMAIN inbox[s] : inbox[s][k] # Connect

\* Once its CONNECT is handled, an open connection is the one its client is
\* registered under: two sessions that use the same id are never served
\* together, and a client with an open connection is not held for away.
JoinedIsRegistered ==
    status = "running" /\ ~mixup =>
        \A f \in Fds :
            peer[f] # 0 /\ Joined(peer[f]) =>
                connected[owner[peer[f]]] /\ fd[owner[peer[f]]] = f

---------------------------------------------------------------------------
(* Safety of the rounds *)

\* The descriptors whose event the round has yet to serve.
Pending == {f \in AllFds : revents[f] # "none"}

\* What poll reported is still so when the round comes to it, whatever the
\* handlers before it did and however many entries they erased: the entry is
\* ahead in the poll set and the kernel would report an event of it again.  The
\* one thread of the server thus never waits in accept, in recvfrom, or in recv
\* for a request to begin (it may for the rest of one), and no event is served on
\* a descriptor that was closed meanwhile.
EventsHold ==
    \A f \in Pending :
        /\ \E k \in 1..Len(poll_set) : idx \in 1..k /\ poll_set[k] = f
        /\ Ready(f) # "none"
        /\ revents[f] = "hup" => Ready(f) = "hup"

\* Every handler brings the round nearer to its end: it settles the event of its
\* own entry and adds none.  Of the others it leaves out at most one, and only
\* when it erased its entry and idx passed the one that took its place; that
\* one stays in the poll set, where the next poll reports it again.
RoundsServe ==
    [][ \A k \in DOMAIN poll_set :
          Due(k) /\ Handle(k) /\ status' = "running" =>
            LET others == Pending \ {poll_set[k]}
            IN  /\ Pending' \subseteq others
                /\ \A f \in others : Ready(f)' # "none" /\ f \in ToSet(poll_set')
                /\ \A f, g \in others \ Pending' : f = g
                /\ others # Pending' => poll_set[k] \notin ToSet(poll_set') ]_vars

---------------------------------------------------------------------------
(* Safety of subscriptions and of stored messages *)

\* The two tables that handle_client_request keeps of the subscriptions, per
\* pattern and per client, say the same.
SubscriptionsAgree ==
    \A p \in Patterns, i \in Ids :
        i \in subscriptions[p] <=> i \in clients /\ topics[i][p] # "none"

\* The count of a stored message is the number of queues that hold it, and
\* the message is allocated as long as there is one: nothing is used after
\* its delete, deleted twice, or left allocated when the server has exited.
RefCountExact ==
    \A m \in MsgIds :
        /\ c[m] = Cardinality(Holders(m))
        /\ m \in heap <=> Holders(m) # {}

\* A queue holds received messages only, each once, in the order of their
\* arrival, whatever number of subscriptions they match.
QueuesOrdered ==
    \A i \in Ids : \A j, k \in DOMAIN lost_messages[i] :
        /\ lost_messages[i][k] \in 1..Len(published)
        /\ j < k => lost_messages[i][j] < lost_messages[i][k]

\* A connected client has nothing stored: a message sent to it live cannot
\* overtake one that still waits for it.
ConnectedHasNoQueue == \A i \in Connected : lost_messages[i] = <<>>

---------------------------------------------------------------------------
(* Safety of delivery *)

\* What was written to session s and reached it, or is on its way.
Stream(s) == got[s] \o outbox[s]

\* Each session is sent messages in the order of their arrival, each once,
\* stored ones before live ones, and nothing after the shutdown notice.
StreamsOrdered ==
    ~mixup =>
        \A s \in Sessions : \A j, k \in DOMAIN Stream(s) :
            j < k => /\ Stream(s)[j] # Notice
                     /\ Stream(s)[k] # Notice => Stream(s)[j] < Stream(s)[k]

\* No message reaches a client twice, in one session or in two, and what is
\* stored for a client is newer than all that was sent to it.
OncePerClient ==
    ~mixup =>
        \A s \in Sessions : \A m \in ToSet(Stream(s)) \ {Notice} :
            /\ \A r \in Sessions : owner[r] = owner[s] /\ r # s => m \notin ToSet(Stream(r))
            /\ owner[s] \in clients
            /\ \A k \in DOMAIN lost_messages[owner[s]] : m < lost_messages[owner[s]][k]

---------------------------------------------------------------------------
(* Liveness *)

\* A request that was sent is read and handled (or its connection closed),
\* although a rejection or an EXIT makes the round skip the next connection.
RequestsServed ==
    \A s \in Sessions : inbox[s] # <<>> ~> inbox[s] = <<>>

\* A connection closed by the subscriber, in whatever way, gives its
\* descriptor back.
ConnectionsReleased ==
    \A s \in Sessions :
        link[s] \in {"fin", "finrst", "rst", "reset"} ~> link[s] = "gone"

\* exit at the console ends the server and every subscriber, also those that
\* had not registered yet.
ShutdownEndsSessions ==
    console = "exit" ~> status # "running" /\ \A s \in Sessions : link[s] \in {"none", "gone"}

---------------------------------------------------------------------------
(* What the documentation says and the code does not do *)

\* README.md, "Detects and recovers from disconnections": the end of a
\* subscriber does not end the server.
ServerSurvives == status # "dead"

\* ServerSurvives as far as it goes: the server ends itself only if a
\* subscriber has closed a connection the server still has open, if it has no
\* descriptor left, or after a disconnect that missed its client (Mischarged).
DiesOnlyOf ==
    [][ status = "running" /\ status' = "dead" =>
          \/ mixup
          \/ \A f \in Fds : peer[f] # 0
          \/ \E f \in Fds : peer[f] # 0 /\ link[peer[f]] \in {"fin", "finrst", "reset"} ]_vars

\* README.md, "If client is offline and SF = 1, message is stored", for the
\* clients none of whose processes is running when the message is handled.
StoredWhenOffline ==
    [][ \A i \in clients :
          /\ Len(published') > Len(published)
          /\ status' = "running"
          /\ \A s \in Sessions : owner[s] = i => link[s] \notin Alive
          /\ \E p \in Patterns :
                <<published'[Len(published')], p>> \in Matches /\ topics[i][p] = "sf"
          => lost_messages'[i] = Append(lost_messages[i], Len(published')) ]_vars
=============================================================================
