# Verification of the TCP/UDP publish-subscribe system

TLA+ modules that model the server, the subscriber and the UDP publisher of
this repository, TLC runs that check them on small instances, and theorems
about them that TLAPS proves for every size. Paths are relative to `src/`.

## The system

One server process and any number of subscriber processes. The server is a
single thread around `poll()`. Publishers send it UDP datagrams; subscribers
hold a TCP connection each, over which they send fixed-size requests
(`tcp_request_t`) and receive length-prefixed messages.

| Part | Code | State | Operations | Correct when |
|---|---|---|---|---|
| Event loop | `server()` server.cpp:347 | `poll_set`, the position of the round, the `revents` poll filled in | poll; dispatch of one entry; entries erased and appended in mid-round | no entry is lost, doubled, or served for an event of another |
| Registry | `handle_new_connection`, `MESSAGE`, `EXIT`, `handle_client_disconnect` | `clients` with `fd`, `connected`; `client_addresses` | accept, register, reject, reconnect, exit, disconnect | a client marked connected is connected; one session per id; descriptors are given back |
| Subscriptions | `SUBSCRIBE`, `UNSUBSCRIBE` | `subscriptions` per pattern, `topics` per client | add, change of flag, remove | both tables say the same |
| Routing | `process_udp_message` server.cpp:101 | the datagram in hand | write to or store for each matching client | once per client whatever the overlap, in order |
| Store and forward | `process_udp_message`, reconnection branch, shutdown | `lost_messages`, the counts `c`, the heap | store, flush, release | stored before live, nothing twice, deleted with the last reference |
| Topic matching | `topic_matches_pattern` server.cpp:14 | indices of the scan and of the last `*` | one iteration of its loops | returns, with the answer the patterns are documented to have |
| Console | `handle_server_command` | - | `exit`, end of the input | everything ends and is released; clients are served also without a console |
| Subscriber | subscriber.cpp | connection, where in the stream it is | connect, CONNECT, commands, peek, read, exit, end of stream | parses what was sent, whole and in order; ends when the server ends, not before |
| Connections | `send_all`, `recv_all`, the kernel | bytes in flight, which end is closed | partial write, partial read, close, reset | neither side waits for the other for ever |
| Payloads | `parse_input` common.cpp:50 | - | decode and print | prints the number that was sent, on a line of its own, also between the acknowledgements of commands |
| Publisher | `udp_client.py`, `unpriv_port.py` | options, position in the list | parse options, bind, send, sleep, prompt | sends what its mode says; a fault ends it visibly |

How they interact: a publisher sends datagrams, which the server turns into
length-prefixed messages for the subscribers that want them, which decode and
print them. Subscribers and publishers act at any moment; the server
sees the result only when it polls, and then works through a list of events
that grows stale while it does so. The registry stores descriptor *numbers*,
which the kernel reuses. The subscriptions are kept twice. A stored message is
shared by several queues. What is hard is thus not inside a handler but between
them: departures that have not been noticed, ids and descriptors that come
back, writes to connections that are gone, and a poll set that is edited while
it is walked. `PROJECT.json` lists these hazards at their lines.

## The modules

| Module | What it is |
|---|---|
| `Subscribers` | the subscriber processes and the TCP connection of each (`subscriber.cpp`, and what the kernel does on close and reset) |
| `Broker` | the server; extends `Subscribers` and composes both into the system |
| `Delivery` | what the server promises, as an abstract service without connections, descriptors or reference counts |
| `BrokerDelivery` | the refinement mapping from `Broker` to `Delivery` |
| `MCBroker` | topics, patterns and command menus for TLC |
| `Publisher` | one run of the UDP client (`udp_client.py`, `unpriv_port.py`) |
| `Stream` | one connection byte by byte: `send_all`, `recv_all`, `handle_server_message` |
| `Payload` | what a datagram means, and what `parse_input` prints of it |
| `Pipeline` | extends these three: a message from the publisher's list to the subscriber's screen |
| `MCPipeline` | command lines, lists of payloads and segment ends for TLC |
| `PublisherProofs` | what the UDP client sends, proved |
| `PipelineProofs` | the stream, the screen and the arithmetic of `parse_input`, proved |
| `BrokerProofs` | type correctness and the agreement of the subscription tables, proved |
| `QueueProofs` | order and reference counts of stored messages, proved |
| `PollProofs` | the poll set and the rounds over it, proved |
| `RegistryProofs` | the registry, the connections it points to, and what ends the server, proved |
| `DeliveryProofs` | the refinement of `Delivery`, and what each client is sent, proved |
| `Topics` | what a pattern accepts, as a definition |
| `TopicMatch` | the scan of `topic_matches_pattern`, step by step |
| `TopicMatchProofs` | the scan against the definition, proved |
| `MCTopicMatch` | the topics and patterns scanned |

### Subscribers

A *session* is one run of the subscriber program. `link[s]` follows its
connection through the states listed at `LinkStates`: open at both ends,
closed by the subscriber with all data read (`fin`) or with data unread
(`rst`), answered by a RST after a late write (`finrst`), known as reset to the
server's kernel (`reset`), closed by the server (`eof`, `ending`). `inbox[s]`
holds requests the server has not read, `outbox[s]` messages the session has
not read, and `got[s]` those it has printed. The steps are those of
`subscriber()` between two calls that can wait: connecting, sending CONNECT, a
command, reading one message, exit, closing, and seeing the shutdown notice or
the end of the stream. Two sessions may use the same id.

`exit` is a step of its own, after which the process still has its connection
open until it closes: in between the server may write to it, and whether that
data was read decides between FIN and RST. The round of `poll_set` that reads
`exit` may still serve the socket once, as in the code.

### Broker

The variables carry the code's names: `poll_set`, `idx`, `clients`, `fd`,
`connected`, `topics`, `lost_messages`, `subscriptions`, `client_addresses`,
and `c`. `revents` is what `poll` reported, `peer` is the kernel's table of
descriptors, `listenq` its accept queue, `udp` its datagram queue. A message is
the position of its datagram in `published`.

- `Poll` reports events for every entry and starts a round. `At(k, r)` says the
  round has come to entry `k` with event `r`; `GoOn(ps, k)` continues with the
  possibly edited poll set `ps`. A handler that erases the entry and lets `idx`
  be incremented (`Reject`, `HandleExit`) continues at `k + 1` and so skips one
  entry; `Disconnect`, after `idx--`, continues at `k`.
- One action per handler and outcome: `Accept`, `AcceptFails`, `Distribute`,
  `DieDistributing`, `Shutdown`, `DieShuttingDown`, `Register`, `Reject`,
  `Reconnect`, `DieReconnecting`, `HandleSubscribe`, `HandleUnsubscribe`,
  `HandleExit`, `Disconnect`. A handler is one step: it does not wait in the
  model (full socket buffers are not modelled), and what subscribers do
  meanwhile is not seen before the next `poll` except through writes. Those are
  decided by the state of the connection at the handler's step.
- Writes: on a closed descriptor `send` fails and `DIE` ends the server; on a
  reset connection it raises SIGPIPE. On a connection the subscriber has closed
  the first write is accepted and answered by a RST, and the second (the
  payload, after the length prefix) succeeds or not depending on whether that
  RST arrived in between: both outcomes are steps (`Distribute` and
  `DieDistributing`). A server that dies in the middle of a handler has written
  to some of the recipients.
- `accept` returns the lowest free descriptor, as POSIX requires. `Fds` is the
  set of numbers available; with none left, `AcceptFails`.
- The console: after `exit` was typed the round reaches `Shutdown`. At the end
  of the input `fgets` returns at once and unchecked, `poll` reports the
  descriptor in every round (`Ready`), and `buff` is what the stack held: the
  step does nothing (`ReadEnd`) or, if that happens to read `exit`, shuts down.
- `FirstWith(f)` is the first client in the order of ids whose *stored*
  descriptor is `f`, connected or not. `Marked(f)` leaves out `EMPTY`, the least
  id: the code takes the empty id of a client found for "none found"
  (server.cpp:338). `Mischarged(f)` states the two ways in which a disconnect
  thus misses the client of the connection (its id is empty, or a client before
  it is away and kept the number), and the history variable `mixup` records
  that one of them happened.

### Delivery and BrokerDelivery

`Delivery` has clients that are present at a session or away, what each wants
of each pattern, what is kept for it, and what each session was given. A
message is given to *all* present clients that want it and kept for *all*
absent ones that want it later, in one step; a client that joins is given all
that was kept. Nothing is ever lost but what was given to a session whose
process ended. This is the completeness that the invariants of `Broker` do not
state. The mapping in `BrokerDelivery`: a client is `at` the session that its
stored descriptor leads to while it is marked connected; what is `kept` is
`lost_messages`; what was `given` is what a session has printed and what is on
its way. The promise ends when the server does, or when a disconnect misses its
client (`serving`; see the violations below). It is kept when stored
messages are given to a session that has ended already: "given" says that the
server wrote them, not that anybody read them. "Absent" is thus what
the server knows: `store_offline` shows the difference.

### Publisher

The steps end where the program can wait or raise: parsing, `bind`, `sendto`,
`sleep`, `input`. An entry of the JSON list is valid or lacks a payload or a
description, an address is IPv4, IPv6 or invalid, a number given as text is
`Text`. `send_message` prints and sleeps *after* `sendto`: a missing
description or a negative delay ends the run with that datagram on its way
(`RaisesLate`), an entry that cannot be decoded or an address that is not IPv4
without it (`Sendable`); and `sendto` may raise at any datagram.

### Stream, Payload and Pipeline

A unit is what the server writes at a time: a message with its length prefix,
or the bare `tcp_request_t` of the shutdown notice. Bytes are counted; only
those that are compared have values: `Numbers(n, k)` are the numbers that the
first `k` of four bytes at place `n` can make for a reader, exactly the length
if a unit begins there, and any of `Strays` in the middle of a message.
`Segment` lets the bytes arrive in parts: up to the places `Cuts` of a unit, its
end, or where the `Window` is full. `Peek`, `Recv`, `GotPrefix`, `GotPayload`,
`GotControl` and `SeeEnd` are the calls of `handle_server_message`, `recv_all`
and `recv_string` between two that can wait, with their early returns: a
length of zero or below ends the loop as the end of the stream does. In the
other direction, requests travel in halves, so that the server can be in
`recv_all` (`half`) or the subscriber in `send_all` (`sending`) over half of
one. The server does nothing else while either call waits (`Idle`).

`Pipeline` joins `Publisher`, a bounded UDP socket that loses datagrams when it
is full or at any other time, the server as it serves one subscriber of all
topics, the stream, and the screen. `screen` holds what is printed, in order, and
for each item whether a line ends with it: the message `j > 0`, the
acknowledgement `-k` of the `k`-th command ("Subscribed to topic ...",
subscriber.cpp:96 and 113, printed when its `send_all` has returned), or 0 for
bytes that are no message. A datagram without a type byte prints nothing; one
that is cut or of unknown type leaves its topic on a line that is not ended, and
the next item, message or acknowledgement, shares it. In `Payload` an int holds `-Half .. Half - 1` and a float has `FloatBits`
digits, so that both edges are met with small numbers; `Rounded` is rounding to
nearest, ties to even, and `PrintedDigits` rounds three times as the code does:
to a float, the quotient to a float, and the print.

### Topics and TopicMatch

A topic is a sequence of levels. `Accepts` says that the levels of the pattern
can be aligned with those of the topic; it knows nothing of scanning or going
back. `TopicMatch` has the code's indices (from 0) and one action for each
branch of its two loops. `Broker` takes the relation as the constant `Matches`,
so the theorems hold whatever the matching does; the runs use `Accepts`.

## The runs

| Run | Instance | Checks | Distinct states |
|---|---|---|---|
| `sessions` | 3 ids, one of them empty, 3 sessions that may be killed, 2 descriptors | `TypeOK`, `PollSetExact`, `RegistrySoundUnlessMixup`, `JoinedIsRegistered`, `EventsHold`, `RoundsServe` | 373 000 |
| `store_forward` | 1 id, 3 sessions (one may be killed), 1 pattern with the flag, 2 messages | `QueuesOrdered`, `ConnectedHasNoQueue`, `StreamsOrdered`, `OncePerClient`, `DeliversAsPromised`, `DiesOnlyOf` | 339 000 |
| `routing` | 2 ids, 2 sessions, 2 overlapping patterns, one with and without the flag, 2 topics, 2 commands, 1 message | `SubscriptionsAgree`, `QueuesOrdered`, `RefCountExact`, `DeliversAsPromised` | 1 030 000 |
| `shared_queue` | 2 ids, 3 sessions, 1 descriptor, 1 message | `RefCountExact` | 395 000 |
| `shutdown_live` | 1 id, 2 sessions, 1 message, server exit or end of its input, fairness | `RefCountExact`, `StreamsOrdered`, `RequestsServed`, `ConnectionsReleased`, `ShutdownEndsSessions` | 53 000 |
| `topic_match` | all topics up to 4 levels over 2 names or over a name and `*`, up to 3 over a name and `+`; all patterns up to 4 levels over 2 names and the 2 wildcards | `TypeOK`, `CorrectForPlainTopics`, `LastManyIsEnough`, `OnlyAccepted`, `Returns`, `ScanAdvances` | 100 000 |
| `pipeline` | about 90 command lines and lists, 1 subscriber, 2 commands, window of 160 bytes, server exit, fairness | `TypeOK`, `AllOnceInOrder`, `CountHonoured`, `ManualSendsChoices`, `FaultsEndTheRun`, `ParsedAsSent`, `EndsWithServer`, `PrintedAsMeant`, `OneLinePerMessage`, `ShownInOrder`, `PublisherEnds`, `CatchesUp` | 330 000 |
| `control_length` | a list with one string of 11 characters | violates `EveryMessageIntact` | - |
| `stale_descriptor` | as `sessions`, without the empty id | violates `RegistrySound` | - |
| `server_survives` | 1 id, 2 sessions, 1 message | violates `ServerSurvives` | - |
| `store_offline` | 1 id, 2 sessions, 1 message | violates `StoredWhenOffline` | - |
| `literal_star` | topics with a level `*` | violates `Correct` | - |

Deadlock is not checked: all bounded sessions may be over and the server
waiting in `poll`, or the server may have exited.

**Bounds.** `NumSessions`, `MaxCommands`, `MaxMessages` and `MaxExits` (commands
typed, datagrams sent, exits) bound the environment, never the server;
`Killable` names the sessions that may be killed and `Menu` the commands users
type. They are chosen so that the interesting cases happen. Three sessions and two
descriptors, with two ids beside the empty one, are the least in which a descriptor is reused while the
client that had it is absent, in which an id is used twice at once, and in
which accept runs out of descriptors. Three sessions of one id with two
messages let a client leave, be stored for, come back, leave again. The empty id
is among those of `sessions` only: elsewhere it would be one more
id, until a disconnect misses it, of which the properties there say nothing. In
`shared_queue` one descriptor forces the two clients to take turns, so that both
are away when the message arrives. Two overlapping patterns with two topics let
a message take two routes, one route, or none. Patterns of four levels hold two
`*` with levels between and after them, the least in which forgetting the first
`*` could lose a match.

In `pipeline` the sizes that the code fixes are the code's (68, 6, 50 and 4
bytes; ports 1024 and 65535), and those of numbers are scaled: `Half` = 8 and
`FloatBits` = 4 put an INT of 8 and a mantissa of 17 where 2^31 and 2^24 + 1 are,
and floats are multiples of 2^-14 (`Fine`; of 2^-149 in the code), fine enough
for `Digits` = 4 decimal digits. `Wide` = 30 bounds the numbers computed, so that
they fit the integers of TLC. `Window` = 160 holds a message of a short
payload with the notice behind it, so that a message can be unread when the
server closes, and not the message of a string of 230 characters, for which both
`send_all` and `recv_all` must go on where they stopped; `Cuts` end
a segment within and after a length. `RequestRoom` = 1 is half a request, so
that the subscriber waits in `send_all` in the middle of each, and `MaxTyped` = 2
types two: enough for either program to wait in `send_all` for the other. `Strays` are a negative number and a large one:
what a reader that has lost its place makes of the bytes it finds. `UdpRoom` = 2
lets the socket be full. The lists hold both signs and all values of a scaled
INT, mantissas on both sides of the exact ones, strings whose messages are of
68 bytes and of 68 modulo 256, payloads that are cut or unknown, and an empty
datagram; the command lines, each option absent, at both ends of its range, and
refused.

**Fairness.** `FairSpec` assumes that the server's loop takes steps as long as
it can (it is a `while (true)` around `poll`), and that the subscribers' loops
do, together with the arrival of a RST that was sent. Nothing is assumed of
users, publishers or kills, and nothing of any single session or handler: a
handler is only reached because the round reaches its entry.
In `Pipeline`, each of the three programs takes steps as long as it can, being a
process of its own; the network may lose every datagram.

`CatchesUp` (the subscriber parses all that the server relayed, again and again)
is claimed with its two exceptions, and both occur in the run. A command that is
being written when the server has closed the connection ends the subscriber,
with messages unread for good (`reading = "ended" /\ typed > 0`). And two
single-threaded programs can be in `send_all` at each other, each with a full
connection before it (`BothWait`): the server with a message that does not fit,
the subscriber with a command. Neither reads, and neither ever goes on. The
property says that nothing else keeps messages unread, whatever the cuts.

**Liveness** is checked, not proved: the reasoning behind it rests on which steps
are enabled, which the prover does not support.

### What the violations show

- `stale_descriptor`: client 2 leaves; its record keeps descriptor 5. Client 3
  connects, is given 5, and its connection breaks. `handle_client_disconnect`
  (server.cpp:331) finds client 2 first. Client 3 stays marked connected over a
  closed descriptor and is refused when it comes back.
- The same property fails in a second way, a finding without a run of its own
  (`sessions` goes through it): the client whose id is the empty string, which
  neither program refuses, is killed. `handle_client_disconnect` finds it, and takes its id for
  the sign that none was found (server.cpp:338). It stays marked connected over a
  closed descriptor; a message for it then ends the server (`EBADF` in
  `send_all`) or goes to the next connection under that number.
- The passing properties that carry `mixup` say what holds until one of these
  two happens: they are the *only* ways in which the registry goes wrong
  (`Mischarged`, `RegistrySoundUnlessMixup`).
- `server_survives`: a message for a subscriber whose process has ended and
  whose connection was not polled yet ends the server (`send_all`,
  common.cpp:25, without `MSG_NOSIGNAL`; errors go to `DIE`). `DiesOnlyOf` says
  what holds: besides running out of descriptors and the two disconnects above,
  only a connection that its subscriber has left can end the server.
- `store_offline`: in the same window the message is neither delivered nor
  stored, although the client is offline and has the flag. The property is
  stated for clients none of whose processes is running.
- `control_length`: 57 bytes before the text of a string and 11 of text are
  `sizeof(tcp_request_t)`, so the length prefix of the message for "hello world"
  is taken for the beginning of a control message (subscriber.cpp:31). With the
  built programs it is printed as `68.0.0.0:32512 -  - INT - 872`, and what
  follows is read from the middle of the message. If `recv` sees only the
  first byte of a length, every length that is 68 modulo 256 does the same.
  `ParsedAsSent`, `EndsWithServer`, `PrintedAsMeant`, `OneLinePerMessage` and
  `ShownInOrder` say what holds of all other streams (`~Confusable`).
- The converse is a finding without a run of its own: the shutdown notice begins
  with the id "SERVER", which is never 68, so the branch for it
  (subscriber.cpp:39) is not reached by a subscriber that has not lost its
  place. Its letters are read as a length of about 1.4 GB, and the subscriber
  ends when the stream does (`Number(u) = HUGE` in `PipelineProofs`).
- `literal_star`: topic `*/a/b` is not accepted by pattern `*/b`, as the level
  `*` of the topic is taken for equal to the wildcard before the wildcard is
  looked at. For all other topics the scan is right, and for these too it
  never takes a topic that the pattern does not accept (`OnlyAccepted`): matches
  are lost, none is invented.

## What is proved

With TLAPS. Of `Broker`, for every value of the constants that meets
`SubscribersAssumption` and `BrokerAssumption` (finitely many ids, which are
positive numbers; descriptors above the three that `main` opened; matching
topics and patterns drawn from the declared sets). `Sessions`, `Fds`, `Topics`,
`Patterns` and all bounds are arbitrary, and so is what `Matches` contains.

| Theorem | Statement | Argument |
|---|---|---|
| `BrokerProofs!TypeCorrect` | `Spec => []TypeOK` | one lemma per group of actions. `TypeOK` includes `Len(published) + Len(udp) <= MaxMessages`: without it the count of a new message could be outside `c` |
| `BrokerProofs!SubscriptionTablesAgree` | `Spec => []SubscriptionsAgree` | inductive with `TypeOK`; only two actions touch the tables, and they touch both |
| `QueueProofs!QueueInvariant` | `Spec => []QueueInv` | see below |
| `QueueProofs!StoredInOrder` | `Spec => []QueuesOrdered` | from `QueueInv` |
| `QueueProofs!ReferenceCounts` | `Spec => []RefCountExact` | from `QueueInv` |
| `QueueProofs!LiveNeverOvertakes` | `Spec => []ConnectedHasNoQueue` | from `QueueInv` |
| `PollProofs!PollSetStaysExact` | `Spec => []PollSetExact` | from `PollInv` |
| `PollProofs!EventsStayTrue` | `Spec => []EventsHold` | inductive with `PollInv`, see below |
| `PollProofs!RoundsGoOn` | `Spec => RoundsServe` | from `PollInv` and `EventsHold`, see below |
| `RegistryProofs!RegistryStaysSound` | `Spec => []RegistrySoundUnlessMixup` | from `RegistryInv` |
| `RegistryProofs!JoinedStayRegistered` | `Spec => []JoinedIsRegistered` | from `RegistryInv` |
| `RegistryProofs!CausesOfDeath` | `Spec => DiesOnlyOf` | from `RegistryInv` |
| `DeliveryProofs!ServerKeepsPromise` | `Spec => DeliversAsPromised` | step simulation under `DeliveryInv` |
| `DeliveryProofs!SentInOrder` | `Spec => []StreamsOrdered` | from `StreamInv` |
| `DeliveryProofs!OnceForEachClient` | `Spec => []OncePerClient` | from `StreamInv` |

`QueueInv` is `AwayOnly /\ QueuesOrdered /\ RefCountExact`. `AwayOnly` (stored
messages only for clients that are registered and away) is the strengthening:
without it a client that registers could already own a queue, whose
messages would then be held without being counted. `QueuesOrdered` is needed
for the counts as well: the identifier of a new message is above all that the
queues hold, so its count starts from no holders. `QueueSteps` reduces the
steps of the system to four that touch the queues (`Distribute`, `Reconnect`,
`Shutdown`, `Register`) and `Quiet` ones; each has a lemma.

`PollInv` is `PollSetExact` position by position, with `Admission`: the
connections in the accept queue are different, were begun, and have no
descriptor yet. That no session is ever behind two descriptors rests on it.
`PollSteps` reduces the steps to accepting, closing an entry, starting a
session, the end of the process, and `Still` ones; `ErasedAt` says what erasing
in the middle does to the positions.

`EventsHold` and `RoundsServe` are the safety behind the liveness of the rounds.
An event stays true because only the server's one thread reads, accepts and
closes: what subscribers, publishers and users do adds to what is ready and
takes nothing away, and a handler reads only the connection of its own entry.
Events are kept by descriptor, so `PollInv` is needed as well: a number given
anew by `accept` belongs to no entry ahead. Every handler settles its event in one of
three ways (`GoOn` behind the entry, behind the one that took its place, or at
its place after `idx--`), and the positions that `ErasedAt` gives show that at
most one other event is passed, and that its entry stays.

`DiesOnlyOf` needs the registry: the writes of `Distribute`, `Reconnect` and
`Shutdown` go to descriptors kept for clients marked connected, and under
`RegistryInv` these lead to open connections until a disconnect misses its client. So a
write that fails is one to a connection whose other end has gone.

`RegistryInv` says when a session's `CONNECT` has been read, which no variable
of the code records. `Entered(s)`: `s` is running or has requests waiting, and
none of these is `CONNECT`; `Past(s)`: the same, or `s` was cut off since. As
`CONNECT` is the first request and sent once (`ConnectFirst`), a refused
connection is never that of a client registered there, and a later request
always comes from the connection its client is registered under. These hold up
to the first disconnect that `handle_client_disconnect` does not charge to its
client, and the proof shows why: the lookup takes the *first* record with the
descriptor (`Least` finds it, as ids are well ordered) and drops the empty id, so
it misses a connected client exactly when `Mischarged` holds
(`DisconnectCharged`).

`DeliveryInv` joins all these with `Fresh` (nothing is written to a session that
has not begun). Under it a client is served at a session of its own
(`ServedType`), so `process_udp_message` writes at most one copy to a session
(`OneCopy`); with the agreement of the two tables of subscriptions its
recipients are those that `Delivery` names. At the first connection nothing is
stored (`AwayOnly`), so `Register` and `Reconnect` both are `Join`; the three
ways of closing a connection are `Leave`, or nothing if no client was served
there. The steps by which the process ends leave `serving`, of which `Delivery`
promises nothing more.

`StreamInv` is what `StreamsOrdered` and `OncePerClient` need of each other:
only received messages are given (`Known`), those stored for a client are newer
than all its sessions were given (`Newer`), and two of its sessions have none in
common (`Apart`). A message handed out is newer than all (`HandoutKeeps`), also
when the server dies half-way through the recipients; what a session loses at
its end is the last part of what it was given (`CutKeeps`).

Of the path from publisher to screen, for every value that meets
`PublisherAssumption` (the list is a sequence; count and delay are numbers,
absent or not numbers), `StreamAssumption`, `PayloadAssumption` and
`PipelineAssumption` (a datagram has at least no bytes, an INT a sign and a
number of its width, and a real a number and an exponent within the bounds
`Wide` and `Digits`; with a float's 24 digits, 2^-149 and the 22 powers of ten
that `pow` gives exactly, `Wide` = 181 takes every number of 32 bits):

| Theorem | Statement | Argument |
|---|---|---|
| `PublisherProofs!PublisherTypeCorrect` | `PublisherSpec => []PublisherTypeOK` | one case per step |
| `PublisherProofs!ListSentInOrder` | `PublisherSpec => []AllOnceInOrder` | from `SentInv` |
| `PublisherProofs!CountRespected` | `PublisherSpec => []CountHonoured` | from `SentInv` |
| `PublisherProofs!FaultsAreFinal` | `PublisherSpec => []FaultsEndTheRun` | from `SentInv` |
| `PublisherProofs!ChoicesAnswered` | `PublisherSpec => []ManualSendsChoices` | from `Prompt`, see below |
| `PipelineProofs!IntPrintedAsMeant`, `PrintedIntFits` | an INT is printed as meant exactly below `Half`, and `-Half`; it always fits an int | arithmetic, any width |
| `PipelineProofs!PublisherUnaffected` | `Pipeline!Spec => PublisherSpec` | a step simulation: the rest of the pipeline stutters for the publisher |
| `PipelineProofs!InStepWithStream` | `Spec => []FramingInv` | see below |
| `PipelineProofs!MessagesParsedAsSent` | `Spec => []ParsedAsSent` | from `FramingInv` |
| `PipelineProofs!NothingUnreadAtTheEnd` | `Spec => []EndsWithServer` | from `FramingInv` |
| `PipelineProofs!TypeCorrect` | `Spec => []TypeOK` | from `FramingInv`, with `Rooms` (no buffer exceeds its size) and `Carried` |
| `PipelineProofs!LinePerMessage` | `Spec => []OneLinePerMessage` | from `ShownInOrder` and `InOrder`, see below |
| `PipelineProofs!ScreenInOrder` | `Spec => []ShownInOrder` | see below |
| `PipelineProofs!MantissaPrinted` | a mantissa below half of those that a float holds is printed as it is | see below |
| `PipelineProofs!LinesAsMeant` | `Spec => []PrintedAsMeant` | from `ShownInOrder`, `IntPrintedAsMeant` and `MantissaPrinted` |

`SentInv` ties the number of datagrams sent to the position of the loop: equal
at the top of it, one ahead during the sleep or after a late exception.

`FramingInv` is `Layout /\ Counts /\ (~Confusable => InStep)`. `ParsedAsSent`
is not inductive: that a message is parsed right depends on where the read
began. `Layout` says that units lie end to end and that the notice, if any, is
the last; `InStep`, for each point in `handle_server_message`, at which byte of
which unit the reader is. While the reader is in step, the four bytes it looks
at are those of the next unit (`NextNumber`), so it cannot take them for a
control message; and it never finishes the "message" of a notice, as the number
`HUGE` its letters make is more than the bytes that follow (`GotPayloadKeeps`).
A reader that reports the end has seen a closed connection, and an empty one
unless it was writing. `Confusable` only becomes true, so nothing is needed of
a reader that has lost its place but its types (`Counts`).

`ManualSendsChoices` asks for a mapping from the datagrams to the choices they
answer, and at each step the proof has to name one: `Answers(f)` is a strictly
increasing `f` that reaches every valid choice but the one being sent, and
`Prompt` says which choice that is. Sending extends `f` by the choice just
typed; a line that is no choice leaves it alone, and an exception in the middle
leaves the last choice without its datagram, the only one that may lack it.

The screen needs more than messages parsed right: the unit parsed
must be that of the datagram whose payload is printed. `UnitPerMessage` says
that units and relayed datagrams go in step (the notice is one unit more), and
`InOrder` that datagrams keep their order in the socket and behind it, so that
the message parsed last is the one relayed under the same number and no other
(`ParsedIsRelayed`). `ShownInOrder` is then inductive together with `NotYet`: the
command that is being sent has no acknowledgement on the screen, without which a
second one could follow. `ScreenSteps` reduces the steps to displaying the next
message (`MessageKeeps`), acknowledging the command sent (`AcknowledgeKeeps`),
and those that print nothing (`QuietKeeps`); what is printed comes behind
everything on the screen, and ends its line exactly if it is an acknowledgement
or whole. If all messages are whole, every item thus ends its line, and each
message has one of its own (`LinePerMessage`). A message that ends a line is
whole, and `LinesAsMeant` says what is printed of it.

For a real that is arithmetic of powers. The prover knows nothing of `^`, so
`Powers` is a recursive function on a bounded domain; that its equation has a
solution, and each property of powers, is shown by the least exponent without it
(`LeastNumber`), which needs no induction theorem. A mantissa `m` of at most
2^(FloatBits - 1) becomes that very float (`MantissaKept`), as its spacing
divides 2^Fine. Its quotient by T = 10^digits is off by at most half the spacing
`g` around it. If that is the least spacing there is, T < 2^Fine makes it less
than half a unit of the last digit; otherwise the quotient has `FloatBits`
digits, so that T * g <= 2^Fine, and where both are equal the division leaves
no rest (`QuotientClose`). The last rounding then gives back `m` (`DigitsSurvive`).

Of `TopicMatch`, for all topics and patterns that are nonempty sequences of
strings (`TopicMatchAssumption`), of any length:

| Theorem | Statement | Argument |
|---|---|---|
| `TopicMatchProofs!IndicesInRange` | `Spec => []TypeOK` | with `SetAside`: the place to go back to is not ahead of the scan |
| `TopicMatchProofs!IterationsAdvance` | `Spec => ScanAdvances` | from `SetAside`: a `*` that is met lies behind the last one |
| `TopicMatchProofs!MatchesCorrectly` | `Spec => []CorrectForPlainTopics` | from `ScanInv` |
| `TopicMatchProofs!LastManySuffices` | `Spec => []LastManyIsEnough` | from `ScanInv` and `AheadIsFrom` |
| `TopicMatchProofs!NothingUnasked` | `Spec => []OnlyAccepted` | from `ReachedInv` |

The definition, `Accepts`, is an alignment of the whole pattern with the whole
topic. `From(t, p, i, j)` is one of what is left of them, and three lemmas say
how it unfolds: by one level (`OneLevel`), by any number of levels for `*`
(`ManyLevels`), and at the end (`NothingLeft`). `Decided` (the topic is accepted
if and only if the rest is, from where the scan is or from where it goes back
to) is what `LastManyIsEnough` says, and not inductive. When a `*` is met, the
place set aside before is dropped; `AfterLast` says that nothing is lost: if the
pattern accepts the topic from the last `*` on, then what is left of the pattern
accepts some later rest of the topic, and the new `*` can skip to it.
When the scan goes back one level, the level it had tried is refuted by where it
got stuck (`Stuck`). All this needs a topic without a level `*`, or case 1 would
pass a `*` of the pattern by. `ReachedInv` keeps one direction of it, which needs
no such condition: whatever the levels are, what lies ahead is accepted only if
all is. That the rest of an alignment is an alignment of the rest
(`AheadIsFrom`) takes that alignments never go back (`NeverBack`), by the least
level that would.

Every invariant and every action property that the passing runs check is proved.
Only model-checked is all liveness: `RequestsServed`, `ConnectionsReleased`,
`ShutdownEndsSessions`, `PublisherEnds`, `CatchesUp` and `Returns`. The safety
they rest on is proved: that no round forgets an entry or serves an event that
is no longer so (`RoundsServe`, `EventsHold`), and of `Returns`, by `ScanAdvances`
and `TypeOK`, that the scan has finitely many iterations.

## Not modelled

- Start-up (`main`, `configure_socket`): it ends the process on any failure,
  before there is state.
- `string_to_argv`, the layout of what is printed, and what is logged.
- The stdio buffer beside the subscriber's stdin: when that is a pipe, `fgets`
  may read several lines and `poll` does not report those left in the buffer,
  so they wait for the next input.
- Failures of `poll`, `recv`, `recvfrom` and `setsockopt` themselves.
- In the pipeline: datagrams that overtake each other, those above 2999 bytes, a
  topic or a string that holds an end of line, garbage of fewer than six bytes
  (for which `substr` throws and ends a subscriber that has lost its place
  already), exponents above `Digits` (from 23 on `pow` is not exact, and from 128
  on the exponent is a negative `char`), and the rounding of the quotient to a double
  before it becomes a float, which changes nothing as a double has more than
  twice the digits.
- In the publisher: `--help`, files that are not lists, and interrupts.
- The test script.

## Plan

1. Done: `Subscribers`, `Broker`, `Topics`, `TopicMatch`, `BrokerProofs`,
   `QueueProofs`.
2. Done: `Delivery` and the refinement; `Publisher`, `Stream`, `Payload`,
   `Pipeline`, and their proofs.
3. Done: proofs of the poll set, the registry, the refinement of `Delivery`, and
   what each client is sent.
4. Done: proofs of the scan in `TopicMatch`, of the screen and the types of the
   pipeline, and of the prompt of the publisher.
5. Done: safety behind the liveness of the rounds, what ends the server, and
   the printing of reals.
6. To be modelled: stdin as a stdio buffer beside a descriptor.
