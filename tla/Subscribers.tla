---------------------------- MODULE Subscribers ----------------------------
(***************************************************************************)
(* The subscriber processes (src/subscriber.cpp) and the TCP connection    *)
(* each of them holds to the server.  A session is one run of the          *)
(* subscriber program: it connects once, under one client id, and ends.    *)
(* The kernel's part of a connection (what a close or a late write does)   *)
(* is kept here too, as the code relies on it and does not contain it.     *)
(***************************************************************************)
EXTENDS Naturals, Sequences, FiniteSets

CONSTANTS
    Ids,          \* client ids, ordered as std::map<std::string, ...> orders them
    Patterns,     \* the topic patterns that users subscribe to
    NumSessions,  \* bound: runs of the subscriber program
    Killable,     \* bound: the sessions that may be killed at any moment
    Menu,         \* bound: the subscribe and unsubscribe commands users type
    MaxCommands   \* bound: subscribe and unsubscribe commands typed, all sessions together

Sessions == 1..NumSessions

VARIABLES
    owner,    \* owner[s]: the client id session s was started with, 0 before
    link,     \* link[s]: state of the connection of session s, see LinkStates
    inbox,    \* inbox[s]: requests sent by session s, not yet read by the server
    outbox,   \* outbox[s]: data written by the server, not yet read by session s
    got,      \* got[s]: the published messages session s has read and printed
    listenq,  \* connections the server has not accepted yet, in arrival order
    typed     \* number of commands typed so far, for the bound MaxCommands

subscriberVars == <<owner, link, inbox, outbox, got, listenq, typed>>

---------------------------------------------------------------------------
(* Requests (tcp_request_t) and data *)

Connect == [type |-> "MESSAGE"]
Exit == [type |-> "EXIT"]
Subscribe(p, sf) == [type |-> "SUBSCRIBE", topic |-> p, sf |-> sf]
Unsubscribe(p) == [type |-> "UNSUBSCRIBE", topic |-> p]

Commands ==
    [type : {"SUBSCRIBE"}, topic : Patterns, sf : BOOLEAN]
        \cup [type : {"UNSUBSCRIBE"}, topic : Patterns]

Requests == Commands \cup {Connect, Exit}

ASSUME SubscribersAssumption ==
    /\ Ids \subseteq Nat \ {0}
    /\ IsFiniteSet(Ids)
    /\ NumSessions \in Nat
    /\ Killable \subseteq Sessions
    /\ Menu \subseteq Commands
    /\ MaxCommands \in Nat

\* The shutdown notice, in an outbox among published messages (1, 2, ...).
Notice == 0

---------------------------------------------------------------------------
(* Connections *)

\* The subscriber process is running and holds its end open.
Alive == {"connecting", "open", "exiting", "eof", "ending"}

(***************************************************************************)
(*   none        the session has not started                               *)
(*   connecting  connected, CONNECT not sent yet                           *)
(*   open        CONNECT sent, in the poll loop                            *)
(*   exiting     EXIT sent, the process is about to close                  *)
(*   eof         the server's end is closed, the process is still running  *)
(*   ending      as eof, but the process reads no more (it has sent EXIT)  *)
(*   fin         the process closed after reading all its data (FIN)       *)
(*   finrst      as fin, and the server wrote since: a RST is on its way   *)
(*   rst         the process closed with unread data: a RST is on its way  *)
(*   reset       the RST arrived: POLLERR | POLLHUP, a write raises SIGPIPE*)
(*   gone        both ends are closed                                      *)
(***************************************************************************)
LinkStates ==
    Alive \cup {"none", "fin", "finrst", "rst", "reset", "gone"}

\* The connections lk after the server closes its end of those of S.
ServerClosed(lk, S) ==
    [s \in Sessions |->
        CASE s \notin S \/ lk[s] \in {"none", "eof", "ending"} -> lk[s]
          [] s \in S /\ lk[s] \in {"connecting", "open"} -> "eof"
          [] s \in S /\ lk[s] = "exiting" -> "ending"
          [] OTHER -> "gone"]

\* What a close by the subscriber leaves of its connection.
HungUp(s) ==
    CASE link[s] \in {"eof", "ending"} -> "gone"
      [] link[s] \notin {"eof", "ending"} /\ outbox[s] = <<>> -> "fin"
      [] OTHER -> "rst"

SubscriberTypeOK ==
    /\ owner \in [Sessions -> Ids \cup {0}]
    /\ link \in [Sessions -> LinkStates]
    /\ inbox \in [Sessions -> Seq(Requests)]
    /\ outbox \in [Sessions -> Seq(Nat)]
    /\ got \in [Sessions -> Seq(Nat)]
    /\ listenq \in Seq(Sessions)
    /\ typed \in Nat

SubscriberInit ==
    /\ owner = [s \in Sessions |-> 0]
    /\ link = [s \in Sessions |-> "none"]
    /\ inbox = [s \in Sessions |-> <<>>]
    /\ outbox = [s \in Sessions |-> <<>>]
    /\ got = [s \in Sessions |-> <<>>]
    /\ listenq = <<>>
    /\ typed = 0

---------------------------------------------------------------------------
(* Steps of a subscriber *)

\* establish_connection: the kernel completes it into the accept queue.
\* Sessions are numbered in the order they start.
Start(s, i) ==
    /\ link[s] = "none"
    /\ \A r \in 1..(s - 1) : link[r] # "none"
    /\ owner' = [owner EXCEPT ![s] = i]
    /\ link' = [link EXCEPT ![s] = "connecting"]
    /\ listenq' = Append(listenq, s)
    /\ UNCHANGED <<inbox, outbox, got, typed>>

SendConnect(s) ==
    /\ link[s] = "connecting"
    /\ link' = [link EXCEPT ![s] = "open"]
    /\ inbox' = [inbox EXCEPT ![s] = Append(@, Connect)]
    /\ UNCHANGED <<owner, outbox, got, listenq, typed>>

\* process_user_command: subscribe and unsubscribe send one request each.
Command(s, r) ==
    /\ link[s] = "open"
    /\ typed < MaxCommands
    /\ inbox' = [inbox EXCEPT ![s] = Append(@, r)]
    /\ typed' = typed + 1
    /\ UNCHANGED <<owner, link, outbox, got, listenq>>

\* handle_server_message of a published message.
ReadMessage(s) ==
    /\ outbox[s] # <<>>
    /\ Head(outbox[s]) # Notice
    /\ got' = [got EXCEPT ![s] = Append(@, Head(outbox[s]))]
    /\ outbox' = [outbox EXCEPT ![s] = Tail(@)]

Receive(s) ==
    /\ link[s] \in {"open", "eof"}
    /\ ReadMessage(s)
    /\ UNCHANGED <<owner, link, inbox, listenq, typed>>

\* The exit command: EXIT is sent, and the round over the poll set that read
\* the command still serves the socket if data was there.
TypeExit(s) ==
    /\ link[s] = "open"
    /\ link' = [link EXCEPT ![s] = "exiting"]
    /\ inbox' = [inbox EXCEPT ![s] = Append(@, Exit)]
    /\ \/ UNCHANGED <<outbox, got>>
       \/ ReadMessage(s)
    /\ UNCHANGED <<owner, listenq, typed>>

Hangup(s) ==
    /\ link' = [link EXCEPT ![s] = HungUp(s)]
    /\ outbox' = [outbox EXCEPT ![s] = <<>>]
    /\ UNCHANGED <<owner, inbox, got, listenq, typed>>

\* main: close(client_socket) after the loop ended on exit.
Close(s) == link[s] \in {"exiting", "ending"} /\ Hangup(s)

\* The process is killed, or its terminal goes away.
Kill(s) == s \in Killable /\ link[s] \in Alive /\ Hangup(s)

\* The shutdown notice, or the end of the stream, ends the loop.
SeeEnd(s) ==
    /\ link[s] = "eof"
    /\ outbox[s] # <<>> => Head(outbox[s]) = Notice
    /\ Hangup(s)

\* The RST of a closed connection reaches the server's kernel.
RstArrives(s) ==
    /\ link[s] \in {"rst", "finrst"}
    /\ link' = [link EXCEPT ![s] = "reset"]
    /\ UNCHANGED <<owner, inbox, outbox, got, listenq, typed>>

\* Steps the program takes by itself once it can; the others are the user's.
SubscriberLoop(s) == Receive(s) \/ Close(s) \/ SeeEnd(s)

SubscriberStep(s) ==
    \/ SendConnect(s)
    \/ \E r \in Menu : Command(s, r)
    \/ Receive(s)
    \/ TypeExit(s)
    \/ Close(s)
    \/ Kill(s)
    \/ SeeEnd(s)
    \/ RstArrives(s)
=============================================================================
