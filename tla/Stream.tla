------------------------------- MODULE Stream -------------------------------
(***************************************************************************)
(* One connection from the server to a subscriber, byte by byte: the       *)
(* server's send_all (common.cpp) at one end, handle_server_message with   *)
(* recv and recv_all (subscriber.cpp) at the other, and the subscriber's   *)
(* requests in the other direction.  Bytes are counted, and only those     *)
(* that the code compares have values.                                     *)
(***************************************************************************)
EXTENDS Integers, Sequences

CONSTANTS
    Window,       \* bytes the connection holds that the subscriber has not read
    RequestRoom,  \* halves of requests that the connection holds for the server
    MaxTyped,     \* bound: commands typed at the subscriber
    Cuts,         \* bound: bytes of a unit after which a segment may end
    Strays        \* bound: numbers that four bytes of payload may make

PREFIX == 4      \* sizeof(int)
CTRL == 68       \* sizeof(tcp_request_t)
BYTE == 256
HUGE == BYTE * BYTE * BYTE  \* at least this is the number that "SERV" makes

ASSUME StreamAssumption ==
    /\ Window \in Nat \ {0}
    /\ RequestRoom \in Nat \ {0}
    /\ MaxTyped \in Nat
    /\ Cuts \subseteq Nat
    /\ Strays \subseteq Int

(***************************************************************************)
(* The server writes units.  One for a message is its length, as an int,   *)
(* and that many bytes; the shutdown notice is a bare tcp_request_t.       *)
(***************************************************************************)
Notice == 0

VARIABLES
    units,    \* the units the server has begun to write: where each begins,
              \* and the length of its message, or Notice
    written,  \* bytes that have arrived at the subscriber's end
    closed,   \* the server has closed the connection
    taken,    \* bytes the subscriber has taken out
    reading,  \* what the subscriber is doing, see Reading
    want,     \* what recv_all still waits for (bytes), or send_all (halves)
    start,    \* where the read in progress began
    parsed,   \* from where to where the data given to parse_input was, in order
    requests, \* halves of requests that the server has not read
    half,     \* the server is in recv_all for the other half of a request
    typed     \* commands typed

streamVars == <<units, written, closed, taken, reading, want, start, parsed,
                requests, half, typed>>

(***************************************************************************)
(*   poll      in poll()                                                   *)
(*   prefix    in recv_all for a length                                    *)
(*   payload   in recv_all for a message of that length (recv_string)      *)
(*   control   in recv_all for a tcp_request_t                             *)
(*   sending   in send_all of a request                                    *)
(*   ended     the loop is over                                            *)
(***************************************************************************)
Receiving == {"prefix", "payload", "control"}
Reading == Receiving \cup {"poll", "sending", "ended"}

Size(u) == IF u.len = Notice THEN CTRL ELSE PREFIX + u.len

Total == IF units = <<>> THEN 0 ELSE units[Len(units)].at + Size(units[Len(units)])

StreamTypeOK ==
    /\ units \in Seq([at : Nat, len : Nat])
    /\ written \in 0..Total
    /\ closed \in BOOLEAN
    /\ taken \in 0..written
    /\ written - taken <= Window
    /\ reading \in Reading
    /\ want \in Nat
    /\ start \in 0..taken
    /\ parsed \in Seq(Nat \X Nat)
    /\ requests \in 0..RequestRoom
    /\ half \in BOOLEAN
    /\ typed \in 0..MaxTyped

StreamInit ==
    /\ units = <<>>
    /\ written = 0
    /\ closed = FALSE
    /\ taken = 0
    /\ reading = "poll"
    /\ want = 0
    /\ start = 0
    /\ parsed = <<>>
    /\ requests = 0
    /\ half = FALSE
    /\ typed = 0

---------------------------------------------------------------------------
(* The server's end *)

\* send_all has returned from all that the server began to write.
Sending == written < Total

\* The server is in its loop, in neither send_all nor recv_all.
Idle == ~Sending /\ ~half /\ ~closed

\* The first bytes of a unit are handed to send_all.
Begin(len) ==
    /\ Idle
    /\ units' = Append(units, [at |-> Total, len |-> len])
    /\ UNCHANGED <<written, closed, taken, reading, want, start, parsed, requests, half, typed>>

\* Bytes arrive, as many as there is room for or fewer.  A segment may end at
\* the places Cuts of the unit, at its end, or where the window is full.
Segment ==
    /\ Sending
    /\ LET end == units[Len(units)].at
           full == taken + Window
       IN  written' \in {n \in {end + k : k \in Cuts} \cup {Total, full} :
                            n > written /\ n <= Total /\ n <= full}
    /\ UNCHANGED <<units, closed, taken, reading, want, start, parsed, requests, half, typed>>

\* The server has sent the notice, and closes the connection.
CloseStream ==
    /\ Idle
    /\ closed' = TRUE
    /\ UNCHANGED <<units, written, taken, reading, want, start, parsed, requests, half, typed>>

\* The server reads a request when poll reports some of it: not while it is in
\* send_all, and once it has begun it does nothing else until it has the rest.
TakeRequest ==
    /\ ~Sending
    /\ ~closed
    /\ requests > 0
    /\ requests' = requests - 1
    /\ half' = ~half
    /\ UNCHANGED <<units, written, closed, taken, reading, want, start, parsed, typed>>

---------------------------------------------------------------------------
(* The subscriber's end *)

Available == written - taken

\* The units that begin at byte n; the empty set if n is inside of one.
At(n) == {units[u] : u \in {v \in DOMAIN units : units[v].at = n}}

\* The numbers that the first k bytes at n make as a little-endian int, with
\* zeros after them.  Lengths are below BYTE^2; a notice begins with letters.
Numbers(n, k) ==
    IF At(n) = {} THEN Strays \cup {CTRL}
    ELSE {IF u.len = Notice THEN HUGE
          ELSE IF k = 1 THEN u.len % BYTE ELSE u.len : u \in At(n)}

\* recv with MSG_PEEK returns what is there, up to four bytes.
Peek ==
    /\ reading = "poll"
    /\ Available > 0
    /\ \E n \in Numbers(taken, Available) :
          \/ n = CTRL /\ reading' = "control" /\ want' = CTRL
          \/ n # CTRL /\ reading' = "prefix" /\ want' = PREFIX
    /\ start' = taken
    /\ UNCHANGED <<units, written, closed, taken, parsed, requests, half, typed>>

\* Mutant: recv is called only when all that is wanted is there (MSG_WAITALL
\* on bytes that do not fit the window).
AllThere == Available >= want

\* recv returns with less than was asked for.
SomeThere == Available > 0

\* Mutant: recv fills the buffer.
AllWanted == want

Received == IF want < Available THEN want ELSE Available

\* Mutant: recv is not called again.
NothingLeft(n) == 0

\* recv_all calls recv for the rest.
Left(n) == want - n

\* One recv of recv_all.
Recv ==
    /\ reading \in Receiving
    /\ want > 0
    /\ SomeThere
    /\ taken' = taken + Received
    /\ want' = Left(Received)
    /\ UNCHANGED <<units, written, closed, reading, start, parsed, requests, half, typed>>

\* Mutant: nothing to read is taken for the end of the stream.
NothingThere == Available = 0

\* recv returns 0.
EndOfStream == Available = 0 /\ closed

\* The end of the stream, at poll or in recv_all; a write to a connection that
\* is closed at the other end; a length that is negative, for which no string
\* can be made, or zero, for which the empty string is taken for the end.
SeeEnd ==
    /\ \/ reading = "poll" /\ EndOfStream
       \/ reading \in Receiving /\ want > 0 /\ EndOfStream
       \/ reading = "sending" /\ closed
       \/ reading = "prefix" /\ want = 0 /\ \E n \in Numbers(start, PREFIX) : n <= 0
    /\ reading' = "ended"
    /\ UNCHANGED <<units, written, closed, taken, want, start, parsed, requests, half, typed>>

\* The length is read: recv_string waits for the message.
GotPrefix ==
    /\ reading = "prefix"
    /\ want = 0
    /\ \E n \in Numbers(start, PREFIX) : n > 0 /\ want' = n
    /\ reading' = "payload"
    /\ start' = taken
    /\ UNCHANGED <<units, written, closed, taken, parsed, requests, half, typed>>

Parse ==
    /\ parsed' = Append(parsed, <<start, taken>>)
    /\ reading' = "poll"

GotPayload ==
    /\ reading = "payload"
    /\ want = 0
    /\ Parse
    /\ UNCHANGED <<units, written, closed, taken, want, start, requests, half, typed>>

\* control_msg.message is in the middle of whatever these bytes are.
GotControl ==
    /\ reading = "control"
    /\ want = 0
    /\ \/ Parse
       \/ reading' = "ended" /\ UNCHANGED parsed
    /\ UNCHANGED <<units, written, closed, taken, want, start, requests, half, typed>>

\* process_user_command: a request is given to send_all.
Type ==
    /\ reading = "poll"
    /\ typed < MaxTyped
    /\ typed' = typed + 1
    /\ reading' = "sending"
    /\ want' = 2
    /\ UNCHANGED <<units, written, closed, taken, start, parsed, requests, half>>

\* send_all hands over what there is room for, and returns after the second half.
Sent ==
    /\ reading = "sending"
    /\ requests < RequestRoom
    /\ requests' = requests + 1
    /\ want' = want - 1
    /\ reading' = IF want = 1 THEN "poll" ELSE "sending"
    /\ UNCHANGED <<units, written, closed, taken, start, parsed, half, typed>>

\* The steps of the subscriber that need no user.
Reads == Peek \/ Recv \/ SeeEnd \/ GotPrefix \/ GotPayload \/ GotControl \/ Sent

---------------------------------------------------------------------------
(* What the framing promises *)

\* The bytes of the message of unit u.
Body(u) == <<units[u].at + PREFIX, units[u].at + Size(units[u])>>

\* A length whose first byte, or all four, read like the size of a request:
\* handle_server_message takes its message for a control message.
Confusing(len) == len % BYTE = CTRL

Confusable == \E u \in DOMAIN units : Confusing(units[u].len)

\* ParsedAsSent whatever the lengths, as README.md says of the subscriber
\* ("Parses and displays received messages with proper formatting").
EveryMessageIntact ==
    \A j \in DOMAIN parsed :
        j \in DOMAIN units /\ units[j].len # Notice /\ parsed[j] = Body(j)

\* However the bytes are cut into segments, and whatever the user types in
\* between, parse_input is given exactly the messages the server wrote, each
\* once and in order, if none has a confusing length.
ParsedAsSent ==
    ~Confusable => EveryMessageIntact

\* The subscriber does not end while the connection is open, and when it does
\* it has read everything, unless a command was typed: the write that finds
\* the connection closed ends the subscriber with messages unread.
EndsWithServer ==
    ~Confusable /\ reading = "ended" =>
        /\ closed
        /\ typed = 0 => taken = written
=============================================================================
