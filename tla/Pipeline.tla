------------------------------ MODULE Pipeline ------------------------------
(***************************************************************************)
(* A message on its way from the UDP client to the screen of a subscriber: *)
(* Publisher, the datagrams in the server's UDP socket, the server as it   *)
(* serves one connected subscriber of all topics, Stream, and parse_input. *)
(* Which subscribers a message goes to is the subject of Broker.           *)
(***************************************************************************)
EXTENDS Publisher, Stream, Payload

CONSTANT UdpRoom  \* datagrams that the server's UDP socket holds

ASSUME PipelineAssumption ==
    /\ UdpRoom \in Nat
    /\ \A a \in CommandLines : \A k \in DOMAIN a.input_file :
          /\ a.input_file[k].datagram.rest \in Int
          /\ Length(a.input_file[k].datagram) >= ADDRESS
          /\ a.input_file[k].datagram.type = "INT" =>
                /\ a.input_file[k].datagram.sign \in BOOLEAN
                /\ a.input_file[k].datagram.value \in 0..(2 * Half - 1)
          /\ a.input_file[k].datagram.type \in {"SHORT_REAL", "FLOAT"} =>
                /\ a.input_file[k].datagram.value \in Nat
                /\ a.input_file[k].datagram.value * Two[Fine] < Two[Wide]
                /\ a.input_file[k].datagram.exponent \in 0..Digits

VARIABLES
    udp,      \* positions in sent of the datagrams in the UDP socket
    relayed,  \* history: positions in sent of the datagrams the server received
    exiting,  \* exit was read from the console
    screen    \* what is printed, in order, and whether a line ends with it: the
              \* message j > 0, the acknowledgement -k of command k, or garbage, 0

vars == <<publisherVars, streamVars, udp, relayed, exiting, screen>>

TypeOK ==
    /\ PublisherTypeOK
    /\ StreamTypeOK
    /\ udp \in Seq(DOMAIN sent)
    /\ Len(udp) <= UdpRoom
    /\ relayed \in Seq(DOMAIN sent)
    /\ exiting \in BOOLEAN
    /\ screen \in Seq([item : Int, ends : BOOLEAN])

Init ==
    /\ PublisherInit
    /\ StreamInit
    /\ udp = <<>>
    /\ relayed = <<>>
    /\ exiting = FALSE
    /\ screen = <<>>

\* The n-th datagram sent.
Datagram(n) == input_file[sent[n]].datagram

\* What its length prefix says.
UnitLength(n) == Length(Datagram(n))

---------------------------------------------------------------------------
(* The publisher, and the network: a datagram may be lost, and is when the *)
(* socket is full.                                                         *)

Transmit ==
    IF Len(sent') > Len(sent)
      THEN \/ UNCHANGED udp
           \/ Len(udp) < UdpRoom /\ udp' = Append(udp, Len(sent'))
      ELSE UNCHANGED udp

PublisherStep ==
    /\ PublisherNext
    /\ Transmit
    /\ UNCHANGED <<streamVars, relayed, exiting, screen>>

---------------------------------------------------------------------------
(* The server: one thread, which does nothing else while it is in send_all *)

\* process_udp_message for a connected client.
Relay ==
    /\ ~exiting
    /\ udp # <<>>
    /\ Begin(UnitLength(Head(udp)))
    /\ udp' = Tail(udp)
    /\ relayed' = Append(relayed, Head(udp))
    /\ UNCHANGED <<publisherVars, exiting, screen>>

\* handle_server_command: the notice, and then the end.
ServerExit ==
    /\ ~exiting
    /\ Begin(Notice)
    /\ exiting' = TRUE
    /\ UNCHANGED <<publisherVars, udp, relayed, screen>>

ServerClose ==
    /\ exiting
    /\ CloseStream
    /\ UNCHANGED <<publisherVars, udp, relayed, exiting, screen>>

HandleRequest ==
    /\ ~exiting
    /\ TakeRequest
    /\ UNCHANGED <<publisherVars, udp, relayed, exiting, screen>>

SendAll ==
    /\ Segment
    /\ UNCHANGED <<publisherVars, udp, relayed, exiting, screen>>

\* The server's steps, apart from the exit that its user types.
ServerRuns == Relay \/ ServerClose \/ HandleRequest \/ SendAll

---------------------------------------------------------------------------
(* The subscriber *)

Put(item, ends) == screen' = Append(screen, [item |-> item, ends |-> ends])

\* parse_input on what is the body of message j; a datagram without a type
\* byte prints nothing, and one that is not whole prints no end of line.
Display(j) ==
    LET d == Datagram(relayed[j])
    IN  IF d.rest < 0 THEN UNCHANGED screen ELSE Put(j, EndsLine(d))

\* parse_input on bytes that are not the body of a message: they may be too few
\* for it to print, or end the line.
DisplayGarbage == UNCHANGED screen \/ \E ends \in BOOLEAN : Put(0, ends)

Parsed == parsed'[Len(parsed')]

Show ==
    \/ \E j \in DOMAIN relayed : Parsed = Body(j) /\ Display(j)
    \/ (\A j \in DOMAIN relayed : Parsed # Body(j)) /\ DisplayGarbage

\* Mutant: the acknowledgement has no end of line.
AcknowledgeInLine == Put(-typed, FALSE)

\* send_all has returned: "Subscribed to topic ..." is printed on the screen.
Acknowledge == Put(-typed, TRUE)

SubscriberStep ==
    /\ Reads
    /\ CASE parsed' # parsed -> Show
         [] reading = "sending" /\ reading' = "poll" -> Acknowledge
         [] OTHER -> UNCHANGED screen
    /\ UNCHANGED <<publisherVars, udp, relayed, exiting>>

UserCommand ==
    /\ Type
    /\ UNCHANGED <<publisherVars, udp, relayed, exiting, screen>>

---------------------------------------------------------------------------

Next ==
    \/ PublisherStep
    \/ ServerRuns
    \/ ServerExit
    \/ SubscriberStep
    \/ UserCommand

Spec == Init /\ [][Next]_vars

\* Each of the programs takes its next step once it can: they are processes
\* of their own, and poll, recv and send return when there is data or room.
\* Nothing is assumed of the users.
Fairness ==
    /\ WF_vars(PublisherRuns /\ PublisherStep)
    /\ WF_vars(ServerRuns)
    /\ WF_vars(SubscriberStep)

FairSpec == Spec /\ Fairness

---------------------------------------------------------------------------
(* From the list of the publisher to the screen *)

\* A message that ends its line is printed as README.md says it is meant,
\* whenever its number is one that the arithmetic of parse_input can hold.
PrintedAsMeant ==
    ~Confusable =>
        \A n \in DOMAIN screen :
            screen[n].item > 0 /\ screen[n].ends =>
                LET d == Datagram(relayed[screen[n].item])
                IN  Exact(d) => Decoded(d) = Meaning(d)

\* What is printed n-th is alone on its line.
OwnLine(n) == screen[n].ends /\ (n > 1 => screen[n - 1].ends)

\* Each message has a line of its own, whatever commands are acknowledged in
\* between, and the messages come in the order in which they were sent.  (One of
\* unknown type or with too few bytes has no end of line, and shares its line
\* with what is printed next.)
OneLinePerMessage ==
    ~Confusable /\ (\A j \in DOMAIN relayed : Whole(Datagram(relayed[j]))) =>
        /\ \A j \in 1..Len(parsed) : \E n \in DOMAIN screen : screen[n].item = j /\ OwnLine(n)
        /\ \A j, k \in DOMAIN relayed : j < k => relayed[j] < relayed[k]

\* Messages in the order in which they were parsed, each once, and likewise
\* the acknowledgements of the commands typed.
InSequence ==
    \A n, m \in DOMAIN screen :
        n < m => /\ screen[n].item > 0 /\ screen[m].item > 0 => screen[n].item < screen[m].item
                 /\ screen[n].item < 0 /\ screen[m].item < 0 => screen[n].item > screen[m].item

\* Nothing else is printed, and a line ends with an acknowledgement, or with a
\* message that is whole.
EndsWhole ==
    \A n \in DOMAIN screen :
        LET j == screen[n].item
        IN  /\ j \in (-typed)..Len(parsed) /\ j # 0
            /\ screen[n].ends <=> j < 0 \/ Whole(Datagram(relayed[j]))

\* The commands whose send_all has returned.
Done == {k \in 1..typed : k < typed \/ reading \notin {"sending", "ended"}}

NoneMissing ==
    /\ \A j \in 1..Len(parsed) :
          Datagram(relayed[j]).rest >= 0 => \E n \in DOMAIN screen : screen[n].item = j
    /\ \A k \in Done : \E n \in DOMAIN screen : screen[n].item = -k

\* Whatever is cut, unknown or empty, and whatever is typed: the screen shows the
\* messages parsed that have a type byte and the commands sent, and nothing
\* else, each once and in order.  A message that is cut or unknown takes the
\* beginning of one other line, and spoils no more than that.
ShownInOrder == ~Confusable => InSequence /\ EndsWhole /\ NoneMissing

---------------------------------------------------------------------------
(* Progress *)

\* Both programs are in send_all, and both directions of the connection are full.
BothWait ==
    /\ Sending /\ written = taken + Window
    /\ reading = "sending" /\ requests = RequestRoom

\* The subscriber catches up with the server again and again, also when the
\* window is smaller than a message; there are two ways only in which messages
\* stay unread: a command was being written when the server had closed the
\* connection, or each of the two waits in send_all for the other to read.
CatchesUp ==
    []<>(\/ Confusable
         \/ Len(parsed) = Len(relayed)
         \/ reading = "ended" /\ typed > 0
         \/ BothWait)
=============================================================================
