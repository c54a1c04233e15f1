----------------------------- MODULE Publisher -----------------------------
(***************************************************************************)
(* The UDP client (pcom_hw2_udp_client/udp_client.py): one run of the      *)
(* program, from its command line to its end.  Every call that can wait    *)
(* or raise ends a step: parsing, bind, sendto, sleep, input.              *)
(***************************************************************************)
EXTENDS Integers, Sequences

CONSTANTS
    CommandLines,  \* bound: the command lines the program is started with
    Lines,         \* bound: what the user types at the prompt, see Input
    MaxLines,      \* bound: lines the user types
    MaxRandom,     \* bound: messages sent in random mode without --count
    None,          \* an option that was not given
    Text,          \* an argument or a line that int() does not accept
    ExitLine,      \* the line "exit"
    Eof            \* the end of standard input

(***************************************************************************)
(* An entry of the JSON list is a record with the fields                   *)
(*   decodable  it has a payload_base64 that is valid base64               *)
(*   described  it has a description                                       *)
(* and a datagram, which only the receivers look at.                       *)
(***************************************************************************)
ASSUME PublisherAssumption ==
    /\ \A a \in CommandLines :
          /\ a.input_file \in Seq({a.input_file[k] : k \in DOMAIN a.input_file})
          /\ {a.count, a.delay} \subseteq Int \cup {None, Text}
    /\ {None, Text, ExitLine, Eof} \cap Int = {}
    /\ None # Text
    /\ ExitLine \notin {Text, Eof}
    /\ Lines \subseteq Int \cup {Text, ExitLine, Eof}
    /\ MaxLines \in Nat
    /\ MaxRandom \in Nat

VARIABLES
    args,      \* the command line; unchanged, as parsed_args is
    stage,     \* where the program is, see Stages
    position,  \* messages sent by this loop (the iterator, or count)
    sent,      \* positions in input_file of the datagrams sent, in order
    chosen     \* history: the lines typed in manual mode

publisherVars == <<args, stage, position, sent, chosen>>

(***************************************************************************)
(*   start     arguments not parsed yet                                    *)
(*   parsed    arguments accepted, no socket                               *)
(*   bound     socket bound                                                *)
(*   turn      at the top of the loop of the mode                          *)
(*   sleeping  in time.sleep() after a message                             *)
(*   done      main() returned                                             *)
(*   usage     argparse printed an error and exited                        *)
(*   failed    an exception ended the program                              *)
(***************************************************************************)
Ended == {"done", "usage", "failed"}
Stages == Ended \cup {"start", "parsed", "bound", "turn", "sleeping"}

PublisherTypeOK ==
    /\ args \in CommandLines
    /\ stage \in Stages
    /\ position \in Nat
    /\ sent \in Seq(DOMAIN args.input_file)
    /\ chosen \in Seq(Lines)

PublisherInit ==
    /\ args \in CommandLines
    /\ stage = "start"
    /\ position = 0
    /\ sent = <<>>
    /\ chosen = <<>>

---------------------------------------------------------------------------
(* setup_parser, setup_socket *)

MIN_VALUE == 1024
MAX_VALUE == 65535

\* unprivileged_port_type returns; otherwise it raises ValueError.
PortAccepted(value) ==
    /\ value # Text
    /\ value >= MIN_VALUE
    /\ value <= MAX_VALUE

\* The list and the mode after parsing: the defaults where nothing was given.
input_file == args.input_file
mode == IF args.mode = None THEN "all_once" ELSE args.mode
delay == IF args.delay = None THEN 0 ELSE args.delay

\* Every type function of the parser returns.  The default of --source-port
\* is an int and goes through none; that of --input_file is a name and does.
Accepted ==
    /\ args.file = "json"
    /\ args.server_ip # "invalid"
    /\ PortAccepted(args.server_port)
    /\ args.source_address # "invalid"
    /\ args.source_port # None => PortAccepted(args.source_port)
    /\ mode \in {"all_once", "manual", "random"}
    /\ args.count # Text
    /\ args.delay # Text

GoTo(s) == stage' = s /\ UNCHANGED <<args, position, sent, chosen>>

ParseArgs ==
    /\ stage = "start"
    /\ GoTo(IF Accepted THEN "parsed" ELSE "usage")

\* bind() may fail; of an IPv6 address it does, as the socket is AF_INET.
SetupSocket ==
    /\ stage = "parsed"
    /\ \/ args.source_address = "v4" /\ GoTo("bound")
       \/ GoTo("failed")

\* main calls the function of the mode; run_manual lists the descriptions first.
RunMode ==
    /\ stage = "bound"
    /\ GoTo(IF mode = "manual" /\ \E k \in DOMAIN input_file : ~input_file[k].described
              THEN "failed"
              ELSE "turn")

---------------------------------------------------------------------------
(* send_message *)

\* b64decode raises nothing, and the address is one of the socket's family.
Sendable(k) == input_file[k].decodable /\ args.server_ip = "v4"

\* Mutant: an exception of sleep is swallowed.
RaisesNothingLate(k) == ~input_file[k].described

\* After sendto: print needs the description, sleep a delay that is not negative.
RaisesLate(k) == ~input_file[k].described \/ delay < 0

\* The exceptions come before the datagram is sent, sendto's own included (no
\* route, too large), or after it.
SendMessage(k) ==
    /\ \/ /\ Sendable(k)
          /\ sent' = Append(sent, k)
          /\ stage' = IF RaisesLate(k) THEN "failed" ELSE "sleeping"
       \/ /\ sent' = sent
          /\ stage' = "failed"
    /\ UNCHANGED <<args, position>>

\* The sleep is over and the loop goes on.
Wake ==
    /\ stage = "sleeping"
    /\ stage' = "turn"
    /\ position' = position + 1
    /\ UNCHANGED <<args, sent, chosen>>

---------------------------------------------------------------------------
(* run_all_once, run_random, run_manual *)

\* Mutant: the loop stops one short of the end.
AllButLast == 1..(Len(input_file) - 1)

Listed == 1..Len(input_file)

SendNext ==
    /\ stage = "turn"
    /\ mode = "all_once"
    /\ position + 1 \in Listed
    /\ SendMessage(position + 1)
    /\ UNCHANGED chosen

\* Mutant: count <= n.
MoreOneTooMany == args.count # None => position <= args.count

\* (n is None) or (count < n)
More == args.count # None => position < args.count

\* random.choice raises IndexError on an empty list.
SendRandom ==
    /\ stage = "turn"
    /\ mode = "random"
    /\ More
    /\ args.count = None => position < MaxRandom
    /\ \/ \E k \in DOMAIN input_file : SendMessage(k) /\ UNCHANGED chosen
       \/ input_file = <<>> /\ GoTo("failed")

\* Mutant: the random loop goes on for ever.
EndOfListOnly ==
    /\ stage = "turn"
    /\ mode = "all_once"
    /\ position + 1 \notin Listed
    /\ GoTo("done")

EndOfLoop ==
    /\ stage = "turn"
    /\ \/ mode = "all_once" /\ position + 1 \notin Listed
       \/ mode = "random" /\ ~More
    /\ GoTo("done")

\* Mutant: choice > 0.
InRangeFromOne(n) == n > 0 /\ n < Len(input_file)

\* (choice >= 0) and (choice < len(parsed_args.input_file))
InRange(n) == n >= 0 /\ n < Len(input_file)

\* A line typed at the prompt.
Typed(line) ==
    /\ stage = "turn"
    /\ mode = "manual"
    /\ Len(chosen) < MaxLines
    /\ chosen' = Append(chosen, line)

Leave(line) ==
    /\ line = ExitLine
    /\ Typed(line)
    /\ stage' = "done"
    /\ UNCHANGED <<args, position, sent>>

\* int() raises on a line that is no integer, input() at the end of the input.
Stumble(line) ==
    /\ line \in {Text, Eof}
    /\ Typed(line)
    /\ stage' = "failed"
    /\ UNCHANGED <<args, position, sent>>

Choose(line) ==
    /\ line \in Int
    /\ Typed(line)
    /\ \/ InRange(line) /\ SendMessage(line + 1)
       \/ ~InRange(line) /\ UNCHANGED <<args, stage, position, sent>>

---------------------------------------------------------------------------
(* The program *)

\* Steps the program takes by itself; the others are the user's.
PublisherRuns ==
    \/ ParseArgs
    \/ SetupSocket
    \/ RunMode
    \/ SendNext
    \/ SendRandom
    \/ EndOfLoop
    \/ Wake

UserTypes == \E line \in Lines : Leave(line) \/ Stumble(line) \/ Choose(line)

PublisherNext == PublisherRuns \/ UserTypes

PublisherSpec == PublisherInit /\ [][PublisherNext]_publisherVars

---------------------------------------------------------------------------
(* What the program promises *)

\* "all_once - send each payload in the list once": whatever ends the program,
\* it has sent the first entries of the list in order, and all if it returned.
AllOnceInOrder ==
    mode = "all_once" =>
        /\ sent = [k \in 1..Len(sent) |-> k]
        /\ stage = "done" => Len(sent) = Len(input_file)

\* "--count, number of packets to be send": that many, if there are faults
\* fewer, and none when it is zero or negative.
CountHonoured ==
    mode = "random" /\ args.count \in Int =>
        /\ Len(sent) > 0 => Len(sent) <= args.count
        /\ stage = "done" => Len(sent) = args.count \/ args.count <= 0

\* The lines typed that choose an entry, options being numbered from 0.
Choices == {i \in DOMAIN chosen : chosen[i] \in 0..(Len(input_file) - 1)}

\* "manual - let you choose which message to send next": what was sent is what
\* was chosen, each choice once and in that order (f says which line each
\* message answers); only the line that ended the program may be unanswered.
ManualSendsChoices ==
    mode = "manual" =>
        \E f \in [DOMAIN sent -> Choices] :
            /\ \A j \in DOMAIN sent : sent[j] = chosen[f[j]] + 1
            /\ \A j, k \in DOMAIN sent : j < k => f[j] < f[k]
            /\ \A i \in Choices :
                  \/ \E j \in DOMAIN sent : f[j] = i
                  \/ stage = "failed" /\ i = Len(chosen)

\* A fault is never passed over: after an entry without a description, or the
\* first message when the delay is negative, nothing more is sent, and the
\* program does not return as if all were well.  main() checks none of these
\* before the first datagram is on its way.
FaultsEndTheRun ==
    \A j \in DOMAIN sent :
        /\ input_file[sent[j]].decodable
        /\ delay < 0 \/ ~input_file[sent[j]].described => j = Len(sent) /\ stage = "failed"

\* The run ends by itself, unless it waits for a user or has no count.
PublisherEnds ==
    <>(stage \in Ended \/ mode = "manual" \/ (mode = "random" /\ args.count = None))
=============================================================================
