----------------------------- MODULE MCPipeline -----------------------------
(***************************************************************************)
(* Constants for checking Pipeline: command lines, payload lists, and the  *)
(* places where the stream is cut.                                         *)
(***************************************************************************)
EXTENDS Pipeline

D(type, sign, value, exponent, rest) ==
    [type |-> type, sign |-> sign, value |-> value, exponent |-> exponent, rest |-> rest]

Entry(d) == [decodable |-> TRUE, described |-> TRUE, datagram |-> d]

\* Numbers on both sides of what an int and a float hold.
Numerals ==
    {D("INT", s, v, 0, 5) : s \in BOOLEAN, v \in 0..(2 * Half - 1)}
        \cup {D("SHORT_REAL", FALSE, v, 0, 2) : v \in {7, Two[FloatBits - 1]}}
        \cup {D("FLOAT", TRUE, v, e, 6) : v \in {0, 1, 5, 7, 8, 9, 17}, e \in 1..2}

\* Strings of 10 and 230 characters: the second does not fit the window, and
\* its length does not fit a byte.
Short == D("STRING", FALSE, 1, 0, 10)
Long == D("STRING", FALSE, 4, 0, 230)

\* A string of 11 characters, thus a message of 68 bytes, the size of a request.
Eleven == D("STRING", FALSE, 2, 0, 11)

\* Payloads that parse_input gives up on.
Cut == D("INT", TRUE, 1, 0, 4)
Unknown == D("other", FALSE, 1, 0, 6)
NoType == D("INT", FALSE, 1, 0, -1)
Empty == D("INT", FALSE, 1, 0, -51)

Int1 == D("INT", FALSE, 1, 0, 5)

Lists ==
    {<<Entry(Long), Entry(Int1)>>, <<Entry(Eleven)>>,
     <<Entry(Cut), Entry(Int1)>>, <<Entry(Empty), Entry(Int1)>>,
     <<Entry(Unknown), Entry(NoType), Entry(Int1)>>}

Plain ==
    [file |-> "json", input_file |-> <<Entry(Int1), Entry(Short)>>, server_ip |-> "v4",
     server_port |-> MIN_VALUE, source_address |-> "v4", source_port |-> None,
     mode |-> None, count |-> None, delay |-> None]

NoPayload == [Entry(Int1) EXCEPT !.decodable = FALSE]
NoDescription == [Entry(Int1) EXCEPT !.described = FALSE]

\* Options that are refused, and those at the edges of what is accepted.
Options ==
    {[Plain EXCEPT !.server_port = p] : p \in {Text, MIN_VALUE - 1, MAX_VALUE, MAX_VALUE + 1}}
        \cup {[Plain EXCEPT !.source_port = p] : p \in {0, MIN_VALUE}}
        \cup {[Plain EXCEPT !.server_ip = a] : a \in {"v6", "invalid"}}
        \cup {[Plain EXCEPT !.source_address = a] : a \in {"v6", "invalid"}}
        \cup {[Plain EXCEPT !.file = "missing", !.input_file = <<>>],
              [Plain EXCEPT !.mode = "twice"], [Plain EXCEPT !.count = Text]}
        \cup {[Plain EXCEPT !.delay = d, !.mode = m] :
                d \in {-1, 1}, m \in {None, "manual", "random"}}
        \cup {[Plain EXCEPT !.count = n, !.mode = "random", !.input_file = l] :
                n \in {None, -1, 0, 1, 2}, l \in {<<>>, <<Entry(Int1), NoPayload>>}}
        \cup {[Plain EXCEPT !.mode = m, !.input_file = l] : m \in {None, "manual"},
                l \in {<<>>, <<Entry(Int1), NoPayload>>, <<NoDescription, Entry(Int1)>>}}

OneByOne == {[Plain EXCEPT !.input_file = <<Entry(d)>>] : d \in Numerals}

Everything == {[Plain EXCEPT !.input_file = l] : l \in Lists} \cup Options \cup OneByOne

ElevenOnly == {[Plain EXCEPT !.input_file = <<Entry(Eleven)>>]}

Prompted == {-1, 0, 1, 2, Text, ExitLine, Eof}

\* Segments end in a length and after it, besides where the window is full.
AroundLength == {1, 4}

SomeStrays == {-1, HUGE}
=============================================================================
