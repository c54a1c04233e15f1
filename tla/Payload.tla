------------------------------ MODULE Payload ------------------------------
(***************************************************************************)
(* What a datagram means and what parse_input (common.cpp) prints of it.   *)
(* A datagram is a record: its type byte, the sign byte as a Boolean, the  *)
(* unsigned number it carries, the exponent byte, and the number of bytes  *)
(* that follow the type byte, negative by as many as are missing up to     *)
(* there: -1 without a type byte, and -51 for a datagram that is empty.    *)
(***************************************************************************)
EXTENDS Integers, Sequences

CONSTANTS
    Half,       \* an int holds -Half .. Half - 1, an unsigned int 0 .. 2*Half - 1
    FloatBits,  \* digits of the mantissa of a float: 24
    Fine,       \* floats are multiples of 2^-Fine, the least of them: 149
    Digits,     \* bound: digits after the point; pow(10, n) is exact up to 22
    Wide        \* bound: numbers are less than 2^Wide of those multiples

\* The powers of b up to the k-th.
Powers(b, k) ==
    LET power[n \in 0..k] == IF n = 0 THEN 1 ELSE b * power[n - 1]
    IN  power

Two == Powers(2, Wide)
Ten == Powers(10, Digits)

ASSUME PayloadAssumption ==
    /\ Half \in Nat \ {0}
    /\ Wide \in Nat
    /\ FloatBits \in 1..Wide
    /\ Fine \in 0..Wide
    /\ Digits \in Nat /\ 2 <= Digits
    /\ Ten[Digits] < Two[Fine]

Types == {"INT", "SHORT_REAL", "FLOAT", "STRING"}

\* Bytes of the address and of the topic that precede the type byte.
ADDRESS == 6
TOPIC == 50

\* Bytes that the payload of a type has; a string ends where the datagram does.
Needed(type) ==
    CASE type = "INT" -> 5
      [] type = "SHORT_REAL" -> 2
      [] type = "FLOAT" -> 6
      [] OTHER -> 0

\* The number of bytes of datagram d that the server sends on.
Length(d) == ADDRESS + TOPIC + 1 + d.rest

---------------------------------------------------------------------------
(* Integers *)

\* int value = ntohl(net_value), on two's complement.
ToInt(value) == IF value < Half THEN value ELSE value - 2 * Half

\* Mutant: the sign byte is read and forgotten.
NotNegated(n) == n

\* -value of an int: the least one overflows, and stays as it is.
Negated(n) == IF n = -Half THEN n ELSE -n

PrintedInt(sign, value) == IF sign THEN Negated(ToInt(value)) ELSE ToInt(value)

MeantInt(sign, value) == IF sign THEN -value ELSE value

---------------------------------------------------------------------------
(* Floating point *)

\* a / b to the nearest integer, ties to even.
Rounded(a, b) ==
    LET q == a \div b
        r == 2 * (a % b)
    IN  IF r > b \/ (r = b /\ q % 2 = 1) THEN q + 1 ELSE q

\* The distance of the floats around x, both in multiples of 2^-Fine.
Spacing(x) ==
    LET top == CHOOSE n \in 0..(Wide - 1) : Two[n] <= x /\ x < Two[n + 1]
    IN  IF top < FloatBits THEN 1 ELSE Two[top + 1 - FloatBits]

\* The float nearest to a / b, in multiples of 2^-Fine.
Float(a, b) ==
    LET gap == Spacing((a * Two[Fine]) \div b)
    IN  IF a = 0 THEN 0 ELSE gap * Rounded(a * Two[Fine], b * gap)

\* The number printed: the mantissa becomes a float, its quotient by 10^digits
\* another.
Quotient(value, digits) ==
    LET mantissa == Float(value, 1) \div Two[Fine]
    IN  Float(mantissa, Ten[digits])

\* The digits printed, as an integer: setprecision(digits) rounds the quotient.
PrintedDigits(value, digits) ==
    Rounded(Quotient(value, digits) * Ten[digits], Two[Fine])

---------------------------------------------------------------------------
(* parse_input *)

\* The number, string or pair of digits and point that a datagram stands for.
Item(type, sign, number, digits) ==
    [type |-> type, sign |-> sign, number |-> number, digits |-> digits]

\* What parse_input writes after the topic, for a datagram that is Whole.
Decoded(d) ==
    CASE d.type = "INT" -> Item("INT", FALSE, PrintedInt(d.sign, d.value), 0)
      [] d.type = "SHORT_REAL" -> Item("SHORT_REAL", FALSE, PrintedDigits(d.value, 2), 2)
      [] d.type = "FLOAT" -> Item("FLOAT", d.sign, PrintedDigits(d.value, d.exponent), d.exponent)
      [] d.type = "STRING" -> Item("STRING", FALSE, d.value, 0)

\* What README.md, "UDP Message Format", says it means.
Meaning(d) ==
    CASE d.type = "INT" -> Item("INT", FALSE, MeantInt(d.sign, d.value), 0)
      [] d.type = "SHORT_REAL" -> Item("SHORT_REAL", FALSE, d.value, 2)
      [] d.type = "FLOAT" -> Item("FLOAT", d.sign, d.value, d.exponent)
      [] d.type = "STRING" -> Item("STRING", FALSE, d.value, 0)

\* The type is known and the payload is all there.
Whole(d) == d.type \in Types /\ d.rest >= Needed(d.type)

\* Mutant: a value of a known type ends the line also when it is cut.
EndsLineIfKnown(d) == d.type \in Types

\* A line is ended by the value; otherwise the topic is left alone on it.
EndsLine(d) == Whole(d)

\* The numbers that are printed as they are meant: what an int holds, and up
\* to half of the mantissas that a float holds.  Every SHORT_REAL is in range
\* with the sizes of the code, 2^16 numbers and 24 digits.
Exact(d) ==
    CASE d.type = "INT" -> d.value < Half \/ (d.sign /\ d.value = Half)
      [] d.type \in {"SHORT_REAL", "FLOAT"} -> d.value <= Two[FloatBits - 1]
      [] OTHER -> TRUE
=============================================================================
