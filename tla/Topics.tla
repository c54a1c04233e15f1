------------------------------- MODULE Topics -------------------------------
(***************************************************************************)
(* Topics and patterns: sequences of levels, what a split at '/' yields    *)
(* (at least one level, and a level may be empty).  Accepts defines what   *)
(* README.md promises of a pattern, apart from how the code decides it.    *)
(***************************************************************************)
EXTENDS Naturals, Sequences

ONE == "+"     \* one level, whatever it is
MANY == "*"    \* zero or more levels

(***************************************************************************)
(* An alignment of pattern p to topic t says where each level of p starts  *)
(* in t: level j of p stands for the levels a[j] .. a[j + 1] - 1 of t.     *)
(***************************************************************************)
Aligns(a, t, p) ==
    /\ a[1] = 1
    /\ a[Len(p) + 1] = Len(t) + 1
    /\ \A j \in 1..Len(p) :
          IF p[j] = MANY THEN a[j] <= a[j + 1]
          ELSE /\ a[j] <= Len(t)
               /\ a[j + 1] = a[j] + 1
               /\ p[j] \in {ONE, t[a[j]]}

Accepts(t, p) ==
    \E a \in [1..(Len(p) + 1) -> 1..(Len(t) + 1)] : Aligns(a, t, p)

\* The sequences of 1 to n levels taken from L.
Paths(L, n) == UNION {[1..k -> L] : k \in 1..n}
=============================================================================
