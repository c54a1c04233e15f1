------------------------------ MODULE Delivery ------------------------------
(***************************************************************************)
(* What the server promises, without connections, descriptors, requests or *)
(* reference counts: a message it accepts reaches every client that is     *)
(* present and wants it, and is kept for every absent client that wants it *)
(* later; all that was kept is handed over at the client's return.  Broker *)
(* is shown to implement this in BrokerDelivery.                           *)
(***************************************************************************)
EXTENDS Naturals, Sequences

CONSTANTS
    Ids,       \* clients
    Sessions,  \* runs of the subscriber program
    Patterns,
    Topics,
    Matches    \* the pairs <<topic, pattern>> that match

VARIABLES
    serving,  \* the service is up, and has not taken one client for another
    accepted, \* topics of the messages accepted; a message is its position
    at,       \* the session at which a client is served, 0 if it is away
    wants,    \* what a client wants of a pattern: "none", "live", or "sf", also later
    kept,     \* messages kept for a client that is away
    given,    \* messages given to a session
    running   \* sessions whose process runs

deliveryVars == <<serving, accepted, at, wants, kept, given, running>>

Wanted(i, t) == \E p \in Patterns : <<t, p>> \in Matches /\ wants[i][p] # "none"

WantedLater(i, t) == \E p \in Patterns : <<t, p>> \in Matches /\ wants[i][p] = "sf"

Init ==
    /\ serving = TRUE
    /\ accepted = <<>>
    /\ at = [i \in Ids |-> 0]
    /\ wants = [i \in Ids |-> [p \in Patterns |-> "none"]]
    /\ kept = [i \in Ids |-> <<>>]
    /\ given = [s \in Sessions |-> <<>>]
    /\ running = {}

\* A message on topic t is given to all present clients that want it and kept
\* for all absent ones that want it later.  What is given to a session whose
\* process has ended is lost.
Accept(t) ==
    LET m == Len(accepted) + 1
    IN  /\ accepted' = Append(accepted, t)
        /\ given' = [s \in Sessions |->
                       IF s \in running /\ \E i \in Ids : at[i] = s /\ Wanted(i, t)
                         THEN Append(given[s], m) ELSE given[s]]
        /\ kept' = [i \in Ids |->
                      IF at[i] = 0 /\ WantedLater(i, t) THEN Append(kept[i], m) ELSE kept[i]]
        /\ UNCHANGED <<serving, at, wants, running>>

\* A client that is away joins, at a session that serves no other, and is given
\* all that was kept for it.
Join(i, s) ==
    /\ at[i] = 0
    /\ \A j \in Ids : at[j] # s
    /\ at' = [at EXCEPT ![i] = s]
    /\ given' = IF s \in running THEN [given EXCEPT ![s] = @ \o kept[i]] ELSE given
    /\ kept' = [kept EXCEPT ![i] = <<>>]
    /\ UNCHANGED <<serving, accepted, wants, running>>

Leave(i) ==
    /\ at[i] # 0
    /\ at' = [at EXCEPT ![i] = 0]
    /\ UNCHANGED <<serving, accepted, wants, kept, given, running>>

\* Only a client that is present changes what it wants.
Want(i, p, w) ==
    /\ at[i] # 0
    /\ wants' = [wants EXCEPT ![i][p] = w]
    /\ UNCHANGED <<serving, accepted, at, kept, given, running>>

Begin(s) ==
    /\ s \notin running
    /\ given[s] = <<>>
    /\ running' = running \cup {s}
    /\ UNCHANGED <<serving, accepted, at, wants, kept, given>>

\* A process ends, having read a part of what it was given: the rest is lost.
End(s) ==
    /\ s \in running
    /\ running' = running \ {s}
    /\ \E n \in 0..Len(given[s]) : given' = [given EXCEPT ![s] = SubSeq(@, 1, n)]
    /\ UNCHANGED <<serving, accepted, at, wants, kept>>

Next ==
    \/ \E t \in Topics : Accept(t)
    \/ \E i \in Ids, s \in Sessions : Join(i, s)
    \/ \E i \in Ids : Leave(i)
    \/ \E i \in Ids, p \in Patterns, w \in {"none", "live", "sf"} : Want(i, p, w)
    \/ \E s \in Sessions : Begin(s) \/ End(s)

\* Nothing is promised once the service has ended, or has taken one client for
\* another; until then it does nothing but the steps of Next.
Spec == Init /\ [][serving' => Next]_deliveryVars
=============================================================================
