--------------------------- MODULE BrokerDelivery ---------------------------
(***************************************************************************)
(* Broker implements Delivery: the refinement mapping.                     *)
(***************************************************************************)
EXTENDS Broker

\* A client is served at a session once its request to connect was handled, and
\* until the server notices the end of the session.
ServedAt == [i \in Ids |-> IF i \in Connected THEN peer[fd[i]] ELSE 0]

\* A session was given what it has read and what is on its way to it.
Given == [s \in Sessions |-> Stream(s)]

Running == {s \in Sessions : link[s] \in Alive}

Promise == INSTANCE Delivery WITH
    serving <- status = "running" /\ ~mixup,
    accepted <- published,
    at <- ServedAt,
    wants <- topics,
    kept <- lost_messages,
    given <- Given,
    running <- Running

\* Every step of the server, of the subscribers and of the network, in the
\* middle of a round or not, is a step of Delivery or changes nothing of it: no
\* recipient is left out and none is added, what was stored is handed over
\* whole and in order, a message is lost only with the session it was written
\* to, and requests take effect only while their client is registered.
DeliversAsPromised == Promise!Spec
=============================================================================
