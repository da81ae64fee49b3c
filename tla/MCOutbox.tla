------------------------------ MODULE MCOutbox ------------------------------
(***************************************************************************)
(* Two requests that publish and one that consumes, two events.            *)
(***************************************************************************)
EXTENDS Outbox

CONSTANTS p1, p2, c1

MCEvents == 1 .. 2
MCPublishers == {p1, p2}
MCConsumers == {c1}
MCSubscribed == {2}
=============================================================================
