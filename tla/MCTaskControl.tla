---------------------------- MODULE MCTaskControl ----------------------------
(***************************************************************************)
(* Instances of TaskControl.  Snapshots, attempts and items are numbered   *)
(* in the order of their creation.                                         *)
(***************************************************************************)
EXTENDS TaskControl

CONSTANTS c1, c2

MCClients == {c1, c2}
MCOneClient == {c1}
MCTwo == 1 .. 2
MCFour == 1 .. 4
MCPrepared == {"restorable", "created"}
MCRestorable == {"restorable"}
=============================================================================
