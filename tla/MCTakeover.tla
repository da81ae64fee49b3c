------------------------------ MODULE MCTakeover ------------------------------
(***************************************************************************)
(* Instances of Takeover.  Three nodes are the fewest that allow both a    *)
(* node two below the root and two nodes side by side.                     *)
(***************************************************************************)
EXTENDS Takeover

MCNodes == 1 .. 3
MCPlans == {1, 3}
=============================================================================
