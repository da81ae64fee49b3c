--------------------------- MODULE MCForkScheduler ---------------------------
(***************************************************************************)
(* Instances of ForkScheduler.                                             *)
(***************************************************************************)
EXTENDS ForkScheduler

MCChildren == 1 .. 3
\* The third child waits for the first; the first two are independent.
MCDependsOn == [x \in MCChildren |-> IF x = 3 THEN {1} ELSE {}]
=============================================================================
