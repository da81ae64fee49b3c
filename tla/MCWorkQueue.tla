----------------------------- MODULE MCWorkQueue -----------------------------
(***************************************************************************)
(* Instances of WorkQueue, with two workers: two items of one task and one *)
(* of another for safety, the two items of one task for liveness.          *)
(***************************************************************************)
EXTENDS WorkQueue, TLC

CONSTANTS w1, w2, ta, tb

MCWorkers == {w1, w2}
MCTasks == {ta, tb}
MCItems == 1 .. 3
MCTaskOf == (1 :> ta) @@ (2 :> ta) @@ (3 :> tb)
MCThird == {3}

MCOneTask == {ta}
MCTwoItems == 1 .. 2
MCAllOf == [i \in MCTwoItems |-> ta]
MCNoItem == {}

\* Workers are alike; for runs without liveness.
MCSymmetry == Permutations(MCWorkers)
=============================================================================
