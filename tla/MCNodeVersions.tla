--------------------------- MODULE MCNodeVersions ---------------------------
(***************************************************************************)
(* Two nodes, two requests of the API and the turn of a worker, which      *)
(* writes twice in one transaction.                                        *)
(***************************************************************************)
EXTENDS NodeVersions

CONSTANTS r1, r2, turn, api, worker

MCNodes == 1 .. 2
MCSessions == {r1, r2, turn}
MCProcesses == {api, worker}
MCProcessOf == [s \in MCSessions |-> IF s = turn THEN worker ELSE api]
\* One request updates, logs and forgets, the other revises, logs and links.
MCKindsOf == [s \in MCSessions |-> CASE s = r1 -> {"update", "log", "forget"}
                                    [] s = r2 -> {"revise", "log", "edge"}
                                    [] s = turn -> {"log", "child", "edge"}]
MCWrites == [s \in MCSessions |-> IF s = turn THEN 2 ELSE 1]
=============================================================================
