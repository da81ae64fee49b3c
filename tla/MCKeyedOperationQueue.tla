------------------------ MODULE MCKeyedOperationQueue ------------------------
(***************************************************************************)
(* Instances of KeyedOperationQueue for TLC: the one nesting of the code,  *)
(* a branch bootstrap that enters the bootstrap of the default workspace   *)
(* (repositories/platform_core.py, ensure_branch_workspace).               *)
(***************************************************************************)
EXTENDS KeyedOperationQueue

CONSTANTS t1, t2, t3, branch, default, l1, l2, l3

MCThreads == {t1, t2, t3}
MCKeys == {branch, default}
MCNests == {<<branch, default>>}
MCLocks == {l1, l2, l3}

=============================================================================
