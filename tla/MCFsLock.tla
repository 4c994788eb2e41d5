------------------------------ MODULE MCFsLock ------------------------------
(* Three or four attempts on one key and one or two crashes: one process    *)
(* dies with the lock, two others find the stale directory, and a fourth    *)
(* acquires between the judgement and the rename of one of them.            *)
EXTENDS FsLock, TLC

Symmetry == Permutations(Process)
=============================================================================
