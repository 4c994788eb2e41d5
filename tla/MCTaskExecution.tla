---------------------------- MODULE MCTaskExecution -------------------------
(***************************************************************************)
(* TaskExecution for TLC.  The workers either all serve agent a1 or, in    *)
(* the runs that reassign the task, one of them serves each agent.         *)
(***************************************************************************)
EXTENDS TaskExecution, TLC

CONSTANTS a1, a2, w1

AllForOne == [w \in Worker |-> a1]
OneForEach == [w \in Worker |-> IF w = w1 THEN a1 ELSE a2]

\* Exchanging a1 and w1 with a2 and w2 maps OneForEach to itself, so the runs
\* that start with a1 stand for those that start with a2.
InitFromA1 == Init /\ owner = a1

FairSpecFromA1 == InitFromA1 /\ [][Next]_vars /\ Fairness

Alike == Permutations(Worker)
=============================================================================
