----------------------------- MODULE MCTaskQueue -----------------------------
(* Instances of TaskQueue for TLC. *)
EXTENDS TaskQueue, TLC

CONSTANTS t1, t2, t3, d1, k1

\* t1 and t2 share a concurrency key, t3 has none; t1 targets the document
\* that requested t2.
KeyOfTask == [t \in Task |-> IF t \in {t1, t2} THEN k1 ELSE NoKey]
TargetOfTask == [t \in Task |-> IF t = t1 /\ d1 \in Doc THEN d1 ELSE NoDoc]
RequesterOfTask == [t \in Task |-> IF t = t2 /\ d1 \in Doc THEN d1 ELSE NoDoc]

\* The slug of t2 may have no handler.
OnlyFirst == {t1}

WorkerSymmetry == Permutations(Worker)
=============================================================================
