------------------------- MODULE MCPostgresTaskClaim -------------------------
(* Instances of PostgresTaskClaim for TLC. *)
EXTENDS PostgresTaskClaim, TLC

CONSTANTS t1, t2, k1

OneKey == [t \in Task |-> k1]

IdOrder == [t \in Task |-> IF t = t1 THEN 1 ELSE 2]

\* A run_at before the clock starts, and one at its start.
PastAndNow == {-1, 0}

Symmetry == Permutations(Claimer)
=============================================================================
