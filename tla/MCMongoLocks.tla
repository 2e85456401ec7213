---------------------------- MODULE MCMongoLocks ----------------------------
(* Instances of MongoLocks for TLC. *)
EXTENDS MongoLocks, TLC

CONSTANTS t1, t2, t3, a, b

\* Every operation on one document by transactions of two Stores, which see
\* each other only through the database.
Replicas ==
  {[storeOf |-> [t \in Tx |-> IF t = t1 THEN a ELSE b],
    ops |-> [t \in Tx |-> {"shared", "exclusive", "update", "delete"}],
    docs |-> {d}, slots |-> 2, first |-> [s \in Store |-> IF s = a THEN 0 ELSE 1],
    slow |-> {t1}, entries |-> 1] : d \in Doc}

\* Two documents and one Store.
OneStore ==
  {[storeOf |-> [t \in Tx |-> a],
    ops |-> [t \in Tx |-> IF t = t1 THEN {"shared", "exclusive"} ELSE {"exclusive", "update", "delete"}],
    docs |-> Doc, slots |-> 1, first |-> [s \in Store |-> 0],
    slow |-> {}, entries |-> 2]}

\* The same with a queue that has room for one document only.
FullQueue ==
  {[c EXCEPT !.ops = [t \in Tx |-> IF t = t1 THEN {"shared"} ELSE {"exclusive", "update"}],
             !.entries = 1] : c \in OneStore}

\* One transaction that wants an exclusive lock among references.
Stream ==
  {[storeOf |-> [t \in Tx |-> a],
    ops |-> [t \in Tx |-> IF t = t1 THEN {"exclusive"} ELSE {"shared"}],
    docs |-> Doc, slots |-> 2, first |-> [s \in Store |-> 0],
    slow |-> {}, entries |-> 1]}

ReplicasAndOneStore == Replicas \cup OneStore \cup FullQueue

AlikeDocs == Permutations(Doc)
=============================================================================
