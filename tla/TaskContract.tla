---------------------------- MODULE TaskContract ----------------------------
(***************************************************************************)
(* What the durable queue promises to the application (the contract of      *)
(* TaskStore in store/store.go), without leases, tokens, workers or time: a *)
(* task is open until it is settled once, it is owned by at most one        *)
(* attempt, the tasks of one concurrency key are owned one at a time, and   *)
(* only the owner settles it.  Module TaskQueue implements it.              *)
(***************************************************************************)
EXTENDS Naturals

CONSTANTS Task, NoKey, KeyOf

VARIABLES
  status,    \* what the application sees of each task
  attempts,  \* how often each task has been granted
  owner,     \* the attempt that owns each task, 0 if none does
  result     \* the attempt whose output each task holds, 0 if none

vars == <<status, attempts, owner, result>>

SameKey(t, u) == KeyOf[t] # NoKey /\ KeyOf[t] = KeyOf[u]

Zero == [t \in Task |-> 0]

Init ==
  /\ status = [t \in Task |-> "absent"]
  /\ attempts = Zero
  /\ owner = Zero
  /\ result = Zero

Submit(t) ==
  /\ status[t] = "absent"
  /\ status' = [status EXCEPT ![t] = "open"]
  /\ UNCHANGED <<attempts, owner, result>>

\* A set of tasks is granted, each to a new attempt.
Grant(S) ==
  /\ \A t \in S : status[t] = "open" /\ owner[t] = 0
  /\ \A t \in S, u \in Task : SameKey(t, u) => owner[u] = 0
  /\ \A t, u \in S : SameKey(t, u) => t = u
  /\ attempts' = [t \in Task |-> IF t \in S THEN attempts[t] + 1 ELSE attempts[t]]
  /\ owner' = [t \in Task |-> IF t \in S THEN attempts[t] + 1 ELSE owner[t]]
  /\ UNCHANGED <<status, result>>

\* Ownership ends without an outcome: an expiry or a release.
Lapse(S) ==
  /\ owner' = [t \in Task |-> IF t \in S THEN 0 ELSE owner[t]]
  /\ UNCHANGED <<status, attempts, result>>

Disown(t) == owner' = [owner EXCEPT ![t] = 0]

Succeed(t) ==
  /\ owner[t] # 0
  /\ status' = [status EXCEPT ![t] = "succeeded"]
  /\ result' = [result EXCEPT ![t] = owner[t]]
  /\ Disown(t)
  /\ UNCHANGED attempts

Fail(t) ==
  /\ owner[t] # 0
  /\ status' = [status EXCEPT ![t] = "failed"]
  /\ Disown(t)
  /\ UNCHANGED <<attempts, result>>

Cancel(t) ==
  /\ status[t] = "open"
  /\ status' = [status EXCEPT ![t] = "canceled"]
  /\ Disown(t)
  /\ UNCHANGED <<attempts, result>>

\* Rows are deleted: dismissed, pruned, or with the document they refer to.
Remove(S) ==
  /\ \A t \in S : status[t] # "absent"
  /\ status' = [t \in Task |-> IF t \in S THEN "gone" ELSE status[t]]
  /\ attempts' = [t \in Task |-> IF t \in S THEN 0 ELSE attempts[t]]
  /\ owner' = [t \in Task |-> IF t \in S THEN 0 ELSE owner[t]]
  /\ result' = [t \in Task |-> IF t \in S THEN 0 ELSE result[t]]

Next ==
  \/ \E t \in Task : Submit(t) \/ Succeed(t) \/ Fail(t) \/ Cancel(t)
  \/ \E S \in SUBSET Task : Grant(S) \/ Lapse(S) \/ Remove(S)

Spec == Init /\ [][Next]_vars
=============================================================================
