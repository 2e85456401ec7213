-------------------------- MODULE PostgresTaskClaim --------------------------
(***************************************************************************)
(* ClaimTasks on PostgreSQL (adapters/postgres/tasks.go): a READ COMMITTED  *)
(* transaction of several statements, beside the single-statement           *)
(* transactions that extend and settle rows.  Module TaskQueue takes each   *)
(* store call as one step; this one opens them up.                          *)
(*                                                                          *)
(* What PostgreSQL does, as the code relies on it: now() is the time the    *)
(* transaction began; a statement reads the rows committed when it started; *)
(* UPDATE waits for a locked row and then checks its WHERE clause again on  *)
(* the committed row; FOR UPDATE SKIP LOCKED passes over locked rows; row   *)
(* and advisory locks last until the transaction ends.  The begin of a      *)
(* transaction only reads the clock: its first statement chooses a start in *)
(* the past.                                                                *)
(***************************************************************************)
EXTENDS Integers

CONSTANTS
  Task, Claimer, NoKey, KeyOf, NoTask, Free,
  Rank,           \* the order of the ids
  StartTimes,     \* the values of RunAt, which may lie in the past
  LeaseDuration,
  MaxAttempts,    \* bound: attempts granted to a row
  MaxTime         \* bound: the clock

Attempt == 1 .. MaxAttempts

\* Owners of row locks are told apart: nobody, a claim, or an execution.
ASSUME ClaimAssumption ==
  /\ NoTask \notin Task
  /\ Free \notin Claimer
  /\ \A t \in Task, a \in Attempt : <<t, a>> # Free /\ <<t, a>> \notin Claimer
  /\ Rank \in [Task -> Int]
  /\ StartTimes \subseteq Int
  /\ LeaseDuration \in Nat \ {0}
  /\ MaxAttempts \in Nat /\ MaxTime \in Nat

Time == 0 .. MaxTime
Deadline == 0 .. MaxTime + LeaseDuration

VARIABLES
  now,   \* the clock of the database
  row,   \* the committed rows
  lock,  \* the transaction that has locked each row
  tx,    \* the claim transaction of each worker
  exec,  \* exec[t][a]: attempt a of t and the statement it is in
  late   \* history: an extension became visible after the lease it extends ran out

vars == <<now, row, lock, tx, exec, late>>

-----------------------------------------------------------------------------

Row == [state : {"absent", "queued", "running", "settled"}, runAt : Int,
        created : Time, attempts : 0 .. MaxAttempts, expires : Deadline]

\* found: ranked by the select, not yet locked; locked: candidates left to
\* try; task: the candidate tried; keys: the advisory locks; claimed: updated.
Tx == [phase : {"idle", "selected", "claiming", "checking"},
       start : Time, found : SUBSET Task, locked : SUBSET Task,
       task : Task \cup {NoTask}, keys : SUBSET {KeyOf[t] : t \in Task},
       claimed : SUBSET Task]

\* start: when the execution began or last extended, or, once it has written,
\* now() of the transaction it is in.
Exec == [phase : {"none", "running", "written"}, start : Time,
         does : {"heartbeat", "settle", "requeue"}]

Idle == [phase |-> "idle", start |-> 0, found |-> {}, locked |-> {},
         task |-> NoTask, keys |-> {}, claimed |-> {}]

NoExec == [phase |-> "none", start |-> 0, does |-> "heartbeat"]

Init ==
  /\ now = 0
  /\ row = [t \in Task |->
              [state |-> "absent", runAt |-> 0, created |-> 0, attempts |-> 0,
               expires |-> 0]]
  /\ lock = [t \in Task |-> Free]
  /\ tx = [c \in Claimer |-> Idle]
  /\ exec = [t \in Task |-> [a \in Attempt |-> NoExec]]
  /\ late = [t \in Task |-> FALSE]

SameKey(t, u) == KeyOf[t] # NoKey /\ KeyOf[t] = KeyOf[u]

Due(r, time) == \/ r.state = "queued" /\ r.runAt <= time
                \/ r.state = "running" /\ r.expires <= time

Live(r, time) == r.state = "running" /\ r.expires > time

Unlock(owner) == [t \in Task |-> IF lock[t] = owner THEN Free ELSE lock[t]]

-----------------------------------------------------------------------------
(* The application.                                                         *)

EnqueueTask(t) ==
  /\ row[t].state = "absent"
  /\ \E time \in StartTimes :
       row' = [row EXCEPT ![t] = [@ EXCEPT !.state = "queued", !.runAt = time,
                                             !.created = now]]
  /\ UNCHANGED <<now, lock, tx, exec, late>>

CancelTask(t) ==
  /\ row[t].state \in {"queued", "running"}
  /\ lock[t] = Free
  /\ row' = [row EXCEPT ![t] = [@ EXCEPT !.state = "settled", !.expires = 0]]
  /\ UNCHANGED <<now, lock, tx, exec, late>>

-----------------------------------------------------------------------------
(* The claim transaction.                                                   *)

\* The due rows whose key has no live lease but their own.
Eligible(time) ==
  {t \in Task : /\ Due(row[t], time)
                /\ \A u \in Task \ {t} : SameKey(t, u) => ~Live(row[u], time)}

\* ORDER BY run_at, created_at, id.
Before(t, u) ==
  \/ row[t].runAt < row[u].runAt
  \/ /\ row[t].runAt = row[u].runAt
     /\ \/ row[t].created < row[u].created
        \/ row[t].created = row[u].created /\ Rank[t] < Rank[u]

\* The first row of each key.
First(E) == {t \in E : \A u \in E : SameKey(t, u) /\ t # u => Before(t, u)}

\* The ranked select of a transaction that began at start.
Select(c) ==
  /\ tx[c].phase = "idle"
  /\ \E start \in 0 .. now :
       /\ Eligible(start) # {}
       /\ tx' = [tx EXCEPT ![c] = [Idle EXCEPT !.phase = "selected",
                                               !.start = start,
                                               !.found = First(Eligible(start))]]
  /\ UNCHANGED <<now, row, lock, exec, late>>

\* FOR UPDATE SKIP LOCKED.
LockRows(c) ==
  /\ tx[c].phase = "selected"
  /\ LET free == {t \in tx[c].found : lock[t] = Free}
     IN /\ lock' = [t \in Task |-> IF t \in free THEN c ELSE lock[t]]
        /\ tx' = [tx EXCEPT ![c].phase = "claiming", ![c].found = {},
                            ![c].locked = free]
  /\ UNCHANGED <<now, row, exec, late>>

\* Mutant of TryKey: no advisory lock is taken.
TryKeyUnlocked(c) ==
  /\ tx[c].phase = "claiming"
  /\ \E t \in tx[c].locked :
       tx' = [tx EXCEPT ![c].locked = @ \ {t}, ![c].task = t,
                        ![c].phase = "checking"]
  /\ UNCHANGED <<now, row, lock, exec, late>>

\* The loop takes up a candidate; pg_try_advisory_xact_lock fails at once if
\* another transaction holds the key.
TryKey(c) ==
  /\ tx[c].phase = "claiming"
  /\ \E t \in tx[c].locked :
       IF \E d \in Claimer \ {c} : KeyOf[t] \in tx[d].keys
       THEN tx' = [tx EXCEPT ![c].locked = @ \ {t}]
       ELSE tx' = [tx EXCEPT ![c].locked = @ \ {t}, ![c].task = t,
                             ![c].phase = "checking",
                             ![c].keys = (@ \cup {KeyOf[t]}) \ {NoKey}]
  /\ UNCHANGED <<now, row, lock, exec, late>>

Occupied(c) ==
  \E u \in Task \ {tx[c].task} :
    SameKey(tx[c].task, u) /\ Live(row[u], tx[c].start)

\* Mutant of CheckKey: the UPDATE does not check that the row is still due.
CheckKeyOnly(c) ==
  /\ tx[c].phase = "checking"
  /\ tx' = [tx EXCEPT ![c].phase = "claiming", ![c].task = NoTask,
                      ![c].claimed = @ \cup {t \in {tx[c].task} : ~Occupied(c)}]
  /\ UNCHANGED <<now, row, lock, exec, late>>

\* The query for another live lease of the key, and the UPDATE, which checks
\* again that the row is due: the transaction has locked it, so nothing can
\* happen to it in between.
CheckKey(c) ==
  /\ tx[c].phase = "checking"
  /\ tx' = [tx EXCEPT ![c].phase = "claiming", ![c].task = NoTask,
                      ![c].claimed = @ \cup {t \in {tx[c].task} :
                        ~Occupied(c) /\ Due(row[t], tx[c].start)}]
  /\ UNCHANGED <<now, row, lock, exec, late>>

Commit(c) ==
  /\ tx[c].phase = "claiming"
  /\ tx[c].locked = {}
  /\ \A t \in tx[c].claimed : row[t].attempts < MaxAttempts
  /\ row' = [t \in Task |->
               IF t \in tx[c].claimed
               THEN [row[t] EXCEPT !.state = "running", !.attempts = @ + 1,
                                   !.expires = tx[c].start + LeaseDuration]
               ELSE row[t]]
  /\ exec' = [t \in Task |->
                IF t \in tx[c].claimed
                THEN [exec[t] EXCEPT ![row[t].attempts + 1] =
                        [NoExec EXCEPT !.phase = "running", !.start = now]]
                ELSE exec[t]]
  /\ late' = [t \in Task |-> late[t] /\ t \notin tx[c].claimed]
  /\ lock' = Unlock(c)
  /\ tx' = [tx EXCEPT ![c] = Idle]
  /\ UNCHANGED now

\* The worker or its connection dies, or a statement returns an error.
Rollback(c) ==
  /\ tx[c].phase # "idle"
  /\ lock' = Unlock(c)
  /\ tx' = [tx EXCEPT ![c] = Idle]
  /\ UNCHANGED <<now, row, exec, late>>

-----------------------------------------------------------------------------
(* HeartbeatTask; CompleteTask and a final FailTask; ReleaseTask and a      *)
(* retrying FailTask: each a transaction of one UPDATE.                     *)

\* Mutant of Owns: the lease token is not compared.
OwnsAnyAttempt(t, a, start) == Live(row[t], start)

Owns(t, a, start) == row[t].attempts = a /\ Live(row[t], start)

\* The UPDATE of a transaction that began at start has its row and writes it.
Write(t, a, does) ==
  /\ exec[t][a].phase = "running"
  /\ lock[t] = Free
  /\ \E start \in exec[t][a].start .. now :
       /\ Owns(t, a, start)
       /\ exec' = [exec EXCEPT ![t][a] =
                     [phase |-> "written", start |-> start, does |-> does]]
  /\ lock' = [lock EXCEPT ![t] = <<t, a>>]
  /\ UNCHANGED <<now, row, tx, late>>

\* The UPDATE matches no row: the lease is lost.
LeaseLost(t, a) ==
  /\ exec[t][a].phase = "running"
  /\ lock[t] = Free
  /\ \E start \in exec[t][a].start .. now : ~Owns(t, a, start)
  /\ exec' = [exec EXCEPT ![t][a] = NoExec]
  /\ UNCHANGED <<now, row, lock, tx, late>>

Written(t, a) ==
  CASE exec[t][a].does = "heartbeat" ->
         [row[t] EXCEPT !.expires = exec[t][a].start + LeaseDuration]
    [] exec[t][a].does = "settle" ->
         [row[t] EXCEPT !.state = "settled", !.expires = 0]
    [] exec[t][a].does = "requeue" ->
         [row[t] EXCEPT !.state = "queued", !.expires = 0,
                        !.runAt = exec[t][a].start]

CommitWrite(t, a) ==
  /\ exec[t][a].phase = "written"
  /\ row' = [row EXCEPT ![t] = Written(t, a)]
  /\ exec' = [exec EXCEPT ![t][a] =
                IF exec[t][a].does = "heartbeat"
                THEN [@ EXCEPT !.phase = "running"] ELSE NoExec]
  /\ late' = [late EXCEPT ![t] =
                exec[t][a].does = "heartbeat" /\ (@ \/ ~Live(row[t], now))]
  /\ lock' = Unlock(<<t, a>>)
  /\ UNCHANGED <<now, tx>>

\* The worker dies; an update it has not committed is rolled back.
Die(t, a) ==
  /\ exec[t][a].phase # "none"
  /\ exec' = [exec EXCEPT ![t][a] = NoExec]
  /\ lock' = Unlock(<<t, a>>)
  /\ UNCHANGED <<now, row, tx, late>>

Tick ==
  /\ now < MaxTime
  /\ now' = now + 1
  /\ UNCHANGED <<row, lock, tx, exec, late>>

-----------------------------------------------------------------------------

Claiming(c) ==
  Select(c) \/ LockRows(c) \/ TryKey(c) \/ CheckKey(c) \/ Commit(c)

Next ==
  \/ \E t \in Task : EnqueueTask(t) \/ CancelTask(t)
  \/ \E c \in Claimer : Claiming(c) \/ Rollback(c)
  \/ \E t \in Task, a \in Attempt :
       \/ \E does \in {"heartbeat", "settle", "requeue"} : Write(t, a, does)
       \/ CommitWrite(t, a) \/ LeaseLost(t, a) \/ Die(t, a)
  \/ Tick

Spec == Init /\ [][Next]_vars

-----------------------------------------------------------------------------

(* Properties.                                                              *)

\* The clock, the rows, the locks and the transactions have their types.
TypeOK ==
  /\ now \in Time
  /\ row \in [Task -> Row]
  /\ lock \in [Task -> {Free} \cup Claimer \cup (Task \X Attempt)]
  /\ tx \in [Claimer -> Tx]
  /\ exec \in [Task -> [Attempt -> Exec]]
  /\ late \in [Task -> BOOLEAN]

\* tasks.md: "A concurrency key serializes active leases for that key within
\* one queue"; the TaskStore contract: adapters "enforce concurrency keys
\* atomically".  A heartbeat takes no advisory lock, and it is judged by the
\* time it began: committed after a claim that saw its lease run out, it leaves
\* two live leases of one key.
OneLiveLeasePerKey ==
  \A t, u \in Task :
    SameKey(t, u) /\ Live(row[t], now) /\ Live(row[u], now) => t = u

\* The race above is the only one.  Claims of one key, settlements, requeues,
\* cancellations, timely heartbeats and rollbacks never lead to two live leases
\* of a key, however their statements interleave: the advisory lock orders
\* claims, and the query after it sees what the one before committed.
KeysMeetOnlyLate ==
  \A t, u \in Task :
    SameKey(t, u) /\ t # u /\ Live(row[t], now) /\ Live(row[u], now)
      => late[t] \/ late[u]

\* A claim grants an attempt only of a row that is due when it commits, though
\* it ranked the rows of an older snapshot and two claims may rank one row.
ClaimTakesLapsedRows ==
  [][\A t \in Task : row'[t].attempts > row[t].attempts => Due(row[t], now)]_vars

\* A write of an execution that has been decided (CompleteTask, FailTask,
\* ReleaseTask, HeartbeatTask) still meets the attempt it was decided for when
\* it commits: no claim or cancellation slips in between.
WritesAreFenced ==
  \A t \in Task, a \in Attempt :
    exec[t][a].phase = "written" => row[t].state = "running" /\ row[t].attempts = a

-----------------------------------------------------------------------------
(* What makes these properties inductive.                                   *)

\* The row a claim transaction is trying, if any.
Tried(c) == {tx[c].task} \ {NoTask}

\* A claim has locked the rows it has in hand, and a write its own row.
LockInv ==
  /\ \A t \in Task, a \in Attempt :
       exec[t][a].phase = "written" => lock[t] = <<t, a>>
  /\ \A c \in Claimer :
       /\ tx[c].phase = "checking" => tx[c].task # NoTask
       /\ \A t \in tx[c].locked \cup Tried(c) \cup tx[c].claimed : lock[t] = c

\* A claim holds the advisory locks of the keys of the rows it tries or has
\* claimed, no other claim holds them, and it has ranked one row of each key.
KeyInv ==
  /\ \A c \in Claimer : \A t \in Tried(c) \cup tx[c].claimed :
       KeyOf[t] # NoKey => KeyOf[t] \in tx[c].keys
  /\ \A c, d \in Claimer : c # d => tx[c].keys \cap tx[d].keys = {}
  /\ \A c \in Claimer :
       \A t, u \in tx[c].found \cup tx[c].locked \cup Tried(c) \cup tx[c].claimed :
         SameKey(t, u) => t = u

\* A claimed row stays due until the claim commits, and another row of its key
\* can become live in the meantime only by a late extension.
ClaimedInv ==
  /\ \A c \in Claimer : tx[c].start <= now
  /\ \A c \in Claimer : \A t \in tx[c].claimed :
       /\ Due(row[t], tx[c].start)
       /\ \A u \in Task \ {t} :
            SameKey(t, u) /\ Live(row[u], tx[c].start) => late[u]
=============================================================================
