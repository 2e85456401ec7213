------------------------------ MODULE TaskQueue ------------------------------
(***************************************************************************)
(* The durable task runtime of Ridu: the ridu_tasks table of a store        *)
(* (adapters/sqlite/tasks.go), the workers that claim and execute its rows  *)
(* (core/task.go, core/execute.go) and the application calls that enqueue,  *)
(* cancel and dismiss tasks.                                                *)
(*                                                                          *)
(* Every store call is one transaction of the database, hence one action.   *)
(* Between two store calls of one execution anything else may happen.       *)
(*                                                                          *)
(* Time is relative.  The store compares a timestamp with its own clock and *)
(* nothing else, so a row holds the time still to wait until run_at,        *)
(* lease_expires_at and retain_until; Tick ages all of them.  "run_at <=    *)
(* now" is due = 0 and "lease_expires_at > now" is lease > 0.               *)
(***************************************************************************)
EXTENDS Integers, FiniteSets

CONSTANTS
  Task,           \* task ids; an id is random and is never reused
  Worker,         \* callers of runTasks, one batch at a time each
  Doc, NoDoc,     \* documents a task may refer to
  Key, NoKey,     \* (queue, concurrency key) pairs, and the empty key
  KeyOf,          \* the key of each task
  TargetOf,       \* the target document of each task
  RequesterOf,    \* the requesting document of each task
  Registered,     \* tasks whose slug has a handler in this application
  MaxAttempts,    \* TaskRetries
  Limit,          \* claim batch
  PruneLimit,     \* prune batch
  LeaseDuration,  \* in ticks
  StartDelays,    \* how far in the future RunAt may lie
  RetryDelays,    \* what taskRetryDelay may return (module RetryPolicy)
  Retention,      \* in ticks
  MaxFaults       \* bound: crashes, pauses, shutdowns, failed calls

ASSUME QueueAssumption ==
  /\ KeyOf \in [Task -> Key \cup {NoKey}]
  /\ TargetOf \in [Task -> Doc \cup {NoDoc}]
  /\ RequesterOf \in [Task -> Doc \cup {NoDoc}]
  /\ Registered \subseteq Task
  /\ MaxAttempts \in Nat \ {0}
  /\ Limit \in Nat \ {0}
  /\ PruneLimit \in Nat \ {0}
  /\ LeaseDuration \in Nat \ {0}
  /\ StartDelays \subseteq Nat
  /\ RetryDelays \subseteq Nat
  /\ Retention \in Nat
  /\ MaxFaults \in Nat

VARIABLES
  row,     \* the ridu_tasks table
  doc,     \* the documents tasks refer to
  proc,    \* the process of each worker
  cycle,   \* where each worker is in runTasks
  exec,    \* exec[w][t]: the goroutine of w that executes t
  faults   \* how many faults and shutdowns have happened

vars == <<row, doc, proc, cycle, exec, faults>>

-----------------------------------------------------------------------------
(* Rows.                                                                    *)

Code == {"none", "error", "task_not_registered", "task_attempts_exhausted",
         "worker_shutdown"}

\* token is the number of the attempt that holds the lease, 0 for ''.  The
\* code draws a random token at each claim, and each claim increments
\* attempts: the number is a fresh name for the token.
Row == [state    : {"absent", "queued", "running", "succeeded", "failed",
                    "canceled", "gone"},
        due      : Nat,      \* run_at - now
        attempts : Nat,
        token    : Nat,
        lease    : Nat,      \* lease_expires_at - now
        keep     : Nat,      \* retain_until - now
        result   : Nat,      \* the attempt whose output the row holds
        code     : Code]     \* last_error_code

Absent == [state |-> "absent", due |-> 0, attempts |-> 0, token |-> 0,
           lease |-> 0, keep |-> 0, result |-> 0, code |-> "none"]

Gone == [Absent EXCEPT !.state = "gone"]

Present(r) == r.state \notin {"absent", "gone"}
Terminal(r) == r.state \in {"succeeded", "failed", "canceled"}
Live(r) == r.state = "running" /\ r.lease > 0
\* Mutant of Due: expired leases are not recovered.
DueQueuedOnly(r) == r.state = "queued" /\ r.due = 0

Due(r) == \/ r.state = "queued" /\ r.due = 0
          \/ r.state = "running" /\ r.lease = 0

Unleased(r) == [r EXCEPT !.token = 0, !.lease = 0]

Queued(r, delay, code) ==
  [Unleased(r) EXCEPT !.state = "queued", !.due = delay, !.code = code]

Leased(r) ==
  [r EXCEPT !.state = "running", !.attempts = @ + 1, !.token = r.attempts + 1,
            !.lease = LeaseDuration]

Settled(r, state) == [Unleased(r) EXCEPT !.state = state, !.keep = Retention]

Succeeded(r, attempt) ==
  [Settled(r, "succeeded") EXCEPT !.result = attempt, !.code = "none"]

Failed(r, code) == [Settled(r, "failed") EXCEPT !.code = code]

SameKey(t, u) == KeyOf[t] # NoKey /\ KeyOf[t] = KeyOf[u]

RefsOf(t) == {TargetOf[t], RequesterOf[t]} \ {NoDoc}

-----------------------------------------------------------------------------
(* Executions.                                                              *)

Outcome == {"ok", "retry", "abort"}
Phase == {"none", "claimed", "handling"} \cup Outcome

\* beat is TRUE while no heartbeat of the execution has failed.
Exec == [phase : Phase, attempt : Nat, beat : BOOLEAN]

NoExec == [phase |-> "none", attempt |-> 0, beat |-> TRUE]
Claimed(attempt) == [phase |-> "claimed", attempt |-> attempt, beat |-> TRUE]

\* Mutant of Owns: the mutation is not fenced by the token.
OwnsWithoutToken(w, t) == exec[w][t].phase # "none" /\ Live(row[t])

\* The condition of every mutation by an execution: the row is running, holds
\* the execution's token, and its lease has not expired.
Owns(w, t) ==
  /\ exec[w][t].phase # "none"
  /\ Live(row[t])
  /\ row[t].token = exec[w][t].attempt

\* Mutant of Runnable: the attempts are not compared with the budget.
RunnableWithoutBudget(w, t) == t \in Registered

Runnable(w, t) == t \in Registered /\ exec[w][t].attempt <= MaxAttempts

BatchDone(w) == \A t \in Task : exec[w][t].phase = "none"

Fault == /\ faults < MaxFaults
         /\ faults' = faults + 1

-----------------------------------------------------------------------------

Init ==
  /\ row = [t \in Task |-> Absent]
  /\ doc = [d \in Doc |-> "active"]
  /\ proc = [w \in Worker |-> "up"]
  /\ cycle = [w \in Worker |-> "idle"]
  /\ exec = [w \in Worker |-> [t \in Task |-> NoExec]]
  /\ faults = 0

-----------------------------------------------------------------------------
(* The application.                                                         *)

AppUnchanged == UNCHANGED <<doc, proc, cycle, exec, faults>>

\* Mutant of EnqueueTask: the referenced documents are not checked.
EnqueueTaskUnchecked(t) ==
  /\ row[t].state = "absent"
  /\ row' = [row EXCEPT ![t] = Queued(Absent, 0, "none")]
  /\ AppUnchanged

EnqueueTask(t) ==
  /\ row[t].state = "absent"
  /\ \A d \in RefsOf(t) : doc[d] = "active"
  /\ \E delay \in StartDelays :
       row' = [row EXCEPT ![t] = Queued(Absent, delay, "none")]
  /\ AppUnchanged

CancelTask(t) ==
  /\ row[t].state \in {"queued", "running"}
  /\ row' = [row EXCEPT ![t] = Settled(@, "canceled")]
  /\ AppUnchanged

DismissTaskForTarget(t) ==
  /\ TargetOf[t] # NoDoc
  /\ row[t].state \in {"queued", "failed", "canceled"}
  /\ row' = [row EXCEPT ![t] = Gone]
  /\ AppUnchanged

TrashDocument(d) ==
  /\ doc[d] = "active"
  /\ doc' = [doc EXCEPT ![d] = "trashed"]
  /\ UNCHANGED <<row, proc, cycle, exec, faults>>

DeleteDocumentState(d) ==
  /\ doc[d] # "gone"
  /\ doc' = [doc EXCEPT ![d] = "gone"]
  /\ row' = [t \in Task |-> IF Present(row[t]) /\ d \in RefsOf(t)
                            THEN Gone ELSE row[t]]
  /\ UNCHANGED <<proc, cycle, exec, faults>>

-----------------------------------------------------------------------------
(* One cycle of runTasks: claim, execute the batch, prune.                  *)

\* Mutant of Candidates: a key with a live lease is not excluded.
CandidatesOfAnyKey == {t \in Task : Due(row[t])}

Candidates ==
  {t \in Task : /\ Due(row[t])
                /\ \A u \in Task \ {t} : SameKey(t, u) => ~Live(row[u])}

\* The rank picks one row of each key, by run_at; all candidates are past
\* their run_at, so which one is left open.  PostgreSQL may skip locked rows.
\* A task admission reconciler (application code, run before the claim) may
\* have returned an error: the batch counts as erred from the start.
ClaimTasks(w) ==
  /\ proc[w] = "up"
  /\ cycle[w] = "idle"
  /\ \E S \in SUBSET Candidates :
       /\ S = {} => Candidates = {}
       /\ Cardinality(S) <= Limit
       /\ \A t, u \in S : SameKey(t, u) => t = u
       /\ row' = [t \in Task |-> IF t \in S THEN Leased(row[t]) ELSE row[t]]
       /\ exec' = [exec EXCEPT ![w] =
                     [t \in Task |-> IF t \in S
                                     THEN Claimed(row[t].attempts + 1)
                                     ELSE NoExec]]
  /\ \/ cycle' = [cycle EXCEPT ![w] = "batch"] /\ UNCHANGED faults
     \/ cycle' = [cycle EXCEPT ![w] = "erred"] /\ Fault
  /\ UNCHANGED <<doc, proc>>

\* Mutant of Prunable: dead letters and canceled tasks are kept for good.
PrunableSucceeded == {t \in Task : row[t].state = "succeeded" /\ row[t].keep = 0}

Prunable == {t \in Task : Terminal(row[t]) /\ row[t].keep = 0}

PruneTasks(w) ==
  /\ proc[w] = "up"
  /\ cycle[w] = "batch"
  /\ BatchDone(w)
  /\ \E S \in SUBSET Prunable :
       /\ S = {} => Prunable = {}
       /\ Cardinality(S) <= PruneLimit
       /\ row' = [t \in Task |-> IF t \in S THEN Gone ELSE row[t]]
  /\ cycle' = [cycle EXCEPT ![w] = "idle"]
  /\ UNCHANGED <<doc, proc, exec, faults>>

\* A batch with an infrastructure error returns before it prunes.
SkipPrune(w) ==
  /\ proc[w] = "up"
  /\ cycle[w] = "erred"
  /\ BatchDone(w)
  /\ cycle' = [cycle EXCEPT ![w] = "idle"]
  /\ UNCHANGED <<row, doc, proc, exec, faults>>

-----------------------------------------------------------------------------
(* executeTask: one claimed row in a goroutine of its own.                  *)

\* executeTask returns; with an error unless ok.
Return(w, t, ok) ==
  /\ exec' = [exec EXCEPT ![w] = [@ EXCEPT ![t] = NoExec]]
  /\ cycle' = IF ok THEN cycle ELSE [cycle EXCEPT ![w] = "erred"]

\* One fenced mutation of the row by the execution, and its return.  With ok
\* FALSE the mutation is made and an error is returned all the same.
Mutate(w, t, r, ok) ==
  /\ row' = IF Owns(w, t) THEN [row EXCEPT ![t] = r] ELSE row
  /\ Return(w, t, ok /\ Owns(w, t))
  /\ UNCHANGED <<doc, proc, faults>>

FailUnrunnable(w, t) ==
  /\ proc[w] = "up"
  /\ exec[w][t].phase = "claimed"
  /\ \/ /\ t \notin Registered
        /\ Mutate(w, t, Failed(row[t], "task_not_registered"), TRUE)
     \/ /\ t \in Registered
        /\ exec[w][t].attempt > MaxAttempts
        /\ Mutate(w, t, Failed(row[t], "task_attempts_exhausted"), TRUE)

\* The input is decoded again; a stored input that no longer matches the
\* handler's type fails the attempt without running the handler.
StartHandler(w, t) ==
  /\ proc[w] = "up"
  /\ exec[w][t].phase = "claimed"
  /\ Runnable(w, t)
  /\ \E phase \in {"handling", "abort"} :
       exec' = [exec EXCEPT ![w] = [@ EXCEPT ![t].phase = phase]]
  /\ UNCHANGED <<row, doc, proc, cycle, faults>>

\* The handler returns by itself, or because its context was canceled by a
\* timeout, a failed heartbeat or the shutdown.
HandlerReturns(w, t) ==
  /\ proc[w] \in {"up", "draining"}
  /\ exec[w][t].phase = "handling"
  /\ \E outcome \in Outcome :
       exec' = [exec EXCEPT ![w] = [@ EXCEPT ![t].phase = outcome]]
  /\ UNCHANGED <<row, doc, proc, cycle, faults>>

Beating(w, t) ==
  /\ proc[w] = "up"
  /\ exec[w][t].phase \in Outcome \cup {"handling"}
  /\ exec[w][t].beat

HeartbeatTask(w, t) ==
  /\ Beating(w, t)
  /\ \/ /\ Owns(w, t)
        /\ row' = [row EXCEPT ![t].lease = LeaseDuration]
        /\ UNCHANGED exec
     \/ /\ ~Owns(w, t)
        /\ exec' = [exec EXCEPT ![w] = [@ EXCEPT ![t].beat = FALSE]]
        /\ UNCHANGED row
  /\ UNCHANGED <<doc, proc, cycle, faults>>

\* A failed heartbeat ends the execution without touching the row.
LeaseLost(w, t) ==
  /\ proc[w] = "up"
  /\ exec[w][t].phase \in Outcome
  /\ ~exec[w][t].beat
  /\ Return(w, t, FALSE)
  /\ UNCHANGED <<row, doc, proc, faults>>

Settling(w, t) ==
  /\ proc[w] = "up"
  /\ exec[w][t].phase \in Outcome
  /\ exec[w][t].beat

CompleteTask(w, t) ==
  /\ Settling(w, t)
  /\ exec[w][t].phase = "ok"
  /\ Mutate(w, t, Succeeded(row[t], exec[w][t].attempt), TRUE)

\* Mutant of FailTask: a retry is queued whatever the attempt.
FailTaskForever(w, t) ==
  /\ Settling(w, t)
  /\ exec[w][t].phase \in {"retry", "abort"}
  /\ \E delay \in RetryDelays : Mutate(w, t, Queued(row[t], delay, "error"), TRUE)

\* FailTask: back to the queue while attempts remain, else dead letter.  A
\* recovered panic is returned besides, as an error of the batch.
FailTask(w, t) ==
  /\ Settling(w, t)
  /\ \E ok \in BOOLEAN :
     \/ /\ exec[w][t].phase = "retry"
        /\ exec[w][t].attempt < MaxAttempts
        /\ \E delay \in RetryDelays :
             Mutate(w, t, Queued(row[t], delay, "error"), ok)
     \/ /\ \/ exec[w][t].phase = "abort"
           \/ exec[w][t].phase = "retry" /\ exec[w][t].attempt >= MaxAttempts
        /\ Mutate(w, t, Failed(row[t], "error"), ok)

\* The worker's context is canceled: the execution gives its lease back,
\* whether its handler has returned or was never started.
ReleaseTask(w, t) ==
  /\ proc[w] = "draining"
  /\ \/ exec[w][t].phase \in Outcome
     \/ exec[w][t].phase = "claimed" /\ Runnable(w, t)
  /\ Mutate(w, t, Queued(row[t], 0, "worker_shutdown"), TRUE)

\* FailTask with the canceled context fails: the row waits for its lease.
DropUnrunnable(w, t) ==
  /\ proc[w] = "draining"
  /\ exec[w][t].phase = "claimed"
  /\ ~Runnable(w, t)
  /\ Return(w, t, FALSE)
  /\ UNCHANGED <<row, doc, proc, faults>>

-----------------------------------------------------------------------------
(* Faults and the life of a worker process.                                 *)

\* The store call that would settle or release the row fails.
StoreFails(w, t) ==
  /\ Fault
  /\ \/ Settling(w, t)
     \/ proc[w] = "up" /\ exec[w][t].phase = "claimed" /\ ~Runnable(w, t)
     \/ proc[w] = "draining" /\ exec[w][t].phase \in Outcome \cup {"claimed"}
  /\ Return(w, t, FALSE)
  /\ UNCHANGED <<row, doc, proc>>

\* A heartbeat fails although the lease is held.
HeartbeatFails(w, t) ==
  /\ Fault
  /\ Beating(w, t)
  /\ exec' = [exec EXCEPT ![w] = [@ EXCEPT ![t].beat = FALSE]]
  /\ UNCHANGED <<row, doc, proc, cycle>>

\* The process is suspended: time passes without its heartbeats.
Pause(w) ==
  /\ Fault
  /\ proc[w] = "up"
  /\ proc' = [proc EXCEPT ![w] = "paused"]
  /\ UNCHANGED <<row, doc, cycle, exec>>

Resume(w) ==
  /\ proc[w] = "paused"
  /\ proc' = [proc EXCEPT ![w] = "up"]
  /\ UNCHANGED <<row, doc, cycle, exec, faults>>

Stop(w) ==
  /\ proc' = [proc EXCEPT ![w] = "down"]
  /\ cycle' = [cycle EXCEPT ![w] = "idle"]
  /\ exec' = [exec EXCEPT ![w] = [t \in Task |-> NoExec]]

\* The process dies, or exits after WorkerDrainTimeout with handlers running.
Crash(w) ==
  /\ Fault
  /\ proc[w] # "down"
  /\ Stop(w)
  /\ UNCHANGED <<row, doc>>

Shutdown(w) ==
  /\ Fault
  /\ proc[w] = "up"
  /\ proc' = [proc EXCEPT ![w] = "draining"]
  /\ UNCHANGED <<row, doc, cycle, exec>>

Exit(w) ==
  /\ proc[w] = "draining"
  /\ BatchDone(w)
  /\ Stop(w)
  /\ UNCHANGED <<row, doc, faults>>

Restart(w) ==
  /\ proc[w] = "down"
  /\ proc' = [proc EXCEPT ![w] = "up"]
  /\ UNCHANGED <<row, doc, cycle, exec, faults>>

-----------------------------------------------------------------------------
(* Time.                                                                    *)

Dec(n) == IF n = 0 THEN 0 ELSE n - 1

Aged(r) == [r EXCEPT !.due = Dec(@), !.lease = Dec(@), !.keep = Dec(@)]

\* A process that runs beats every third of the lease: its lease does not run
\* out unless it is paused, draining, or its heartbeat failed.
Timely(w, t) ==
  proc[w] = "up" /\ exec[w][t].beat /\ Owns(w, t) => row[t].lease > 1

Tick ==
  /\ \A w \in Worker, t \in Task : Timely(w, t)
  /\ row' = [t \in Task |-> Aged(row[t])]
  /\ UNCHANGED <<doc, proc, cycle, exec, faults>>

-----------------------------------------------------------------------------

Application ==
  \/ \E t \in Task : EnqueueTask(t) \/ CancelTask(t) \/ DismissTaskForTarget(t)
  \/ \E d \in Doc : TrashDocument(d) \/ DeleteDocumentState(d)

Execution(w, t) ==
  \/ FailUnrunnable(w, t) \/ StartHandler(w, t) \/ HandlerReturns(w, t)
  \/ HeartbeatTask(w, t) \/ LeaseLost(w, t)
  \/ CompleteTask(w, t) \/ FailTask(w, t)
  \/ ReleaseTask(w, t) \/ DropUnrunnable(w, t)
  \/ StoreFails(w, t) \/ HeartbeatFails(w, t)

Process(w) ==
  \/ ClaimTasks(w) \/ PruneTasks(w) \/ SkipPrune(w)
  \/ Pause(w) \/ Resume(w) \/ Crash(w)
  \/ Shutdown(w) \/ Exit(w) \/ Restart(w)

Next ==
  \/ Application
  \/ \E w \in Worker : Process(w) \/ \E t \in Task : Execution(w, t)
  \/ Tick

Spec == Init /\ [][Next]_vars

\* Time passes, a running process keeps polling and its goroutines run, a
\* handler returns (its context is canceled by the attempt's timeout), and a
\* stopped process is started again.
Fairness ==
  /\ WF_vars(Tick)
  /\ \A w \in Worker :
       /\ WF_vars(ClaimTasks(w))
       /\ WF_vars(PruneTasks(w))
       /\ WF_vars(SkipPrune(w))
       /\ WF_vars(Resume(w))
       /\ WF_vars(Exit(w))
       /\ WF_vars(Restart(w))
       /\ \A t \in Task :
            /\ WF_vars(FailUnrunnable(w, t))
            /\ WF_vars(StartHandler(w, t))
            /\ WF_vars(HandlerReturns(w, t))
            /\ WF_vars(HeartbeatTask(w, t))
            /\ WF_vars(LeaseLost(w, t))
            /\ WF_vars(CompleteTask(w, t))
            /\ WF_vars(FailTask(w, t))
            /\ WF_vars(ReleaseTask(w, t))
            /\ WF_vars(DropUnrunnable(w, t))

FairSpec == Spec /\ Fairness

-----------------------------------------------------------------------------
(* Properties.                                                              *)

\* The fields of rows, processes and executions have their types.
TypeOK ==
  /\ row \in [Task -> Row]
  /\ doc \in [Doc -> {"active", "trashed", "gone"}]
  /\ proc \in [Worker -> {"up", "paused", "draining", "down"}]
  /\ cycle \in [Worker -> {"idle", "batch", "erred"}]
  /\ exec \in [Worker -> [Task -> Exec]]
  /\ faults \in 0 .. MaxFaults

\* A concurrency key serializes active leases (ClaimTasks against expiry,
\* heartbeats and other claims): two rows of a key are never leased at once.
OneLiveLeasePerKey ==
  \A t, u \in Task : SameKey(t, u) /\ Live(row[t]) /\ Live(row[u]) => t = u

\* Of all executions of one task or of one key, on any worker, at most one
\* can still change its row.
OneOwnerPerKey ==
  \A w, x \in Worker : \A t, u \in Task :
    (t = u \/ SameKey(t, u)) /\ Owns(w, t) /\ Owns(x, u) => w = x /\ t = u

\* No two executions of a task, live or stale, are the same attempt, and a
\* handler only runs for the first MaxAttempts of them: a handler is started
\* at most MaxAttempts times, whatever is lost in between.
HandlerRunsAreBounded ==
  \A t \in Task : \A w \in Worker :
    /\ exec[w][t].phase = "handling" => exec[w][t].attempt <= MaxAttempts
    /\ \A x \in Worker \ {w} :
         exec[w][t].phase # "none" /\ exec[x][t].phase # "none" =>
           exec[w][t].attempt # exec[x][t].attempt

\* The output a row holds is the one of its last attempt, never the one of an
\* attempt whose lease another claim replaced (CompleteTask is fenced).
ResultIsOfLastAttempt ==
  \A t \in Task : row[t].state = "succeeded" => row[t].result = row[t].attempts

\* What makes the two properties above inductive: the lease of a running row
\* is named by its last attempt, and no execution, live or stale, carries an
\* attempt later than the last one of its row.
AttemptInv ==
  \A t \in Task :
    /\ row[t].state = "running" => row[t].token = row[t].attempts
    /\ row[t].state = "succeeded" => row[t].result = row[t].attempts
    /\ \A w \in Worker : exec[w][t].phase # "none" =>
         /\ row[t].state # "absent"
         /\ row[t].state # "gone" => exec[w][t].attempt <= row[t].attempts

\* Every claim beyond MaxAttempts is paid for by a crash, a pause, a shutdown
\* or a failed store call: retries alone never exceed the budget.
AttemptsArePaidFor ==
  \A t \in Task : row[t].attempts <= MaxAttempts + faults

\* A worker that beats holds the lease of a task.
Holds(w, t) == proc[w] = "up" /\ exec[w][t].beat /\ Owns(w, t)

\* What makes AttemptsArePaidFor inductive: an open task that has used up what
\* is paid for is held by a worker that beats, so that it is settled, or a
\* fault is due before the next claim; and a worker claims only when its batch
\* is done, so that a claim forgets no execution.
PaidInv ==
  /\ AttemptsArePaidFor
  /\ \A t \in Task : row[t].state \in {"queued", "running"} =>
       \/ row[t].attempts < MaxAttempts + faults
       \/ \E w \in Worker : Holds(w, t)
  /\ \A w \in Worker : cycle[w] = "idle" => BatchDone(w)

\* A row never refers to a document that is gone: enqueue checks the
\* references in the transaction that inserts, and the document's deletion
\* takes the rows with it, those of running tasks too.
NoOrphanTask ==
  \A t \in Task : Present(row[t]) => \A d \in RefsOf(t) : doc[d] # "gone"

\* Every task that was enqueued is eventually settled or removed, whatever
\* crashes, pauses and failed store calls happen on the way.
EveryTaskSettles ==
  \A t \in Task : row[t].state \in {"queued", "running"} ~>
                    row[t].state \notin {"queued", "running"}

\* A settled task's row is eventually pruned.
TerminalRowsArePruned ==
  \A t \in Task : Terminal(row[t]) ~> row[t].state = "gone"

\* The contract of TaskStore: a task is open while its row is queued or
\* running, and owned by the attempt that holds an unexpired lease.
Contract == INSTANCE TaskContract WITH
  status   <- [t \in Task |-> IF row[t].state \in {"queued", "running"}
                              THEN "open" ELSE row[t].state],
  attempts <- [t \in Task |-> row[t].attempts],
  owner    <- [t \in Task |-> IF Live(row[t]) THEN row[t].token ELSE 0],
  result   <- [t \in Task |-> row[t].result]

\* Every step of the table, the workers and the clock is a step of the
\* contract: only the attempt that owns a task settles it, once.
ImplementsContract == Contract!Spec
=============================================================================
