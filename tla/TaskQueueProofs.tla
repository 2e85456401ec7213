--------------------------- MODULE TaskQueueProofs ---------------------------
(* Theorems about TaskQueue, for every set of tasks, workers, documents and  *)
(* keys and every value of the bounds.                                       *)
EXTENDS TaskQueue, TLAPS

-----------------------------------------------------------------------------
(* What the row operators return.                                           *)

\* Every value a store call writes to a row of ridu_tasks is a row.
LEMMA RowOperators ==
  ASSUME NEW r \in Row
  PROVE  /\ Absent \in Row /\ Gone \in Row
         /\ Unleased(r) \in Row
         /\ \A delay \in Nat, code \in Code : Queued(r, delay, code) \in Row
         /\ Leased(r) \in Row
         /\ \A code \in Code : Failed(r, code) \in Row
         /\ Settled(r, "canceled") \in Row
         /\ \A attempt \in Nat : Succeeded(r, attempt) \in Row
         /\ Aged(r) \in Row
<1> USE QueueAssumption DEF Row, Code
<1>1. Absent \in Row /\ Gone \in Row
  BY DEF Absent, Gone
<1>2. Unleased(r) \in Row
  BY DEF Unleased
<1>3. \A delay \in Nat, code \in Code : Queued(r, delay, code) \in Row
  BY DEF Unleased, Queued
<1>4. Leased(r) \in Row
  <2>1. r.attempts + 1 \in Nat /\ LeaseDuration \in Nat
    OBVIOUS
  <2>2. \A a, l \in Nat :
          [r EXCEPT !.state = "running", !.attempts = a, !.token = a, !.lease = l] \in Row
    OBVIOUS
  <2>3. QED
    BY <2>1, <2>2 DEF Leased
<1>5. \A code \in Code : Failed(r, code) \in Row
  BY DEF Failed, Settled, Unleased
<1>6. Settled(r, "canceled") \in Row
  BY DEF Settled, Unleased
<1>7. \A attempt \in Nat : Succeeded(r, attempt) \in Row
  BY DEF Succeeded, Settled, Unleased
<1>8. Aged(r) \in Row
  <2>1. Dec(r.due) \in Nat /\ Dec(r.lease) \in Nat /\ Dec(r.keep) \in Nat
    BY DEF Dec
  <2>2. \A a, b, c \in Nat : [r EXCEPT !.due = a, !.lease = b, !.keep = c] \in Row
    OBVIOUS
  <2>3. QED
    BY <2>1, <2>2 DEF Aged
<1>9. QED
  BY <1>1, <1>2, <1>3, <1>4, <1>5, <1>6, <1>7, <1>8

-----------------------------------------------------------------------------
(* Type correctness.                                                        *)

\* The empty table and idle workers are typed.
LEMMA InitType == Init => TypeOK
BY QueueAssumption DEF Init, TypeOK, Absent, Row, Code, Exec, Phase, Outcome, NoExec

\* A crash, pause, shutdown or failed store call stays within the bound.
LEMMA FaultType ==
  ASSUME faults \in 0 .. MaxFaults, Fault
  PROVE  faults' \in 0 .. MaxFaults
BY QueueAssumption DEF Fault

\* The frame of a mutation by an execution, for any row it writes.
LEMMA MutateType ==
  ASSUME TypeOK, NEW w \in Worker, NEW t \in Task, NEW r \in Row,
         NEW ok, Mutate(w, t, r, ok)
  PROVE  TypeOK'
<1>1. row' \in [Task -> Row]
  BY DEF Mutate, TypeOK
<1>2. exec' \in [Worker -> [Task -> Exec]]
  BY DEF Mutate, Return, TypeOK, NoExec, Exec, Phase, Outcome
<1>3. cycle' \in [Worker -> {"idle", "batch", "erred"}]
  BY DEF Mutate, Return, TypeOK
<1>4. QED
  BY <1>1, <1>2, <1>3 DEF Mutate, TypeOK

\* Enqueueing, canceling, dismissing and deleting documents keep the types.
LEMMA ApplicationType == TypeOK /\ Application => TypeOK'
<1> SUFFICES ASSUME TypeOK, Application PROVE TypeOK'
  OBVIOUS
<1>1. ASSUME NEW t \in Task, EnqueueTask(t) PROVE TypeOK'
  <2>1. PICK delay \in StartDelays :
          row' = [row EXCEPT ![t] = Queued(Absent, delay, "none")]
    BY <1>1 DEF EnqueueTask
  <2>2. Absent \in Row
    BY DEF Absent, Row, Code
  <2>3. Queued(Absent, delay, "none") \in Row
    BY <2>2, RowOperators, QueueAssumption DEF Code
  <2>4. QED
    BY <1>1, <2>1, <2>3 DEF EnqueueTask, AppUnchanged, TypeOK
<1>2. ASSUME NEW t \in Task, CancelTask(t) PROVE TypeOK'
  <2>1. Settled(row[t], "canceled") \in Row
    BY RowOperators DEF TypeOK
  <2>2. QED
    BY <1>2, <2>1 DEF CancelTask, AppUnchanged, TypeOK
<1>3. ASSUME NEW t \in Task, DismissTaskForTarget(t) PROVE TypeOK'
  <2>1. Gone \in Row
    BY RowOperators DEF TypeOK
  <2>2. QED
    BY <1>3, <2>1 DEF DismissTaskForTarget, AppUnchanged, TypeOK
<1>4. ASSUME NEW d \in Doc, TrashDocument(d) PROVE TypeOK'
  BY <1>4 DEF TrashDocument, TypeOK
<1>5. ASSUME NEW d \in Doc, DeleteDocumentState(d) PROVE TypeOK'
  <2>1. \A t \in Task : row[t] \in Row /\ Gone \in Row
    BY RowOperators DEF TypeOK
  <2>2. row' \in [Task -> Row]
    BY <1>5, <2>1 DEF DeleteDocumentState
  <2>3. QED
    BY <1>5, <2>2 DEF DeleteDocumentState, TypeOK
<1>6. QED
  BY <1>1, <1>2, <1>3, <1>4, <1>5 DEF Application

\* Claiming, pruning and the life of a worker process keep the types.
LEMMA ProcessType ==
  ASSUME TypeOK, NEW w \in Worker, Process(w)
  PROVE  TypeOK'
<1>1. CASE ClaimTasks(w)
  <2>1. PICK S \in SUBSET Candidates :
          /\ row' = [t \in Task |-> IF t \in S THEN Leased(row[t]) ELSE row[t]]
          /\ exec' = [exec EXCEPT ![w] =
                        [t \in Task |-> IF t \in S
                                        THEN Claimed(row[t].attempts + 1)
                                        ELSE NoExec]]
    BY <1>1 DEF ClaimTasks
  <2>2. \A t \in Task : row[t] \in Row /\ Leased(row[t]) \in Row
    BY RowOperators DEF TypeOK
  <2>3. row' \in [Task -> Row]
    BY <2>1, <2>2
  <2>4. \A t \in Task : Claimed(row[t].attempts + 1) \in Exec /\ NoExec \in Exec
    <3>1. \A t \in Task : row[t].attempts + 1 \in Nat
      BY DEF TypeOK, Row
    <3>2. QED
      BY <3>1 DEF Claimed, NoExec, Exec, Phase
  <2>5. exec' \in [Worker -> [Task -> Exec]]
    BY <2>1, <2>4 DEF TypeOK
  <2>6. cycle' \in [Worker -> {"idle", "batch", "erred"}] /\ faults' \in 0 .. MaxFaults
    BY <1>1, FaultType DEF ClaimTasks, TypeOK
  <2>7. QED
    BY <1>1, <2>3, <2>5, <2>6 DEF ClaimTasks, TypeOK
<1>2. CASE PruneTasks(w)
  <2>1. PICK S \in SUBSET Task :
          row' = [t \in Task |-> IF t \in S THEN Gone ELSE row[t]]
    BY <1>2 DEF PruneTasks, Prunable
  <2>2. \A t \in Task : row[t] \in Row /\ Gone \in Row
    BY RowOperators DEF TypeOK
  <2>3. row' \in [Task -> Row]
    BY <2>1, <2>2
  <2>4. QED
    BY <1>2, <2>3 DEF PruneTasks, TypeOK
<1>3. CASE SkipPrune(w) \/ Pause(w) \/ Resume(w) \/ Shutdown(w) \/ Restart(w)
  <2>1. faults' \in 0 .. MaxFaults
    BY <1>3, FaultType DEF SkipPrune, Pause, Resume, Shutdown, Restart, TypeOK
  <2>2. QED
    BY <1>3, <2>1 DEF SkipPrune, Pause, Resume, Shutdown, Restart, TypeOK
<1>4. CASE Crash(w) \/ Exit(w)
  <2>1. [t \in Task |-> NoExec] \in [Task -> Exec]
    BY DEF NoExec, Exec, Phase
  <2>2. faults' \in 0 .. MaxFaults
    BY <1>4, FaultType DEF Crash, Exit, TypeOK
  <2>3. QED
    BY <1>4, <2>1, <2>2 DEF Crash, Exit, Stop, TypeOK
<1>5. QED
  BY <1>1, <1>2, <1>3, <1>4 DEF Process

\* An execution that only moves on writes an execution of the type.
LEMMA ExecUpdateType ==
  ASSUME TypeOK, NEW w \in Worker, NEW t \in Task, NEW e \in Exec,
         exec' = [exec EXCEPT ![w] = [@ EXCEPT ![t] = e]]
  PROVE  exec' \in [Worker -> [Task -> Exec]]
BY DEF TypeOK

\* Every step of executeTask keeps the types.
LEMMA ExecutionType ==
  ASSUME TypeOK, NEW w \in Worker, NEW t \in Task, Execution(w, t)
  PROVE  TypeOK'
<1>1. /\ row[t] \in Row
      /\ exec[w][t] \in Exec
      /\ \A code \in Code : Failed(row[t], code) \in Row
      /\ \A delay \in Nat, code \in Code : Queued(row[t], delay, code) \in Row
      /\ Succeeded(row[t], exec[w][t].attempt) \in Row
  BY RowOperators DEF TypeOK, Exec
<1>2. CASE FailUnrunnable(w, t)
  BY <1>1, <1>2, MutateType DEF FailUnrunnable, Code
<1>3. CASE StartHandler(w, t) \/ HandlerReturns(w, t)
  <2>1. PICK phase \in Phase : exec' = [exec EXCEPT ![w] = [@ EXCEPT ![t].phase = phase]]
    BY <1>3 DEF StartHandler, HandlerReturns, Phase, Outcome
  <2>2. [exec[w][t] EXCEPT !.phase = phase] \in Exec
    BY <1>1 DEF Exec
  <2>3. exec' \in [Worker -> [Task -> Exec]]
    BY <2>1, <2>2 DEF TypeOK
  <2>4. QED
    BY <1>3, <2>3 DEF StartHandler, HandlerReturns, TypeOK
<1>4. CASE HeartbeatTask(w, t) \/ HeartbeatFails(w, t)
  <2>1. [exec[w][t] EXCEPT !.beat = FALSE] \in Exec
    BY <1>1 DEF Exec
  <2>2. [row[t] EXCEPT !.lease = LeaseDuration] \in Row
    BY <1>1, QueueAssumption DEF Row
  <2>3. CASE row' = row
    <3>1. exec' = [exec EXCEPT ![w] = [@ EXCEPT ![t].beat = FALSE]] \/ exec' = exec
      BY <1>4 DEF HeartbeatTask, HeartbeatFails
    <3>2. ASSUME exec' = [exec EXCEPT ![w] = [@ EXCEPT ![t].beat = FALSE]]
          PROVE  exec' \in [Worker -> [Task -> Exec]]
      <4>1. exec' = [exec EXCEPT ![w] =
                      [@ EXCEPT ![t] = [exec[w][t] EXCEPT !.beat = FALSE]]]
        BY <3>2 DEF TypeOK
      <4>2. QED
        BY <2>1, <4>1 DEF TypeOK
    <3>3. exec' \in [Worker -> [Task -> Exec]]
      BY <3>1, <3>2 DEF TypeOK
    <3>4. faults' \in 0 .. MaxFaults
      BY <1>4, FaultType DEF HeartbeatTask, HeartbeatFails, TypeOK
    <3>5. UNCHANGED <<row, doc, proc, cycle>>
      BY <1>4, <2>3 DEF HeartbeatTask, HeartbeatFails
    <3>6. QED
      BY <3>3, <3>4, <3>5 DEF TypeOK
  <2>4. CASE row' = [row EXCEPT ![t].lease = LeaseDuration] /\ HeartbeatTask(w, t)
            /\ exec' = exec
    BY <2>2, <2>4 DEF HeartbeatTask, TypeOK
  <2>5. QED
    BY <1>4, <2>3, <2>4 DEF HeartbeatTask, HeartbeatFails
<1>5. CASE LeaseLost(w, t) \/ DropUnrunnable(w, t) \/ StoreFails(w, t)
  <2>1. NoExec \in Exec
    BY DEF NoExec, Exec, Phase
  <2>2. exec' \in [Worker -> [Task -> Exec]]
    BY <1>5, <2>1, ExecUpdateType DEF LeaseLost, DropUnrunnable, StoreFails, Return
  <2>3. faults' \in 0 .. MaxFaults
    BY <1>5, FaultType DEF LeaseLost, DropUnrunnable, StoreFails, TypeOK
  <2>4. QED
    BY <1>5, <2>2, <2>3 DEF LeaseLost, DropUnrunnable, StoreFails, Return, TypeOK
<1>6. CASE CompleteTask(w, t)
  BY <1>1, <1>6, MutateType DEF CompleteTask
<1>7. CASE FailTask(w, t)
  BY <1>1, <1>7, MutateType, QueueAssumption DEF FailTask, Code
<1>8. CASE ReleaseTask(w, t)
  BY <1>1, <1>8, MutateType DEF ReleaseTask, Code
<1>9. QED
  BY <1>2, <1>3, <1>4, <1>5, <1>6, <1>7, <1>8 DEF Execution

\* TypeOK is inductive.
LEMMA NextType == TypeOK /\ [Next]_vars => TypeOK'
<1> SUFFICES ASSUME TypeOK, [Next]_vars PROVE TypeOK'
  OBVIOUS
<1>1. CASE Application
  BY <1>1, ApplicationType
<1>2. ASSUME NEW w \in Worker, Process(w) PROVE TypeOK'
  BY <1>2, ProcessType
<1>3. ASSUME NEW w \in Worker, NEW t \in Task, Execution(w, t) PROVE TypeOK'
  BY <1>3, ExecutionType
<1>4. CASE Tick
  <2>1. \A t \in Task : Aged(row[t]) \in Row
    BY RowOperators DEF TypeOK
  <2>2. QED
    BY <1>4, <2>1 DEF Tick, TypeOK
<1>5. CASE UNCHANGED vars
  BY <1>5 DEF vars, TypeOK
<1>6. QED
  BY <1>1, <1>2, <1>3, <1>4, <1>5 DEF Next

\* The rows, the processes and the executions have their types in every
\* reachable state, for any number of tasks, workers and faults.
THEOREM TypeCorrect == Spec => []TypeOK
BY InitType, NextType, PTL DEF Spec

-----------------------------------------------------------------------------
(* What one step other than a claim may do to one row.                      *)

FencedRow(w, t) ==
  /\ Owns(w, t)
  /\ \/ \E delay \in Nat, code \in Code : row'[t] = Queued(row[t], delay, code)
     \/ \E code \in Code : row'[t] = Failed(row[t], code)
     \/ row'[t] = Succeeded(row[t], exec[w][t].attempt)
     \/ row'[t] = [row[t] EXCEPT !.lease = LeaseDuration]

RowStep(t) ==
  \/ row'[t] = row[t]
  \/ /\ row[t].state = "absent"
     /\ \E delay \in Nat : row'[t] = Queued(Absent, delay, "none")
  \/ /\ row[t].state \in {"queued", "running"}
     /\ row'[t] = Settled(row[t], "canceled")
  \/ Present(row[t]) /\ row'[t] = Gone
  \/ \E w \in Worker : FencedRow(w, t)
  \/ row'[t] = Aged(row[t])

\* A mutation by an execution is fenced.
LEMMA MutateRow ==
  ASSUME TypeOK, NEW w \in Worker, NEW t \in Task, NEW r, NEW ok,
         Mutate(w, t, r, ok)
  PROVE  /\ \A u \in Task \ {t} : row'[u] = row[u]
         /\ row'[t] = row[t] \/ (Owns(w, t) /\ row'[t] = r)
BY DEF Mutate, TypeOK

\* A step of executeTask changes the row of its own task only, and only
\* while it owns that row.
LEMMA ExecutionFences ==
  ASSUME TypeOK, NEW w \in Worker, NEW t \in Task, Execution(w, t)
  PROVE  /\ \A u \in Task \ {t} : row'[u] = row[u]
         /\ row'[t] = row[t] \/ FencedRow(w, t)
<1>1. CASE row' = row
  BY <1>1
<1>2. SUFFICES ASSUME row' # row
               PROVE  (\A u \in Task \ {t} : row'[u] = row[u])
                        /\ (row'[t] = row[t] \/ FencedRow(w, t))
  BY <1>1
<1>3. CASE FailUnrunnable(w, t)
  BY <1>3, MutateRow DEF FailUnrunnable, FencedRow, Code
<1>4. CASE CompleteTask(w, t)
  BY <1>4, MutateRow DEF CompleteTask, FencedRow
<1>5. CASE FailTask(w, t)
  BY <1>5, MutateRow, QueueAssumption DEF FailTask, FencedRow, Code
<1>6. CASE ReleaseTask(w, t)
  <2>1. Mutate(w, t, Queued(row[t], 0, "worker_shutdown"), TRUE)
    BY <1>6 DEF ReleaseTask
  <2>2. /\ \A u \in Task \ {t} : row'[u] = row[u]
        /\ \/ row'[t] = row[t]
           \/ Owns(w, t) /\ row'[t] = Queued(row[t], 0, "worker_shutdown")
    BY <2>1, MutateRow
  <2>3. 0 \in Nat /\ "worker_shutdown" \in Code
    BY DEF Code
  <2>4. QED
    BY <2>2, <2>3 DEF FencedRow
<1>7. CASE HeartbeatTask(w, t)
  BY <1>2, <1>7 DEF HeartbeatTask, FencedRow, TypeOK
<1>8. QED
  BY <1>2, <1>3, <1>4, <1>5, <1>6, <1>7
  DEF Execution, StartHandler, HandlerReturns, LeaseLost, DropUnrunnable,
      StoreFails, HeartbeatFails

\* In particular it is one of the seven ways to change a row.
LEMMA ExecutionRow ==
  ASSUME TypeOK, NEW w \in Worker, NEW t \in Task, Execution(w, t)
  PROVE  \A u \in Task : RowStep(u)
BY ExecutionFences DEF RowStep

\* Of the steps of a worker other than a claim only PruneTasks changes rows.
LEMMA ProcessRow ==
  ASSUME TypeOK, NEW w \in Worker, Process(w), ~ClaimTasks(w)
  PROVE  \A u \in Task : RowStep(u)
<1>1. CASE row' = row
  BY <1>1 DEF RowStep
<1>2. CASE PruneTasks(w)
  BY <1>2 DEF PruneTasks, Prunable, RowStep, Terminal, Present
<1>3. QED
  BY <1>1, <1>2
  DEF Process, SkipPrune, Pause, Resume, Crash, Shutdown, Exit, Restart, Stop

\* An application call inserts, cancels or deletes rows and nothing else.
LEMMA ApplicationRow == TypeOK /\ Application => \A u \in Task : RowStep(u)
<1> SUFFICES ASSUME TypeOK, Application PROVE \A u \in Task : RowStep(u)
  OBVIOUS
<1>1. ASSUME NEW t \in Task, EnqueueTask(t) PROVE \A u \in Task : RowStep(u)
  BY <1>1, QueueAssumption DEF EnqueueTask, RowStep, TypeOK
<1>2. ASSUME NEW t \in Task, CancelTask(t) PROVE \A u \in Task : RowStep(u)
  BY <1>2 DEF CancelTask, RowStep, TypeOK
<1>3. ASSUME NEW t \in Task, DismissTaskForTarget(t) PROVE \A u \in Task : RowStep(u)
  BY <1>3 DEF DismissTaskForTarget, RowStep, Present, TypeOK
<1>4. ASSUME NEW d \in Doc, TrashDocument(d) \/ DeleteDocumentState(d)
      PROVE  \A u \in Task : RowStep(u)
  BY <1>4 DEF TrashDocument, DeleteDocumentState, RowStep
<1>5. QED
  BY <1>1, <1>2, <1>3, <1>4 DEF Application

\* A step that claims nothing changes a row in one of seven ways: only an
\* execution that owns a row settles, requeues or extends it.
LEMMA NextRow ==
  ASSUME TypeOK, [Next]_vars, \A w \in Worker : ~ClaimTasks(w)
  PROVE  \A u \in Task : RowStep(u)
<1>1. CASE Tick
  BY <1>1 DEF Tick, RowStep
<1>2. CASE UNCHANGED vars
  BY <1>2 DEF vars, RowStep
<1>3. QED
  BY <1>1, <1>2, ApplicationRow, ProcessRow, ExecutionRow DEF Next

-----------------------------------------------------------------------------
(* Leases and concurrency keys.                                             *)

\* A step that claims nothing makes no lease live.
LEMMA LiveStep ==
  ASSUME TypeOK, NEW t \in Task, RowStep(t), Live(row'[t])
  PROVE  Live(row[t])
<1>1. row[t] \in Row
  BY DEF TypeOK
<1>2. CASE row'[t] = Aged(row[t])
  BY <1>1, <1>2 DEF Aged, Dec, Live, Row
<1>3. CASE \E w \in Worker : FencedRow(w, t)
  BY <1>3 DEF FencedRow, Owns
<1>4. CASE \E delay \in Nat : row'[t] = Queued(Absent, delay, "none")
  BY <1>4 DEF Queued, Unleased, Absent, Live
<1>5. CASE row'[t] = Settled(row[t], "canceled") \/ row'[t] = Gone
  BY <1>1, <1>5 DEF Settled, Unleased, Gone, Absent, Live, Row
<1>6. QED
  BY <1>2, <1>3, <1>4, <1>5 DEF RowStep

\* ClaimTasks leases a row only beside no live lease of its key, and no
\* other store call starts a lease.
LEMMA KeyStep == TypeOK /\ OneLiveLeasePerKey /\ [Next]_vars => OneLiveLeasePerKey'
<1> SUFFICES ASSUME TypeOK, OneLiveLeasePerKey, [Next]_vars,
                    NEW t \in Task, NEW u \in Task, SameKey(t, u),
                    Live(row'[t]), Live(row'[u])
             PROVE  t = u
  BY DEF OneLiveLeasePerKey, SameKey
<1>1. CASE \A w \in Worker : ~ClaimTasks(w)
  BY <1>1, NextRow, LiveStep DEF OneLiveLeasePerKey
<1>2. ASSUME NEW w \in Worker, ClaimTasks(w) PROVE t = u
  \* A row leased by the claim has no live row of its key beside it, and the
  \* rank keeps one row of each key.
  <2>1. PICK S \in SUBSET Candidates :
          /\ \A v, x \in S : SameKey(v, x) => v = x
          /\ row' = [v \in Task |-> IF v \in S THEN Leased(row[v]) ELSE row[v]]
    BY <1>2 DEF ClaimTasks
  <2>2. CASE t \in S /\ u \in S
    BY <2>1, <2>2
  <2>3. CASE t \in S /\ u \notin S
    BY <2>1, <2>3 DEF Candidates
  <2>4. CASE t \notin S /\ u \in S
    BY <2>1, <2>4 DEF Candidates, SameKey
  <2>5. CASE t \notin S /\ u \notin S
    BY <2>1, <2>5 DEF OneLiveLeasePerKey
  <2>6. QED
    BY <2>2, <2>3, <2>4, <2>5
<1>3. QED
  BY <1>1, <1>2

\* A concurrency key serializes active leases, for any number of workers,
\* whatever crashes, pauses and failed store calls happen.
THEOREM KeySafety == Spec => []OneLiveLeasePerKey
<1>1. Init => OneLiveLeasePerKey
  BY DEF Init, OneLiveLeasePerKey, Live, Absent
<1>2. QED
  BY <1>1, KeyStep, TypeCorrect, PTL DEF Spec

-----------------------------------------------------------------------------
(* Attempts and executions.                                                 *)

\* What one step other than a claim may do to one execution.
ExecStep(w, t) ==
  \/ exec'[w][t] \in {exec[w][t], NoExec}
  \/ /\ exec[w][t].phase # "none"
     /\ exec'[w][t].attempt = exec[w][t].attempt
     /\ exec'[w][t].phase = "handling" =>
          exec[w][t].phase = "handling" \/ exec[w][t].attempt <= MaxAttempts

\* The return of executeTask only ends an execution.
LEMMA ReturnExec ==
  ASSUME TypeOK, NEW w \in Worker, NEW t \in Task, NEW ok, Return(w, t, ok)
  PROVE  \A x \in Worker, u \in Task : ExecStep(x, u)
BY DEF Return, ExecStep, TypeOK

\* A step of executeTask keeps the attempt of its execution, and starts a
\* handler only within the budget.
LEMMA ExecutionExec ==
  ASSUME TypeOK, NEW w \in Worker, NEW t \in Task, Execution(w, t)
  PROVE  \A x \in Worker, u \in Task : ExecStep(x, u)
<1>1. CASE exec' = exec
  BY <1>1 DEF ExecStep
<1>2. CASE \E ok \in BOOLEAN : Return(w, t, ok)
  BY <1>2, ReturnExec
<1>3. CASE StartHandler(w, t)
  <2>1. exec[w][t].attempt <= MaxAttempts /\ exec[w][t].phase = "claimed"
    BY <1>3 DEF StartHandler, Runnable
  <2>2. PICK phase \in Phase : exec' = [exec EXCEPT ![w] = [@ EXCEPT ![t].phase = phase]]
    BY <1>3 DEF StartHandler, Phase, Outcome
  <2>3. exec[w][t] \in Exec
    BY DEF TypeOK
  <2>4. exec'[w][t].attempt = exec[w][t].attempt
    BY <2>2, <2>3 DEF TypeOK, Exec
  <2>5. QED
    BY <2>1, <2>2, <2>4 DEF ExecStep, TypeOK
<1>4. CASE HandlerReturns(w, t)
  <2>1. PICK phase \in Outcome : exec' = [exec EXCEPT ![w] = [@ EXCEPT ![t].phase = phase]]
    BY <1>4 DEF HandlerReturns
  <2>2. exec[w][t] \in Exec /\ exec[w][t].phase = "handling"
    BY <1>4 DEF HandlerReturns, TypeOK
  <2>3. exec'[w][t].attempt = exec[w][t].attempt
    BY <2>1, <2>2 DEF TypeOK, Exec
  <2>4. QED
    BY <2>1, <2>2, <2>3 DEF ExecStep, TypeOK
<1>5. CASE exec' = [exec EXCEPT ![w] = [@ EXCEPT ![t].beat = FALSE]] /\ Beating(w, t)
  <2>1. exec[w][t] \in Exec /\ exec[w][t].phase # "none"
    BY <1>5 DEF Beating, Outcome, TypeOK
  <2>2. exec'[w][t].attempt = exec[w][t].attempt /\ exec'[w][t].phase = exec[w][t].phase
    BY <1>5, <2>1 DEF TypeOK, Exec
  <2>3. QED
    BY <1>5, <2>1, <2>2 DEF ExecStep, TypeOK
<1>6. CASE HeartbeatTask(w, t) \/ HeartbeatFails(w, t)
  BY <1>1, <1>5, <1>6 DEF HeartbeatTask, HeartbeatFails
<1>7. CASE LeaseLost(w, t) \/ DropUnrunnable(w, t) \/ StoreFails(w, t)
  BY <1>2, <1>7 DEF LeaseLost, DropUnrunnable, StoreFails
<1>8. CASE FailUnrunnable(w, t) \/ CompleteTask(w, t) \/ FailTask(w, t) \/ ReleaseTask(w, t)
  <2>1. \E ok : Return(w, t, ok)
    BY <1>8 DEF FailUnrunnable, CompleteTask, FailTask, ReleaseTask, Mutate
  <2>2. QED
    BY <2>1, ReturnExec
<1>9. QED
  BY <1>3, <1>4, <1>6, <1>7, <1>8 DEF Execution

\* Outside ClaimTasks no execution begins and none changes its attempt.
LEMMA NextExec ==
  ASSUME TypeOK, [Next]_vars, \A w \in Worker : ~ClaimTasks(w)
  PROVE  \A x \in Worker, u \in Task : ExecStep(x, u)
<1>1. CASE exec' = exec
  BY <1>1 DEF ExecStep
<1>2. ASSUME NEW w \in Worker, Stop(w)
      PROVE  \A x \in Worker, u \in Task : ExecStep(x, u)
  BY <1>2 DEF Stop, ExecStep, TypeOK
<1>3. ASSUME NEW w \in Worker, Process(w)
      PROVE  \A x \in Worker, u \in Task : ExecStep(x, u)
  BY <1>1, <1>2, <1>3
  DEF Process, PruneTasks, SkipPrune, Pause, Resume, Crash, Shutdown, Exit, Restart
<1>4. CASE Application \/ Tick \/ UNCHANGED vars
  BY <1>1, <1>4
  DEF Application, EnqueueTask, CancelTask, DismissTaskForTarget, TrashDocument,
      DeleteDocumentState, AppUnchanged, Tick, vars
<1>5. QED
  BY <1>3, <1>4, ExecutionExec DEF Next

\* One row and one execution of it keep the attempt bookkeeping.
AttemptOK(t) ==
  /\ row[t].state = "running" => row[t].token = row[t].attempts
  /\ row[t].state = "succeeded" => row[t].result = row[t].attempts
  /\ \A w \in Worker : exec[w][t].phase # "none" =>
       /\ row[t].state # "absent"
       /\ row[t].state # "gone" => exec[w][t].attempt <= row[t].attempts

\* A step that claims nothing never lowers the attempts of a row that stays.
LEMMA RowAttempts ==
  ASSUME TypeOK, NEW t \in Task, AttemptOK(t), RowStep(t)
  PROVE  /\ row'[t].state = "running" => row'[t].token = row'[t].attempts
         /\ row'[t].state = "succeeded" => row'[t].result = row'[t].attempts
         /\ row[t].state # "absent" =>
              /\ row'[t].state # "absent"
              /\ row'[t].state # "gone" =>
                   row[t].state # "gone" /\ row'[t].attempts = row[t].attempts
<1>1. row[t] \in Row
  BY DEF TypeOK
<1>2. CASE row'[t] = row[t]
  BY <1>1, <1>2 DEF AttemptOK
<1>3. CASE /\ row[t].state = "absent"
           /\ \E delay \in Nat : row'[t] = Queued(Absent, delay, "none")
  BY <1>1, <1>3 DEF Queued, Unleased, Absent
<1>4. CASE /\ row[t].state \in {"queued", "running"}
           /\ row'[t] = Settled(row[t], "canceled")
  BY <1>1, <1>4 DEF Settled, Unleased, Row
<1>5. CASE Present(row[t]) /\ row'[t] = Gone
  BY <1>5 DEF Gone, Absent
<1>6. ASSUME NEW w \in Worker, FencedRow(w, t)
      PROVE  /\ row'[t].state = "running" => row'[t].token = row'[t].attempts
             /\ row'[t].state = "succeeded" => row'[t].result = row'[t].attempts
             /\ row'[t].state \notin {"absent", "gone"}
             /\ row'[t].attempts = row[t].attempts
  <2>1. /\ row[t].state = "running" /\ row[t].token = row[t].attempts
        /\ exec[w][t].attempt = row[t].attempts
    BY <1>6 DEF FencedRow, Owns, Live, AttemptOK
  <2>2. QED
    BY <1>1, <1>6, <2>1 DEF FencedRow, Queued, Failed, Succeeded, Settled, Unleased, Row
<1>7. CASE row'[t] = Aged(row[t])
  BY <1>1, <1>7 DEF Aged, AttemptOK, Row
<1>8. CASE \E w \in Worker : FencedRow(w, t)
  <2>1. row[t].state = "running"
    BY <1>8 DEF FencedRow, Owns, Live
  <2>2. QED
    BY <1>6, <1>8, <2>1
<1>9. QED
  BY <1>2, <1>3, <1>4, <1>5, <1>7, <1>8 DEF RowStep

\* The attempt bookkeeping of claims, settlements and requeues is inductive.
LEMMA AttemptStep ==
  TypeOK /\ AttemptInv /\ [Next]_vars => AttemptInv'
<1> SUFFICES ASSUME TypeOK, AttemptInv, [Next]_vars, NEW t \in Task
             PROVE  AttemptOK(t)'
  BY DEF AttemptInv, AttemptOK
<1>1. AttemptOK(t)
  BY DEF AttemptInv, AttemptOK
<1>2. row[t] \in Row
  BY DEF TypeOK
<1>3. CASE \A w \in Worker : ~ClaimTasks(w)
  <2>1. RowStep(t) /\ \A w \in Worker : ExecStep(w, t)
    BY <1>3, NextRow, NextExec
  <2>2. SUFFICES ASSUME NEW w \in Worker, exec'[w][t].phase # "none"
                 PROVE  /\ row'[t].state # "absent"
                        /\ row'[t].state # "gone" =>
                             exec'[w][t].attempt <= row'[t].attempts
    BY <1>1, <2>1, RowAttempts DEF AttemptOK
  <2>3. exec[w][t].phase # "none" /\ exec'[w][t].attempt = exec[w][t].attempt
    BY <2>1, <2>2 DEF ExecStep, NoExec
  <2>4. QED
    BY <1>1, <2>1, <2>3, RowAttempts DEF AttemptOK
<1>4. ASSUME NEW w \in Worker, ClaimTasks(w) PROVE AttemptOK(t)'
  <2>1. PICK S \in SUBSET Candidates :
          /\ row' = [v \in Task |-> IF v \in S THEN Leased(row[v]) ELSE row[v]]
          /\ exec' = [exec EXCEPT ![w] =
                        [v \in Task |-> IF v \in S
                                        THEN Claimed(row[v].attempts + 1)
                                        ELSE NoExec]]
    BY <1>4 DEF ClaimTasks
  <2>2. /\ exec'[w][t] = IF t \in S THEN Claimed(row[t].attempts + 1) ELSE NoExec
        /\ \A x \in Worker \ {w} : exec'[x][t] = exec[x][t]
    BY <2>1 DEF TypeOK
  <2>3. CASE t \notin S
    BY <1>1, <2>1, <2>2, <2>3 DEF AttemptOK, NoExec
  <2>4. CASE t \in S
    <3>1. row[t].state \in {"queued", "running"}
      BY <2>4 DEF Candidates, Due
    <3>2. /\ row'[t].state = "running"
          /\ row'[t].token = row[t].attempts + 1
          /\ row'[t].attempts = row[t].attempts + 1
      BY <1>2, <2>1, <2>4 DEF Leased, Row
    <3>3. \A x \in Worker : exec[x][t].phase # "none" =>
            exec[x][t].attempt <= row[t].attempts
      BY <1>1, <3>1 DEF AttemptOK
    <3>4. row[t].attempts \in Nat /\ \A x \in Worker : exec[x][t].attempt \in Nat
      BY <1>2 DEF TypeOK, Row, Exec
    <3>5. \A x \in Worker : exec'[x][t].phase # "none" =>
            exec'[x][t].attempt <= row[t].attempts + 1
      <4>1. exec'[w][t].attempt = row[t].attempts + 1
        BY <2>2, <2>4 DEF Claimed
      <4>2. QED
        BY <2>2, <3>3, <3>4, <4>1
    <3>6. QED
      BY <3>2, <3>5 DEF AttemptOK
  <2>5. QED
    BY <2>3, <2>4
<1>5. QED
  BY <1>3, <1>4

\* A claim names a later attempt than every execution of its task, so no two
\* executions share one.
LEMMA RunsStep ==
  TypeOK /\ AttemptInv /\ HandlerRunsAreBounded /\ [Next]_vars
    => HandlerRunsAreBounded'
<1> SUFFICES ASSUME TypeOK, AttemptInv, HandlerRunsAreBounded, [Next]_vars,
                    NEW t \in Task, NEW w \in Worker
             PROVE  /\ exec'[w][t].phase = "handling" => exec'[w][t].attempt <= MaxAttempts
                    /\ \A x \in Worker \ {w} :
                         exec'[w][t].phase # "none" /\ exec'[x][t].phase # "none" =>
                           exec'[w][t].attempt # exec'[x][t].attempt
  BY DEF HandlerRunsAreBounded
<1>1. CASE \A x \in Worker : ~ClaimTasks(x)
  <2>1. \A x \in Worker : ExecStep(x, t)
    BY <1>1, NextExec
  <2>2. \A x \in Worker : exec'[x][t].phase # "none" =>
          exec[x][t].phase # "none" /\ exec'[x][t].attempt = exec[x][t].attempt
    BY <2>1 DEF ExecStep, NoExec
  <2>3. exec'[w][t].phase = "handling" => exec'[w][t].attempt <= MaxAttempts
    BY <2>1, <2>2 DEF ExecStep, NoExec, HandlerRunsAreBounded
  <2>4. QED
    BY <2>2, <2>3 DEF HandlerRunsAreBounded
<1>2. ASSUME NEW y \in Worker, ClaimTasks(y)
      PROVE  /\ exec'[w][t].phase = "handling" => exec'[w][t].attempt <= MaxAttempts
             /\ \A x \in Worker \ {w} :
                  exec'[w][t].phase # "none" /\ exec'[x][t].phase # "none" =>
                    exec'[w][t].attempt # exec'[x][t].attempt
  \* The new attempt is later than that of every execution of the task.
  <2>1. PICK S \in SUBSET Candidates :
          exec' = [exec EXCEPT ![y] =
                     [v \in Task |-> IF v \in S
                                     THEN Claimed(row[v].attempts + 1)
                                     ELSE NoExec]]
    BY <1>2 DEF ClaimTasks
  <2>2. /\ exec'[y][t] = IF t \in S THEN Claimed(row[t].attempts + 1) ELSE NoExec
        /\ \A x \in Worker \ {y} : exec'[x][t] = exec[x][t]
    BY <2>1 DEF TypeOK
  <2>3. exec'[y][t].phase # "handling"
    BY <2>2 DEF Claimed, NoExec
  <2>4. CASE t \notin S
    BY <2>2, <2>3, <2>4 DEF NoExec, HandlerRunsAreBounded
  <2>5. CASE t \in S
    <3>1. row[t].state \in {"queued", "running"}
      BY <2>5 DEF Candidates, Due
    <3>2. row[t].attempts \in Nat /\ \A x \in Worker : exec[x][t].attempt \in Nat
      BY DEF TypeOK, Row, Exec
    <3>3. \A x \in Worker : exec[x][t].phase # "none" =>
            exec[x][t].attempt <= row[t].attempts
      BY <3>1 DEF AttemptInv
    <3>4. exec'[y][t].attempt = row[t].attempts + 1
      BY <2>2, <2>5 DEF Claimed
    <3>5. \A x \in Worker \ {y} : exec'[x][t].phase # "none" =>
            exec'[x][t].attempt # exec'[y][t].attempt
      BY <2>2, <3>2, <3>3, <3>4
    <3>6. QED
      BY <2>2, <2>3, <3>5 DEF HandlerRunsAreBounded
  <2>6. QED
    BY <2>4, <2>5
<1>3. QED
  BY <1>1, <1>2

\* The attempt bookkeeping holds in every reachable state.
LEMMA AttemptsCorrect == Spec => [](AttemptInv /\ HandlerRunsAreBounded)
<1>1. Init => AttemptInv /\ HandlerRunsAreBounded
  BY DEF Init, AttemptInv, HandlerRunsAreBounded, Absent, NoExec
<1>2. QED
  BY <1>1, AttemptStep, RunsStep, TypeCorrect, PTL DEF Spec

\* A handler is started at most MaxAttempts times, each time for another
\* attempt, for any number of workers and any faults.
THEOREM HandlerRuns == Spec => []HandlerRunsAreBounded
BY AttemptsCorrect, PTL

\* The output of a succeeded task is the one of its last attempt.
THEOREM ResultFencing == Spec => []ResultIsOfLastAttempt
<1>1. AttemptInv => ResultIsOfLastAttempt
  BY DEF AttemptInv, ResultIsOfLastAttempt
<1>2. QED
  BY <1>1, AttemptsCorrect, PTL

\* At most one execution of a task, and of a concurrency key, can change its
\* row: keys and attempts together.
THEOREM OwnerExclusion == Spec => []OneOwnerPerKey
<1>1. OneLiveLeasePerKey /\ HandlerRunsAreBounded => OneOwnerPerKey
  <2> SUFFICES ASSUME OneLiveLeasePerKey, HandlerRunsAreBounded,
                      NEW w \in Worker, NEW x \in Worker, NEW t \in Task, NEW u \in Task,
                      t = u \/ SameKey(t, u), Owns(w, t), Owns(x, u)
               PROVE  w = x /\ t = u
    BY DEF OneOwnerPerKey
  <2>1. t = u
    BY DEF OneLiveLeasePerKey, Owns
  <2>2. w = x
    BY <2>1 DEF HandlerRunsAreBounded, Owns
  <2>3. QED
    BY <2>1, <2>2
<1>2. QED
  BY <1>1, KeySafety, HandlerRuns, PTL

-----------------------------------------------------------------------------
(* Attempts and faults.                                                     *)

\* A step of executeTask touches its own execution, its own row, and that row
\* only while it owns it.
LEMMA ExecutionLocal ==
  ASSUME TypeOK, NEW w \in Worker, NEW t \in Task, Execution(w, t)
  PROVE  /\ proc' = proc /\ doc' = doc
         /\ \A x \in Worker, u \in Task :
              x # w \/ u # t => exec'[x][u] = exec[x][u]
         /\ \A u \in Task \ {t} : row'[u] = row[u]
         /\ ~Owns(w, t) => row' = row
<1>1. ASSUME NEW e, exec' = [exec EXCEPT ![w] = [@ EXCEPT ![t] = e]]
      PROVE  \A x \in Worker, u \in Task :
               x # w \/ u # t => exec'[x][u] = exec[x][u]
  BY <1>1 DEF TypeOK
<1>2. ASSUME NEW r, NEW ok, Mutate(w, t, r, ok)
      PROVE  /\ proc' = proc /\ doc' = doc
             /\ \E e : exec' = [exec EXCEPT ![w] = [@ EXCEPT ![t] = e]]
             /\ \A u \in Task \ {t} : row'[u] = row[u]
             /\ ~Owns(w, t) => row' = row
  BY <1>2 DEF Mutate, Return, TypeOK
<1>3. CASE FailUnrunnable(w, t) \/ CompleteTask(w, t) \/ FailTask(w, t) \/ ReleaseTask(w, t)
  <2>1. \E r, ok : Mutate(w, t, r, ok)
    BY <1>3 DEF FailUnrunnable, CompleteTask, FailTask, ReleaseTask
  <2>2. QED
    BY <1>1, <1>2, <2>1
<1>4. CASE StartHandler(w, t) \/ HandlerReturns(w, t)
  <2>1. /\ row' = row /\ proc' = proc /\ doc' = doc
        /\ \E p : exec' = [exec EXCEPT ![w] = [@ EXCEPT ![t].phase = p]]
    BY <1>4 DEF StartHandler, HandlerReturns
  <2>2. \E e : exec' = [exec EXCEPT ![w] = [@ EXCEPT ![t] = e]]
    BY <2>1
  <2>3. QED
    BY <1>1, <2>1, <2>2
<1>5. CASE LeaseLost(w, t) \/ DropUnrunnable(w, t) \/ StoreFails(w, t)
  <2>1. /\ row' = row /\ proc' = proc /\ doc' = doc
        /\ exec' = [exec EXCEPT ![w] = [@ EXCEPT ![t] = NoExec]]
    BY <1>5 DEF LeaseLost, DropUnrunnable, StoreFails, Return
  <2>2. QED
    BY <1>1, <2>1
<1>6. CASE HeartbeatTask(w, t) \/ HeartbeatFails(w, t)
  <2>1. /\ proc' = proc /\ doc' = doc
        /\ \/ exec' = exec
           \/ exec' = [exec EXCEPT ![w] = [@ EXCEPT ![t].beat = FALSE]]
    BY <1>6 DEF HeartbeatTask, HeartbeatFails
  <2>2. exec' = exec \/ \E e : exec' = [exec EXCEPT ![w] = [@ EXCEPT ![t] = e]]
    BY <2>1
  <2>3. /\ \A u \in Task \ {t} : row'[u] = row[u]
        /\ ~Owns(w, t) => row' = row
    BY <1>6 DEF HeartbeatTask, HeartbeatFails, TypeOK
  <2>4. QED
    BY <1>1, <2>1, <2>2, <2>3
<1>7. QED
  BY <1>3, <1>4, <1>5, <1>6 DEF Execution

\* A step that claims nothing keeps the attempts of a row or clears them, and
\* opens no row that was not open.
LEMMA RowBudget ==
  ASSUME TypeOK, NEW t \in Task, RowStep(t)
  PROVE  /\ row'[t].attempts \in {0, row[t].attempts}
         /\ row'[t].state \in {"queued", "running"} =>
              row[t].state \in {"queued", "running"} \/ row'[t].attempts = 0
<1>1. row[t] \in Row
  BY DEF TypeOK
<1>2. CASE row'[t] = row[t]
  BY <1>2
<1>3. CASE \E delay \in Nat : row'[t] = Queued(Absent, delay, "none")
  BY <1>3 DEF Queued, Unleased, Absent
<1>4. CASE row'[t] = Settled(row[t], "canceled")
  BY <1>1, <1>4 DEF Settled, Unleased, Row
<1>5. CASE row'[t] = Gone
  BY <1>5 DEF Gone, Absent
<1>6. CASE \E w \in Worker : FencedRow(w, t)
  <2>1. row[t].state = "running"
    BY <1>6 DEF FencedRow, Owns, Live
  <2>2. row'[t].attempts = row[t].attempts
    BY <1>1, <1>6 DEF FencedRow, Queued, Failed, Succeeded, Settled, Unleased, Row
  <2>3. QED
    BY <2>1, <2>2
<1>7. CASE row'[t] = Aged(row[t])
  BY <1>1, <1>7 DEF Aged, Row
<1>8. QED
  BY <1>2, <1>3, <1>4, <1>5, <1>6, <1>7 DEF RowStep

\* What becomes of a task that a beating worker holds.
HoldStep(w, t) ==
  \/ faults' = faults + 1
  \/ Holds(w, t)'
  \/ row'[t].state \notin {"queued", "running"}
  \/ row'[t].state = "queued" /\ row[t].attempts < MaxAttempts

\* The row, the process and the execution of a held task, left alone, keep it
\* held.
LEMMA HoldFrame ==
  ASSUME TypeOK, NEW w \in Worker, NEW t \in Task, Holds(w, t),
         row'[t] = row[t], proc'[w] = proc[w], exec'[w][t] = exec[w][t]
  PROVE  Holds(w, t)'
BY DEF Holds, Owns, Live

\* The holder's own steps settle the task, requeue it within the budget, or
\* go on holding it.
LEMMA HolderStep ==
  ASSUME TypeOK, AttemptInv, NEW w \in Worker, NEW t \in Task,
         Holds(w, t), Execution(w, t)
  PROVE  HoldStep(w, t)
<1>1. /\ row[t] \in Row /\ exec[w][t] \in Exec
      /\ proc[w] = "up" /\ exec[w][t].beat /\ Owns(w, t)
      /\ exec[w][t].phase # "none" /\ exec[w][t].attempt = row[t].attempts
  BY DEF Holds, Owns, Live, AttemptInv, TypeOK
<1>2. proc' = proc
  BY ExecutionLocal
<1>3. ASSUME NEW r \in Row, NEW ok, Mutate(w, t, r, ok) PROVE row'[t] = r
  BY <1>1, <1>3 DEF Mutate, TypeOK
<1>4. CASE FailUnrunnable(w, t)
  <2>1. \A code \in Code : /\ Failed(row[t], code) \in Row
                           /\ Failed(row[t], code).state = "failed"
    BY <1>1, RowOperators DEF Failed, Settled, Unleased, Row
  <2>2. \E code \in Code : Mutate(w, t, Failed(row[t], code), TRUE)
    BY <1>4 DEF FailUnrunnable, Code
  <2>3. QED
    BY <1>3, <2>1, <2>2 DEF HoldStep
<1>5. CASE CompleteTask(w, t)
  <2>1. /\ Succeeded(row[t], exec[w][t].attempt) \in Row
        /\ Succeeded(row[t], exec[w][t].attempt).state = "succeeded"
    BY <1>1, RowOperators DEF Succeeded, Settled, Unleased, Row, Exec
  <2>2. QED
    BY <1>3, <1>5, <2>1 DEF CompleteTask, HoldStep
<1>6. CASE FailTask(w, t)
  <2> "error" \in Code /\ RetryDelays \subseteq Nat
    BY QueueAssumption DEF Code
  <2>1. /\ Failed(row[t], "error") \in Row
        /\ Failed(row[t], "error").state = "failed"
    <3>1. Failed(row[t], "error") \in Row
      BY <1>1, RowOperators
    <3>2. Failed(row[t], "error").state = "failed"
      BY <1>1 DEF Failed, Settled, Unleased, Row
    <3>3. QED
      BY <3>1, <3>2
  <2>2. \A delay \in RetryDelays :
          /\ Queued(row[t], delay, "error") \in Row
          /\ Queued(row[t], delay, "error").state = "queued"
    <3>1. \A delay \in RetryDelays : Queued(row[t], delay, "error") \in Row
      BY <1>1, RowOperators
    <3>2. \A delay \in RetryDelays : Queued(row[t], delay, "error").state = "queued"
      BY <1>1 DEF Queued, Unleased, Row
    <3>3. QED
      BY <3>1, <3>2
  <2>3. PICK ok \in BOOLEAN :
          \/ /\ exec[w][t].attempt < MaxAttempts
             /\ \E delay \in RetryDelays :
                  Mutate(w, t, Queued(row[t], delay, "error"), ok)
          \/ Mutate(w, t, Failed(row[t], "error"), ok)
    BY <1>6 DEF FailTask
  <2>4. CASE Mutate(w, t, Failed(row[t], "error"), ok)
    BY <1>3, <2>1, <2>4 DEF HoldStep
  <2>5. CASE /\ exec[w][t].attempt < MaxAttempts
             /\ \E delay \in RetryDelays :
                  Mutate(w, t, Queued(row[t], delay, "error"), ok)
    <3>1. row'[t].state = "queued"
      BY <1>3, <2>2, <2>5
    <3>2. QED
      BY <1>1, <2>5, <3>1 DEF HoldStep
  <2>6. QED
    BY <2>3, <2>4, <2>5
<1>7. CASE ReleaseTask(w, t) \/ DropUnrunnable(w, t) \/ LeaseLost(w, t)
  BY <1>1, <1>7 DEF ReleaseTask, DropUnrunnable, LeaseLost
<1>8. CASE StartHandler(w, t) \/ HandlerReturns(w, t)
  <2>1. /\ row' = row
        /\ \E p \in Phase \ {"none"} :
             exec' = [exec EXCEPT ![w] = [@ EXCEPT ![t].phase = p]]
    BY <1>8 DEF StartHandler, HandlerReturns, Phase, Outcome
  <2>2. PICK p \in Phase \ {"none"} :
          exec' = [exec EXCEPT ![w] = [@ EXCEPT ![t].phase = p]]
    BY <2>1
  <2>3. exec'[w][t] = [exec[w][t] EXCEPT !.phase = p]
    BY <2>2 DEF TypeOK
  <2>4. /\ exec'[w][t].phase # "none" /\ exec'[w][t].attempt = exec[w][t].attempt
        /\ exec'[w][t].beat = exec[w][t].beat
    BY <1>1, <2>3 DEF Exec
  <2>5. Holds(w, t)'
    BY <1>1, <1>2, <2>1, <2>4 DEF Holds, Owns, Live
  <2>6. QED
    BY <2>5 DEF HoldStep
<1>9. CASE HeartbeatTask(w, t)
  <2>1. row' = [row EXCEPT ![t].lease = LeaseDuration] /\ exec' = exec
    BY <1>1, <1>9 DEF HeartbeatTask
  <2>2. row'[t].state = row[t].state /\ row'[t].token = row[t].token /\ row'[t].lease > 0
    BY <1>1, <2>1, QueueAssumption DEF TypeOK, Row
  <2>3. Holds(w, t)'
    BY <1>1, <1>2, <2>1, <2>2 DEF Holds, Owns, Live
  <2>4. QED
    BY <2>3 DEF HoldStep
<1>10. CASE StoreFails(w, t) \/ HeartbeatFails(w, t)
  BY <1>10 DEF StoreFails, HeartbeatFails, Fault, HoldStep
<1>11. QED
  BY <1>4, <1>5, <1>6, <1>7, <1>8, <1>9, <1>10 DEF Execution

\* A held task stays held by the worker that beats for it, unless that worker
\* settles or requeues it, the application takes it away, or a fault happens.
LEMMA OwnerKeeps ==
  ASSUME TypeOK, AttemptInv, HandlerRunsAreBounded, PaidInv, [Next]_vars,
         NEW w \in Worker, NEW t \in Task, Holds(w, t)
  PROVE  HoldStep(w, t)
<1>1. /\ row[t] \in Row /\ exec[w][t] \in Exec
      /\ proc[w] = "up" /\ exec[w][t].beat /\ Owns(w, t)
      /\ exec[w][t].phase # "none" /\ row[t].state = "running" /\ row[t].lease > 0
  BY DEF Holds, Owns, Live, TypeOK
<1>2. CASE Application
  <2>1. UNCHANGED <<proc, exec>>
    BY <1>2 DEF Application, EnqueueTask, CancelTask, DismissTaskForTarget,
            TrashDocument, DeleteDocumentState, AppUnchanged
  <2>2. ASSUME NEW u \in Task, EnqueueTask(u) PROVE row'[t] = row[t]
    <3>1. u # t
      BY <1>1, <2>2 DEF EnqueueTask
    <3>2. QED
      BY <2>2, <3>1 DEF EnqueueTask, TypeOK
  <2>3. ASSUME NEW u \in Task, CancelTask(u)
        PROVE  row'[t] = row[t] \/ row'[t].state = "canceled"
    BY <1>1, <2>3 DEF CancelTask, Settled, Unleased, TypeOK, Row
  <2>4. ASSUME NEW u \in Task, DismissTaskForTarget(u)
        PROVE  row'[t] = row[t] \/ row'[t].state = "gone"
    BY <2>4 DEF DismissTaskForTarget, Gone, Absent, TypeOK
  <2>5. ASSUME NEW d \in Doc, TrashDocument(d) \/ DeleteDocumentState(d)
        PROVE  row'[t] = row[t] \/ row'[t].state = "gone"
    BY <2>5 DEF TrashDocument, DeleteDocumentState, Gone, Absent
  <2>6. row'[t] = row[t] \/ row'[t].state \notin {"queued", "running"}
    BY <1>2, <2>2, <2>3, <2>4, <2>5 DEF Application
  <2>7. QED
    BY <2>1, <2>6, HoldFrame DEF HoldStep
<1>3. ASSUME NEW x \in Worker, ClaimTasks(x) PROVE HoldStep(w, t)
  \* The holder is in a batch, so another worker claims, and not this task.
  <2>1. x # w
    BY <1>1, <1>3 DEF ClaimTasks, PaidInv, BatchDone
  <2>2. PICK S \in SUBSET Candidates :
          /\ row' = [v \in Task |-> IF v \in S THEN Leased(row[v]) ELSE row[v]]
          /\ exec' = [exec EXCEPT ![x] =
                        [v \in Task |-> IF v \in S
                                        THEN Claimed(row[v].attempts + 1)
                                        ELSE NoExec]]
    BY <1>3 DEF ClaimTasks
  <2>3. t \notin S
    BY <1>1 DEF Candidates, Due
  <2>4. row'[t] = row[t] /\ exec'[w][t] = exec[w][t] /\ proc' = proc
    BY <1>3, <2>1, <2>2, <2>3 DEF ClaimTasks, TypeOK
  <2>5. QED
    BY <2>4, HoldFrame DEF HoldStep
<1>4. ASSUME NEW x \in Worker, PruneTasks(x) \/ SkipPrune(x) PROVE HoldStep(w, t)
  <2>1. row'[t] = row[t] /\ exec' = exec /\ proc' = proc
    BY <1>1, <1>4 DEF PruneTasks, SkipPrune, Prunable, Terminal
  <2>2. QED
    BY <2>1, HoldFrame DEF HoldStep
<1>5. ASSUME NEW x \in Worker, Pause(x) \/ Crash(x) \/ Shutdown(x)
      PROVE  HoldStep(w, t)
  BY <1>5 DEF Pause, Crash, Shutdown, Fault, HoldStep
<1>6. ASSUME NEW x \in Worker, Resume(x) \/ Exit(x) \/ Restart(x)
      PROVE  HoldStep(w, t)
  <2>1. x # w
    BY <1>1, <1>6 DEF Resume, Exit, Restart
  <2>2. row' = row /\ exec'[w][t] = exec[w][t] /\ proc'[w] = proc[w]
    BY <1>6, <2>1 DEF Resume, Exit, Restart, Stop, TypeOK
  <2>3. QED
    BY <2>2, HoldFrame DEF HoldStep
<1>7. ASSUME NEW x \in Worker, NEW u \in Task, Execution(x, u) PROVE HoldStep(w, t)
  <2>1. CASE x = w /\ u = t
    BY <1>7, <2>1, HolderStep
  <2>2. CASE x # w \/ u # t
    <3>1. exec'[w][t] = exec[w][t] /\ proc' = proc
      BY <1>7, <2>2, ExecutionLocal
    <3>2. u = t => ~Owns(x, u)
      BY <1>1, <2>2 DEF Owns, HandlerRunsAreBounded
    <3>3. row'[t] = row[t]
      BY <1>7, <3>2, ExecutionLocal
    <3>4. QED
      BY <3>1, <3>3, HoldFrame DEF HoldStep
  <2>3. QED
    BY <2>1, <2>2
<1>8. CASE Tick
  \* The lease is beaten for in time: it is not the tick that ends it.
  <2>1. row[t].lease > 1
    BY <1>1, <1>8 DEF Tick, Timely
  <2>2. row'[t] = Aged(row[t]) /\ exec' = exec /\ proc' = proc
    BY <1>8 DEF Tick
  <2>3. row'[t].state = row[t].state /\ row'[t].token = row[t].token /\ row'[t].lease > 0
    BY <1>1, <2>1, <2>2 DEF Aged, Dec, Row
  <2>4. Holds(w, t)'
    BY <1>1, <2>2, <2>3 DEF Holds, Owns, Live
  <2>5. QED
    BY <2>4 DEF HoldStep
<1>9. CASE UNCHANGED vars
  BY <1>9, HoldFrame DEF vars, HoldStep
<1>10. QED
  BY <1>2, <1>3, <1>4, <1>5, <1>6, <1>7, <1>8, <1>9 DEF Next, Process

\* No step forgets a fault.
LEMMA FaultsGrow ==
  ASSUME TypeOK, [Next]_vars
  PROVE  faults' \in {faults, faults + 1}
<1>1. ASSUME NEW x \in Worker, NEW u \in Task, Execution(x, u)
      PROVE  faults' \in {faults, faults + 1}
  BY <1>1 DEF Execution, FailUnrunnable, StartHandler, HandlerReturns, HeartbeatTask,
     LeaseLost, CompleteTask, FailTask, ReleaseTask, DropUnrunnable, StoreFails,
     HeartbeatFails, Mutate, Fault
<1>2. ASSUME NEW x \in Worker, Process(x) PROVE faults' \in {faults, faults + 1}
  BY <1>2 DEF Process, ClaimTasks, PruneTasks, SkipPrune, Pause, Resume, Crash,
     Shutdown, Exit, Restart, Fault
<1>3. CASE Application \/ Tick \/ UNCHANGED vars
  BY <1>3 DEF Application, EnqueueTask, CancelTask, DismissTaskForTarget,
     TrashDocument, DeleteDocumentState, AppUnchanged, Tick, vars
<1>4. QED
  BY <1>1, <1>2, <1>3 DEF Next

\* A worker is idle only when its batch is done.
LEMMA IdleStep ==
  ASSUME TypeOK, [Next]_vars, NEW w \in Worker,
         cycle[w] = "idle" => BatchDone(w), cycle'[w] = "idle"
  PROVE  BatchDone(w)'
<1>1. ASSUME NEW x \in Worker, NEW u \in Task, Execution(x, u) PROVE BatchDone(w)'
  <2>1. cycle'[w] = cycle[w] \/ (x = w /\ cycle'[w] = "erred")
    BY <1>1 DEF Execution, FailUnrunnable, StartHandler, HandlerReturns, HeartbeatTask,
       LeaseLost, CompleteTask, FailTask, ReleaseTask, DropUnrunnable, StoreFails,
       HeartbeatFails, Mutate, Return, TypeOK
  <2>2. BatchDone(w)
    BY <2>1
  <2>3. exec[x][u].phase # "none"
    BY <1>1 DEF Execution, FailUnrunnable, StartHandler, HandlerReturns, HeartbeatTask,
       LeaseLost, CompleteTask, FailTask, ReleaseTask, DropUnrunnable, StoreFails,
       HeartbeatFails, Beating, Settling, Outcome
  <2>4. x # w
    BY <2>2, <2>3 DEF BatchDone
  <2>5. QED
    BY <1>1, <2>2, <2>4, ExecutionLocal DEF BatchDone
<1>2. ASSUME NEW x \in Worker, ClaimTasks(x) PROVE BatchDone(w)'
  <2>1. x # w
    BY <1>2 DEF ClaimTasks, TypeOK
  <2>2. \A t \in Task : exec'[w][t] = exec[w][t]
    BY <1>2, <2>1 DEF ClaimTasks, TypeOK
  <2>3. cycle'[w] = cycle[w]
    BY <1>2, <2>1 DEF ClaimTasks, TypeOK
  <2>4. QED
    BY <2>2, <2>3 DEF BatchDone
<1>3. ASSUME NEW x \in Worker, PruneTasks(x) \/ SkipPrune(x) PROVE BatchDone(w)'
  BY <1>3 DEF PruneTasks, SkipPrune, BatchDone, TypeOK
<1>4. ASSUME NEW x \in Worker, Stop(x) PROVE BatchDone(w)'
  BY <1>4 DEF Stop, BatchDone, NoExec, TypeOK
<1>5. CASE UNCHANGED <<cycle, exec>>
  BY <1>5 DEF BatchDone
<1>6. ASSUME NEW x \in Worker, Process(x) PROVE BatchDone(w)'
  BY <1>2, <1>3, <1>4, <1>5, <1>6
  DEF Process, Pause, Resume, Crash, Shutdown, Exit, Restart
<1>7. CASE Application \/ Tick \/ UNCHANGED vars
  BY <1>5, <1>7 DEF Application, EnqueueTask, CancelTask, DismissTaskForTarget,
     TrashDocument, DeleteDocumentState, AppUnchanged, Tick, vars
<1>8. QED
  BY <1>1, <1>6, <1>7 DEF Next

\* The accounting of attempts against faults is inductive.
LEMMA PaidStep ==
  TypeOK /\ AttemptInv /\ HandlerRunsAreBounded /\ PaidInv /\ [Next]_vars => PaidInv'
<1> SUFFICES ASSUME TypeOK, AttemptInv, HandlerRunsAreBounded, PaidInv, [Next]_vars
             PROVE  PaidInv'
  OBVIOUS
<1>1. faults \in Nat /\ faults' \in Nat /\ faults <= faults' /\ MaxAttempts \in Nat \ {0}
  BY FaultsGrow, QueueAssumption DEF TypeOK
<1>2. ASSUME NEW t \in Task
      PROVE  /\ row'[t].attempts <= MaxAttempts + faults'
             /\ row'[t].state \in {"queued", "running"} =>
                  \/ row'[t].attempts < MaxAttempts + faults'
                  \/ \E w \in Worker : Holds(w, t)'
  <2>1. /\ row[t].attempts \in Nat /\ row[t].attempts <= MaxAttempts + faults
        /\ row[t] \in Row
    BY DEF PaidInv, AttemptsArePaidFor, TypeOK, Row
  <2>2. CASE \A w \in Worker : ~ClaimTasks(w)
    <3>1. RowStep(t)
      BY <2>2, NextRow
    <3>2. row'[t].attempts \in {0, row[t].attempts}
      BY <3>1, RowBudget
    <3>3. row'[t].attempts <= MaxAttempts + faults'
      BY <1>1, <2>1, <3>2
    <3>4. SUFFICES ASSUME row'[t].state \in {"queued", "running"},
                          row'[t].attempts # 0
                   PROVE  \/ row'[t].attempts < MaxAttempts + faults'
                          \/ \E w \in Worker : Holds(w, t)'
      BY <1>1, <3>3
    <3>5. row[t].state \in {"queued", "running"} /\ row'[t].attempts = row[t].attempts
      BY <3>1, <3>2, <3>4, RowBudget
    <3>6. CASE row[t].attempts < MaxAttempts + faults
      BY <1>1, <2>1, <3>5, <3>6
    <3>7. ASSUME NEW w \in Worker, Holds(w, t)
          PROVE  row'[t].attempts < MaxAttempts + faults' \/ Holds(w, t)'
      <4>1. HoldStep(w, t)
        BY <3>7, OwnerKeeps
      <4>2. CASE faults' = faults + 1
        BY <1>1, <2>1, <3>5, <4>2
      <4>3. CASE row[t].attempts < MaxAttempts
        BY <1>1, <2>1, <3>5, <4>3
      <4>4. QED
        BY <3>4, <4>1, <4>2, <4>3 DEF HoldStep
    <3>8. QED
      BY <3>5, <3>6, <3>7 DEF PaidInv
  <2>3. ASSUME NEW x \in Worker, ClaimTasks(x)
        PROVE  /\ row'[t].attempts <= MaxAttempts + faults'
               /\ row'[t].state \in {"queued", "running"} =>
                    \/ row'[t].attempts < MaxAttempts + faults'
                    \/ \E w \in Worker : Holds(w, t)'
    <3>1. PICK S \in SUBSET Candidates :
            /\ row' = [v \in Task |-> IF v \in S THEN Leased(row[v]) ELSE row[v]]
            /\ exec' = [exec EXCEPT ![x] =
                          [v \in Task |-> IF v \in S
                                          THEN Claimed(row[v].attempts + 1)
                                          ELSE NoExec]]
      BY <2>3 DEF ClaimTasks
    <3>2. CASE t \notin S
      <4>1. row'[t] = row[t]
        BY <3>1, <3>2
      <4>2. CASE row[t].attempts < MaxAttempts + faults
        BY <1>1, <2>1, <4>1, <4>2
      <4>3. ASSUME NEW w \in Worker, Holds(w, t),
                   row'[t].state \in {"queued", "running"}
            PROVE  row'[t].attempts < MaxAttempts + faults' \/ Holds(w, t)'
        <5>1. HoldStep(w, t)
          BY <4>3, OwnerKeeps
        <5>2. row[t].state # "queued"
          BY <4>3 DEF Holds, Owns, Live
        <5>3. CASE faults' = faults + 1
          BY <1>1, <2>1, <4>1, <5>3
        <5>4. QED
          BY <4>1, <4>3, <5>1, <5>2, <5>3 DEF HoldStep
      <4>4. QED
        BY <1>1, <2>1, <4>1, <4>2, <4>3 DEF PaidInv
    <3>3. CASE t \in S
      \* A claimed row was held by nobody, so its next attempt is paid for.
      <4>1. Due(row[t])
        BY <3>3 DEF Candidates
      <4>2. row[t].state \in {"queued", "running"} /\ ~Live(row[t])
        BY <4>1 DEF Due, Live
      <4>3. row[t].attempts < MaxAttempts + faults
        BY <4>2 DEF PaidInv, Holds, Owns
      <4>4. row'[t] = Leased(row[t])
        BY <3>1, <3>3
      <4>5. /\ row'[t].state = "running" /\ row'[t].attempts = row[t].attempts + 1
            /\ row'[t].token = row[t].attempts + 1 /\ row'[t].lease > 0
        BY <2>1, <4>4, QueueAssumption DEF Leased, Row
      <4>6. exec'[x][t] = Claimed(row[t].attempts + 1)
        BY <3>1, <3>3 DEF TypeOK
      <4>7. proc'[x] = "up"
        BY <2>3 DEF ClaimTasks
      <4>8. Holds(x, t)'
        BY <4>5, <4>6, <4>7 DEF Holds, Owns, Live, Claimed
      <4>9. QED
        BY <1>1, <2>1, <4>3, <4>5, <4>8
    <3>4. QED
      BY <3>2, <3>3
  <2>4. QED
    BY <2>2, <2>3
<1>3. ASSUME NEW w \in Worker, cycle'[w] = "idle" PROVE BatchDone(w)'
  BY <1>3, IdleStep DEF PaidInv
<1>4. QED
  BY <1>2, <1>3 DEF PaidInv, AttemptsArePaidFor

\* Retries alone never exceed the budget: every claim beyond MaxAttempts is
\* paid for by a crash, a pause, a shutdown or a failed store call, for any
\* number of workers and tasks.
THEOREM AttemptBudget == Spec => []AttemptsArePaidFor
<1>1. Init => PaidInv
  BY QueueAssumption DEF Init, PaidInv, AttemptsArePaidFor, Absent, BatchDone, NoExec
<1>2. PaidInv => AttemptsArePaidFor
  BY DEF PaidInv
<1>3. QED
  BY <1>1, <1>2, PaidStep, AttemptsCorrect, TypeCorrect, PTL DEF Spec

-----------------------------------------------------------------------------
(* Tasks and documents.                                                     *)

\* A row that is there after a step was there before, unless EnqueueTask has
\* just inserted it; a claim replaces rows that are there.
LEMMA PresentStep ==
  ASSUME TypeOK, [Next]_vars, NEW t \in Task, Present(row'[t]), ~EnqueueTask(t)
  PROVE  Present(row[t])
<1>1. row[t] \in Row
  BY DEF TypeOK
<1>2. ASSUME NEW w \in Worker, ClaimTasks(w) PROVE Present(row[t])
  <2>1. PICK S \in SUBSET Candidates :
          row' = [v \in Task |-> IF v \in S THEN Leased(row[v]) ELSE row[v]]
    BY <1>2 DEF ClaimTasks
  <2>2. CASE t \in S
    BY <2>2 DEF Candidates, Due, Present
  <2>3. CASE t \notin S
    BY <2>1, <2>3
  <2>4. QED
    BY <2>2, <2>3
<1>3. CASE row[t].state = "absent" /\ \E u \in Task : EnqueueTask(u)
  BY <1>3 DEF EnqueueTask, Present, TypeOK
<1>4. ASSUME row[t].state = "gone", RowStep(t) PROVE FALSE
  <2>1. ~Present(row[t]) /\ \A w \in Worker : ~FencedRow(w, t)
    BY <1>4 DEF Present, FencedRow, Owns, Live
  <2>2. Aged(row[t]).state = row[t].state
    BY <1>1 DEF Aged, Row
  <2>3. QED
    BY <1>4, <2>1, <2>2 DEF RowStep, Present
<1>5. ASSUME \A w \in Worker : ~ClaimTasks(w), ~\E u \in Task : EnqueueTask(u)
      PROVE  row[t].state # "absent"
  \* Of the actions that insert nothing none brings a row that is not there.
  <2>1. SUFFICES ASSUME row[t].state = "absent" PROVE FALSE
    OBVIOUS
  <2>2. ASSUME NEW w \in Worker, NEW u \in Task, Execution(w, u) PROVE row'[t] = row[t]
    <3>1. u = t => ~Owns(w, u)
      BY <2>1 DEF Owns, Live
    <3>2. QED
      BY <2>2, <3>1, ExecutionLocal
  <2>3. ASSUME NEW w \in Worker, Process(w) PROVE row'[t] = row[t]
    BY <1>5, <2>1, <2>3 DEF Process, PruneTasks, Prunable, Terminal, SkipPrune, Pause,
       Resume, Crash, Shutdown, Exit, Restart, Stop
  <2>4. CASE Application
    <3>1. row'[t] = row[t]
      BY <1>5, <2>1, <2>4 DEF Application, CancelTask, DismissTaskForTarget,
         TrashDocument, DeleteDocumentState, Present, TypeOK
    <3>2. QED
      BY <2>1, <3>1 DEF Present
  <2>5. CASE Tick
    <3>1. row'[t].state = row[t].state
      BY <1>1, <2>5 DEF Tick, Aged, Row
    <3>2. QED
      BY <2>1, <3>1 DEF Present
  <2>6. QED
    BY <2>1, <2>2, <2>3, <2>4, <2>5 DEF Next, vars, Present
<1>6. QED
  BY <1>2, <1>3, <1>4, <1>5, NextRow DEF Present

\* A document goes only by DeleteDocumentState.
LEMMA DocStep ==
  ASSUME TypeOK, [Next]_vars, NEW d \in Doc, doc'[d] = "gone", doc[d] # "gone"
  PROVE  DeleteDocumentState(d)
<1>1. ASSUME NEW w \in Worker, NEW t \in Task, Execution(w, t) PROVE doc' = doc
  BY <1>1, ExecutionLocal
<1>2. ASSUME NEW w \in Worker, Process(w) PROVE doc' = doc
  BY <1>2 DEF Process, ClaimTasks, PruneTasks, SkipPrune, Pause, Resume, Crash,
     Shutdown, Exit, Restart
<1>3. CASE Application
  BY <1>3 DEF Application, EnqueueTask, CancelTask, DismissTaskForTarget,
     TrashDocument, DeleteDocumentState, AppUnchanged, TypeOK
<1>4. QED
  BY <1>1, <1>2, <1>3 DEF Next, Tick, vars

\* An enqueue against the deletion of the document it refers to, and against
\* every other step, leaves no row whose document is gone.
LEMMA OrphanStep == TypeOK /\ NoOrphanTask /\ [Next]_vars => NoOrphanTask'
<1> SUFFICES ASSUME TypeOK, NoOrphanTask, [Next]_vars,
                    NEW t \in Task, Present(row'[t]), NEW d \in RefsOf(t),
                    doc'[d] = "gone"
             PROVE  FALSE
  BY DEF NoOrphanTask, RefsOf
<1>1. d \in Doc
  BY QueueAssumption DEF RefsOf
<1>2. CASE EnqueueTask(t)
  BY <1>2 DEF EnqueueTask, AppUnchanged
<1>3. CASE ~EnqueueTask(t)
  <2>1. Present(row[t])
    BY <1>3, PresentStep
  <2>2. doc[d] # "gone"
    BY <2>1 DEF NoOrphanTask
  <2>3. DeleteDocumentState(d)
    BY <1>1, <2>2, DocStep
  <2>4. row'[t] = Gone
    BY <2>1, <2>3 DEF DeleteDocumentState
  <2>5. QED
    BY <2>4 DEF Gone, Absent, Present
<1>4. QED
  BY <1>2, <1>3

\* No row of ridu_tasks refers to a document that is gone, for any documents
\* and any tasks that refer to them.
THEOREM NoOrphans == Spec => []NoOrphanTask
<1>1. Init => NoOrphanTask
  BY DEF Init, NoOrphanTask, Present, Absent
<1>2. QED
  BY <1>1, OrphanStep, TypeCorrect, PTL DEF Spec

-----------------------------------------------------------------------------
(* The implementation of TaskContract.                                      *)

\* What the contract sees of one row.
StatusOf(r) == IF r.state \in {"queued", "running"} THEN "open" ELSE r.state
OwnerOf(r) == IF Live(r) THEN r.token ELSE 0

\* r and s look the same to the contract, but for the owner.
SameButOwner(r, s) ==
  StatusOf(r) = StatusOf(s) /\ r.attempts = s.attempts /\ r.result = s.result

SameImage(r, s) == SameButOwner(r, s) /\ OwnerOf(r) = OwnerOf(s)

\* Each step of the contract, from what it does to the image of every row.
LEMMA StutterRows ==
  ASSUME \A t \in Task : SameImage(row'[t], row[t])
  PROVE  UNCHANGED Contract!vars
BY DEF Contract!vars, SameImage, SameButOwner, StatusOf, OwnerOf

\* EnqueueTask, seen by the contract: a row that was absent is open.
LEMMA SubmitRow ==
  ASSUME NEW t \in Task, StatusOf(row[t]) = "absent",
         \A u \in Task \ {t} : SameImage(row'[u], row[u]),
         StatusOf(row'[t]) = "open", OwnerOf(row'[t]) = OwnerOf(row[t]),
         row'[t].attempts = row[t].attempts, row'[t].result = row[t].result
  PROVE  Contract!Submit(t)
BY DEF Contract!Submit, SameImage, SameButOwner, StatusOf, OwnerOf

\* ClaimTasks: open rows that nobody owns are owned by their next attempt.
LEMMA GrantRows ==
  ASSUME NEW S \in SUBSET Task,
         \A t \in S : StatusOf(row[t]) = "open" /\ OwnerOf(row[t]) = 0,
         \A t \in S, u \in Task : SameKey(t, u) => OwnerOf(row[u]) = 0,
         \A t, u \in S : SameKey(t, u) => t = u,
         \A u \in Task \ S : row'[u] = row[u],
         \A t \in S : /\ StatusOf(row'[t]) = "open"
                      /\ row'[t].attempts = row[t].attempts + 1
                      /\ OwnerOf(row'[t]) = row[t].attempts + 1
                      /\ row'[t].result = row[t].result
  PROVE  Contract!Grant(S)
BY DEF Contract!Grant, Contract!SameKey, SameKey, StatusOf, OwnerOf

\* An expiry, a release or a retry: rows lose their owner and nothing else.
LEMMA LapseRows ==
  ASSUME NEW S \in SUBSET Task,
         \A u \in Task : SameButOwner(row'[u], row[u]),
         \A u \in Task : OwnerOf(row'[u]) = IF u \in S THEN 0 ELSE OwnerOf(row[u])
  PROVE  Contract!Lapse(S)
BY DEF Contract!Lapse, SameButOwner, StatusOf, OwnerOf

\* CompleteTask: the owner's attempt is the result.
LEMMA SucceedRow ==
  ASSUME NEW t \in Task, OwnerOf(row[t]) # 0,
         \A u \in Task \ {t} : SameImage(row'[u], row[u]),
         StatusOf(row'[t]) = "succeeded", OwnerOf(row'[t]) = 0,
         row'[t].attempts = row[t].attempts, row'[t].result = OwnerOf(row[t])
  PROVE  Contract!Succeed(t)
BY DEF Contract!Succeed, Contract!Disown, SameImage, SameButOwner, StatusOf, OwnerOf

\* A dead letter: the owner gives the task up for good.
LEMMA FailRow ==
  ASSUME NEW t \in Task, OwnerOf(row[t]) # 0,
         \A u \in Task \ {t} : SameImage(row'[u], row[u]),
         StatusOf(row'[t]) = "failed", OwnerOf(row'[t]) = 0,
         row'[t].attempts = row[t].attempts, row'[t].result = row[t].result
  PROVE  Contract!Fail(t)
BY DEF Contract!Fail, Contract!Disown, SameImage, SameButOwner, StatusOf, OwnerOf

\* CancelTask: an open row is canceled, owned or not.
LEMMA CancelRow ==
  ASSUME NEW t \in Task, StatusOf(row[t]) = "open",
         \A u \in Task \ {t} : SameImage(row'[u], row[u]),
         StatusOf(row'[t]) = "canceled", OwnerOf(row'[t]) = 0,
         row'[t].attempts = row[t].attempts, row'[t].result = row[t].result
  PROVE  Contract!Cancel(t)
BY DEF Contract!Cancel, Contract!Disown, SameImage, SameButOwner, StatusOf, OwnerOf

\* Rows that exist are deleted: dismissed, pruned, or with their document.
LEMMA RemoveRows ==
  ASSUME NEW S \in SUBSET Task,
         \A t \in S : StatusOf(row[t]) # "absent" /\ row'[t] = Gone,
         \A u \in Task \ S : row'[u] = row[u]
  PROVE  Contract!Remove(S)
BY DEF Contract!Remove, Gone, Absent, Live, StatusOf, OwnerOf

\* What the mapping needs besides the attempt bookkeeping: a row that was
\* never inserted counts no attempt, and a lease is that of an attempt.
ImageInv ==
  \A t \in Task :
    /\ row[t].state = "absent" => row[t].attempts = 0 /\ row[t].result = 0
    /\ row[t].state = "running" => row[t].attempts # 0

\* No step makes a lease without an attempt, or an attempt without a row.
LEMMA ImageStep == TypeOK /\ AttemptInv /\ ImageInv /\ [Next]_vars => ImageInv'
<1> SUFFICES ASSUME TypeOK, AttemptInv, ImageInv, [Next]_vars, NEW t \in Task
             PROVE  /\ row'[t].state = "absent" =>
                         row'[t].attempts = 0 /\ row'[t].result = 0
                    /\ row'[t].state = "running" => row'[t].attempts # 0
  BY DEF ImageInv
<1>1. /\ row[t] \in Row
      /\ row[t].state = "absent" => row[t].attempts = 0 /\ row[t].result = 0
      /\ row[t].state = "running" => row[t].attempts # 0
  BY DEF ImageInv, TypeOK
<1>2. CASE \A w \in Worker : ~ClaimTasks(w)
  <2>1. RowStep(t)
    BY <1>2, NextRow
  <2>2. CASE row'[t] = row[t] \/ row'[t] = Aged(row[t])
    BY <1>1, <2>2 DEF Aged, Row
  <2>3. CASE \E delay \in Nat : row'[t] = Queued(Absent, delay, "none")
    BY <2>3 DEF Queued, Unleased, Absent
  <2>4. CASE row'[t] = Settled(row[t], "canceled") \/ row'[t] = Gone
    BY <1>1, <2>4 DEF Settled, Unleased, Gone, Absent, Row
  <2>5. CASE \E w \in Worker : FencedRow(w, t)
    <3>1. row[t].state = "running"
      BY <2>5 DEF FencedRow, Owns, Live
    <3>2. row'[t].state # "absent" /\ row'[t].attempts = row[t].attempts
      BY <1>1, <2>5, <3>1 DEF FencedRow, Queued, Failed, Succeeded, Settled, Unleased, Row
    <3>3. QED
      BY <1>1, <3>1, <3>2
  <2>6. QED
    BY <2>1, <2>2, <2>3, <2>4, <2>5 DEF RowStep
<1>3. ASSUME NEW w \in Worker, ClaimTasks(w)
      PROVE  /\ row'[t].state = "absent" => row'[t].attempts = 0 /\ row'[t].result = 0
             /\ row'[t].state = "running" => row'[t].attempts # 0
  <2>1. row'[t] = row[t] \/ row'[t] = Leased(row[t])
    BY <1>3 DEF ClaimTasks
  <2>2. Leased(row[t]).state = "running" /\ Leased(row[t]).attempts = row[t].attempts + 1
    BY <1>1 DEF Leased, Row
  <2>3. row[t].attempts + 1 # 0
    BY <1>1 DEF Row
  <2>4. QED
    BY <1>1, <2>1, <2>2, <2>3
<1>4. QED
  BY <1>2, <1>3

\* An application call is a step of the contract or changes nothing of it.
LEMMA ApplicationImage ==
  TypeOK /\ AttemptInv /\ ImageInv /\ Application => [Contract!Next]_(Contract!vars)
<1> SUFFICES ASSUME TypeOK, AttemptInv, ImageInv, Application
             PROVE  Contract!Next \/ UNCHANGED Contract!vars
  OBVIOUS
<1>1. ASSUME NEW t \in Task, EnqueueTask(t) PROVE Contract!Submit(t)
  <2>1. row[t].state = "absent" /\ row[t].attempts = 0 /\ row[t].result = 0
    BY <1>1 DEF EnqueueTask, ImageInv
  <2>2. PICK delay \in StartDelays : row' = [row EXCEPT ![t] = Queued(Absent, delay, "none")]
    BY <1>1 DEF EnqueueTask
  <2>3. /\ row'[t].state = "queued" /\ row'[t].attempts = 0 /\ row'[t].result = 0
        /\ \A u \in Task \ {t} : row'[u] = row[u]
    BY <2>2 DEF Queued, Unleased, Absent, TypeOK
  <2>4. QED
    BY <2>1, <2>3, SubmitRow DEF SameImage, SameButOwner, StatusOf, OwnerOf, Live
<1>2. ASSUME NEW t \in Task, CancelTask(t) PROVE Contract!Cancel(t)
  <2>1. row[t] \in Row /\ row[t].state \in {"queued", "running"}
    BY <1>2 DEF CancelTask, TypeOK
  <2>2. row'[t] = Settled(row[t], "canceled") /\ \A u \in Task \ {t} : row'[u] = row[u]
    BY <1>2 DEF CancelTask, TypeOK
  <2>3. /\ row'[t].state = "canceled" /\ row'[t].attempts = row[t].attempts
        /\ row'[t].result = row[t].result
    BY <2>1, <2>2 DEF Settled, Unleased, Row
  <2>4. QED
    BY <2>1, <2>2, <2>3, CancelRow DEF SameImage, SameButOwner, StatusOf, OwnerOf, Live
<1>3. ASSUME NEW t \in Task, DismissTaskForTarget(t) PROVE Contract!Remove({t})
  <2>1. row'[t] = Gone /\ \A u \in Task \ {t} : row'[u] = row[u]
    BY <1>3 DEF DismissTaskForTarget, TypeOK
  <2>2. StatusOf(row[t]) # "absent"
    BY <1>3 DEF DismissTaskForTarget, StatusOf
  <2>3. QED
    BY <2>1, <2>2, RemoveRows
<1>4. ASSUME NEW d \in Doc, TrashDocument(d) PROVE UNCHANGED Contract!vars
  BY <1>4, StutterRows DEF TrashDocument, SameImage, SameButOwner
<1>5. ASSUME NEW d \in Doc, DeleteDocumentState(d)
      PROVE  \E S \in SUBSET Task : Contract!Remove(S)
  <2> DEFINE S == {t \in Task : Present(row[t]) /\ d \in RefsOf(t)}
  <2>1. /\ \A t \in S : row'[t] = Gone
        /\ \A u \in Task \ S : row'[u] = row[u]
    BY <1>5 DEF DeleteDocumentState
  <2>2. \A t \in S : StatusOf(row[t]) # "absent"
    BY DEF Present, StatusOf
  <2>3. S \in SUBSET Task
    OBVIOUS
  <2> HIDE DEF S
  <2>4. QED
    BY <2>1, <2>2, <2>3, RemoveRows
<1>6. QED
  BY <1>1, <1>2, <1>3, <1>4, <1>5 DEF Application, Contract!Next

\* A fenced mutation is a step of the contract by the attempt that owns the
\* task; one that finds another owner changes nothing.
LEMMA ExecutionImage ==
  ASSUME TypeOK, AttemptInv, ImageInv, NEW w \in Worker, NEW t \in Task,
         Execution(w, t)
  PROVE  Contract!Next \/ UNCHANGED Contract!vars
<1>1. CASE row'[t] = row[t]
  BY <1>1, ExecutionLocal, StutterRows DEF SameImage, SameButOwner
<1>2. CASE row'[t] # row[t]
  <2>1. /\ Owns(w, t)
        /\ \A u \in Task \ {t} : row'[u] = row[u] /\ SameImage(row'[u], row[u])
    BY <1>2, ExecutionLocal DEF SameImage, SameButOwner
  <2>2. FencedRow(w, t)
    BY <1>2, ExecutionFences
  <2>3. /\ row[t] \in Row /\ row[t].state = "running" /\ row[t].lease > 0
        /\ row[t].token = row[t].attempts /\ row[t].attempts # 0
        /\ exec[w][t].attempt = row[t].token
        /\ OwnerOf(row[t]) = row[t].token /\ StatusOf(row[t]) = "open"
    BY <2>1 DEF Owns, Live, OwnerOf, StatusOf, AttemptInv, ImageInv, TypeOK
  <2>4. CASE \E delay \in Nat, code \in Code : row'[t] = Queued(row[t], delay, code)
    <3>1. /\ row'[t].state = "queued" /\ row'[t].attempts = row[t].attempts
          /\ row'[t].result = row[t].result
      BY <2>3, <2>4 DEF Queued, Unleased, Row
    <3>2. SameButOwner(row'[t], row[t]) /\ OwnerOf(row'[t]) = 0
      BY <2>3, <3>1 DEF SameButOwner, StatusOf, OwnerOf, Live
    <3>3. Contract!Lapse({t})
      BY <2>1, <3>2, LapseRows DEF SameImage
    <3>4. QED
      BY <3>3 DEF Contract!Next
  <2>5. CASE \E code \in Code : row'[t] = Failed(row[t], code)
    <3>1. /\ row'[t].state = "failed" /\ row'[t].attempts = row[t].attempts
          /\ row'[t].result = row[t].result
      BY <2>3, <2>5 DEF Failed, Settled, Unleased, Row
    <3>2. Contract!Fail(t)
      BY <2>1, <2>3, <3>1, FailRow DEF StatusOf, OwnerOf, Live
    <3>3. QED
      BY <3>2 DEF Contract!Next
  <2>6. CASE row'[t] = Succeeded(row[t], exec[w][t].attempt)
    <3>1. /\ row'[t].state = "succeeded" /\ row'[t].attempts = row[t].attempts
          /\ row'[t].result = exec[w][t].attempt
      BY <2>3, <2>6 DEF Succeeded, Settled, Unleased, Row
    <3>2. Contract!Succeed(t)
      BY <2>1, <2>3, <3>1, SucceedRow DEF StatusOf, OwnerOf, Live
    <3>3. QED
      BY <3>2 DEF Contract!Next
  <2>7. CASE row'[t] = [row[t] EXCEPT !.lease = LeaseDuration]
    <3>1. /\ row'[t].state = row[t].state /\ row'[t].attempts = row[t].attempts
          /\ row'[t].result = row[t].result /\ row'[t].token = row[t].token
          /\ row'[t].lease > 0
      BY <2>3, <2>7, QueueAssumption DEF Row
    <3>2. SameImage(row'[t], row[t])
      BY <2>3, <3>1 DEF SameImage, SameButOwner, StatusOf, OwnerOf, Live
    <3>3. QED
      BY <2>1, <3>2, StutterRows
  <2>8. QED
    BY <2>2, <2>4, <2>5, <2>6, <2>7 DEF FencedRow
<1>3. QED
  BY <1>1, <1>2

\* A claim grants tasks that nobody owns, one of each key; a prune removes
\* settled tasks; the rest of a worker's life is not seen.
LEMMA ProcessImage ==
  ASSUME TypeOK, AttemptInv, ImageInv, NEW w \in Worker, Process(w)
  PROVE  Contract!Next \/ UNCHANGED Contract!vars
<1>1. CASE ClaimTasks(w)
  <2>1. PICK S \in SUBSET Candidates :
          /\ \A t, u \in S : SameKey(t, u) => t = u
          /\ row' = [t \in Task |-> IF t \in S THEN Leased(row[t]) ELSE row[t]]
    BY <1>1 DEF ClaimTasks
  <2>2. S \in SUBSET Task /\ \A u \in Task \ S : row'[u] = row[u]
    BY <2>1 DEF Candidates
  <2>3. ASSUME NEW t \in S
        PROVE  /\ StatusOf(row[t]) = "open" /\ OwnerOf(row[t]) = 0
               /\ \A u \in Task : SameKey(t, u) => OwnerOf(row[u]) = 0
    <3>1. Due(row[t]) /\ \A u \in Task \ {t} : SameKey(t, u) => ~Live(row[u])
      BY <2>1 DEF Candidates
    <3>2. StatusOf(row[t]) = "open" /\ ~Live(row[t])
      BY <3>1 DEF Due, StatusOf, Live
    <3>3. QED
      BY <3>1, <3>2 DEF OwnerOf
  <2>4. ASSUME NEW t \in S
        PROVE  /\ StatusOf(row'[t]) = "open"
               /\ row'[t].attempts = row[t].attempts + 1
               /\ OwnerOf(row'[t]) = row[t].attempts + 1
               /\ row'[t].result = row[t].result
    <3>1. row'[t] = Leased(row[t]) /\ row[t] \in Row
      BY <2>1, <2>2 DEF TypeOK
    <3>2. /\ row'[t].state = "running" /\ row'[t].attempts = row[t].attempts + 1
          /\ row'[t].token = row[t].attempts + 1 /\ row'[t].lease > 0
          /\ row'[t].result = row[t].result
      BY <3>1, QueueAssumption DEF Leased, Row
    <3>3. QED
      BY <3>2 DEF StatusOf, OwnerOf, Live
  <2>5. Contract!Grant(S)
    BY <2>1, <2>2, <2>3, <2>4, GrantRows
  <2>6. QED
    BY <2>2, <2>5 DEF Contract!Next
<1>2. CASE PruneTasks(w)
  <2>1. PICK S \in SUBSET Prunable :
          row' = [t \in Task |-> IF t \in S THEN Gone ELSE row[t]]
    BY <1>2 DEF PruneTasks
  <2>2. /\ S \in SUBSET Task
        /\ \A u \in Task \ S : row'[u] = row[u]
        /\ \A t \in S : StatusOf(row[t]) # "absent" /\ row'[t] = Gone
    BY <2>1 DEF Prunable, Terminal, StatusOf
  <2>3. Contract!Remove(S)
    BY <2>2, RemoveRows
  <2>4. QED
    BY <2>2, <2>3 DEF Contract!Next
<1>3. CASE row' = row
  BY <1>3, StutterRows DEF SameImage, SameButOwner
<1>4. QED
  BY <1>1, <1>2, <1>3
  DEF Process, SkipPrune, Pause, Resume, Crash, Shutdown, Exit, Restart, Stop

\* Time only ends ownership.
LEMMA TickImage ==
  ASSUME TypeOK, Tick
  PROVE  Contract!Next
<1>1. PICK S \in SUBSET Task : \A u \in Task : u \in S <=> ~Live(row'[u])
  <2>1. {u \in Task : ~Live(row'[u])} \in SUBSET Task
    OBVIOUS
  <2>2. QED
    BY <2>1
<1>2. ASSUME NEW u \in Task
      PROVE  /\ SameButOwner(row'[u], row[u])
             /\ OwnerOf(row'[u]) = IF u \in S THEN 0 ELSE OwnerOf(row[u])
  <2>1. row'[u] = Aged(row[u]) /\ row[u] \in Row
    BY DEF Tick, TypeOK
  <2>2. /\ row'[u].state = row[u].state /\ row'[u].attempts = row[u].attempts
        /\ row'[u].result = row[u].result /\ row'[u].token = row[u].token
        /\ row'[u].lease > 0 => row[u].lease > 0
    BY <2>1 DEF Aged, Dec, Row
  <2>3. QED
    BY <1>1, <2>2 DEF SameButOwner, StatusOf, OwnerOf, Live
<1>3. Contract!Lapse(S)
  BY <1>2, LapseRows
<1>4. QED
  BY <1>3 DEF Contract!Next

\* The queue, with leases, tokens, workers that crash, pause and drain, and
\* time, implements the contract of TaskStore: a task is granted to one
\* attempt at a time, one task of a key at a time, and only the attempt that
\* owns it settles it, once.
THEOREM QueueRefinesContract == Spec => ImplementsContract
<1>1. Init => Contract!Init
  BY DEF Init, Absent, Live, Contract!Init, Contract!Zero
<1>2. Init => ImageInv
  BY DEF Init, ImageInv, Absent
<1>3. Spec => []ImageInv
  BY <1>2, ImageStep, TypeCorrect, AttemptsCorrect, PTL DEF Spec
<1>4. TypeOK /\ AttemptInv /\ ImageInv /\ [Next]_vars => [Contract!Next]_(Contract!vars)
  <2> SUFFICES ASSUME TypeOK, AttemptInv, ImageInv, [Next]_vars
               PROVE  Contract!Next \/ UNCHANGED Contract!vars
    OBVIOUS
  <2>1. CASE UNCHANGED vars
    BY <2>1, StutterRows DEF vars, SameImage, SameButOwner
  <2>2. QED
    BY <2>1, ApplicationImage, ExecutionImage, ProcessImage, TickImage DEF Next
<1>5. QED
  BY <1>1, <1>3, <1>4, TypeCorrect, AttemptsCorrect, PTL
  DEF Spec, ImplementsContract, Contract!Spec
=============================================================================
