----------------------- MODULE PostgresTaskClaimProofs -----------------------
(* Theorems about PostgresTaskClaim, for any number of rows, workers,        *)
(* attempts and keys and every length of the lease.                          *)
EXTENDS PostgresTaskClaim, TLAPS

-----------------------------------------------------------------------------
(* Types.                                                                   *)

\* The rows that are in hand are rows of the table.
LEMMA InHandTasks ==
  ASSUME TypeOK, NEW c \in Claimer
  PROVE  /\ tx[c] \in Tx /\ tx[c].start \in Nat
         /\ Tried(c) \subseteq Task
         /\ tx[c].found \subseteq Task /\ tx[c].locked \subseteq Task
         /\ tx[c].claimed \subseteq Task
BY ClaimAssumption DEF TypeOK, Tx, Tried, Time

\* A transaction that is over is typed.
LEMMA IdleType == Idle \in Tx /\ NoExec \in Exec
BY ClaimAssumption DEF Idle, Tx, NoExec, Exec, Time

\* Releasing locks keeps their type.
LEMMA UnlockType ==
  ASSUME TypeOK, NEW owner, lock' = Unlock(owner)
  PROVE  lock' \in [Task -> {Free} \cup Claimer \cup (Task \X Attempt)]
BY DEF TypeOK, Unlock

\* The application writes rows.
LEMMA ApplicationType ==
  ASSUME TypeOK, NEW t \in Task, EnqueueTask(t) \/ CancelTask(t)
  PROVE  TypeOK'
<1>1. row[t] \in Row
  BY DEF TypeOK
<1>2. \A time \in Int, created \in Time :
        [row[t] EXCEPT !.state = "queued", !.runAt = time, !.created = created] \in Row
  BY <1>1 DEF Row
<1>3. [row[t] EXCEPT !.state = "settled", !.expires = 0] \in Row
  <2>1. 0 \in Deadline
    BY ClaimAssumption DEF Deadline
  <2>2. \A e \in Deadline : [row[t] EXCEPT !.state = "settled", !.expires = e] \in Row
    BY <1>1 DEF Row
  <2>3. QED
    BY <2>1, <2>2
<1>4. row' \in [Task -> Row]
  <2>1. CASE EnqueueTask(t)
    <3>1. PICK time \in StartTimes :
            row' = [row EXCEPT ![t] = [@ EXCEPT !.state = "queued", !.runAt = time,
                                                  !.created = now]]
      BY <2>1 DEF EnqueueTask
    <3>2. time \in Int /\ now \in Time
      BY ClaimAssumption DEF TypeOK
    <3>3. QED
      BY <1>2, <3>1, <3>2 DEF TypeOK
  <2>2. CASE CancelTask(t)
    BY <1>3, <2>2 DEF CancelTask, TypeOK
  <2>3. QED
    BY <2>1, <2>2
<1>5. QED
  BY <1>4 DEF EnqueueTask, CancelTask, TypeOK

\* What a statement of a claim leaves of the transactions: one new record.
LEMMA TxUpdate ==
  ASSUME TypeOK, NEW c \in Claimer, NEW x \in Tx, tx' = [tx EXCEPT ![c] = x]
  PROVE  /\ tx' \in [Claimer -> Tx]
         /\ tx'[c] = x /\ \A d \in Claimer \ {c} : tx'[d] = tx[d]
BY DEF TypeOK

\* The record of a claim that has ranked rows.
Selected(start, found) ==
  [phase |-> "selected", start |-> start, found |-> found, locked |-> {},
   task |-> NoTask, keys |-> {}, claimed |-> {}]

\* The record of a claim that has locked the free rows it ranked.
Locking(x, free) == [x EXCEPT !.phase = "claiming", !.found = {}, !.locked = free]

\* The record of a claim that tries a row, of one that passes it over, and of
\* one that has checked it.
Trying(x, t) ==
  [x EXCEPT !.locked = @ \ {t}, !.task = t, !.phase = "checking",
            !.keys = (@ \cup {KeyOf[t]}) \ {NoKey}]

Passing(x, t) == [x EXCEPT !.locked = @ \ {t}]

Checked(x, claimed) ==
  [x EXCEPT !.phase = "claiming", !.task = NoTask, !.claimed = claimed]

\* The statements of a claim in terms of these records.
LEMMA ClaimRecords ==
  ASSUME TypeOK, NEW c \in Claimer
  PROVE  /\ Select(c) => \E start \in 0 .. now :
              tx' = [tx EXCEPT ![c] = Selected(start, First(Eligible(start)))]
         /\ LockRows(c) =>
              tx' = [tx EXCEPT ![c] =
                       Locking(tx[c], {t \in tx[c].found : lock[t] = Free})]
         /\ TryKey(c) => \E t \in tx[c].locked :
              \/ tx' = [tx EXCEPT ![c] = Passing(tx[c], t)]
              \/ /\ tx' = [tx EXCEPT ![c] = Trying(tx[c], t)]
                 /\ \A d \in Claimer \ {c} : KeyOf[t] \notin tx[d].keys
         /\ CheckKey(c) =>
              \/ tx' = [tx EXCEPT ![c] = Checked(tx[c], tx[c].claimed)]
              \/ /\ tx' = [tx EXCEPT ![c] =
                             Checked(tx[c], tx[c].claimed \cup {tx[c].task})]
                 /\ ~Occupied(c) /\ Due(row[tx[c].task], tx[c].start)
<1>1. tx[c] \in Tx
  BY DEF TypeOK
<1>2. Select(c) => \E start \in 0 .. now :
        tx' = [tx EXCEPT ![c] = Selected(start, First(Eligible(start)))]
  BY DEF Select, Selected, Idle
<1>3. LockRows(c) =>
        tx' = [tx EXCEPT ![c] = Locking(tx[c], {t \in tx[c].found : lock[t] = Free})]
  BY <1>1 DEF LockRows, Locking, TypeOK, Tx
<1>4. ASSUME TryKey(c)
      PROVE  \E t \in tx[c].locked :
               \/ tx' = [tx EXCEPT ![c] = Passing(tx[c], t)]
               \/ /\ tx' = [tx EXCEPT ![c] = Trying(tx[c], t)]
                  /\ \A d \in Claimer \ {c} : KeyOf[t] \notin tx[d].keys
  <2>1. PICK t \in tx[c].locked :
          IF \E d \in Claimer \ {c} : KeyOf[t] \in tx[d].keys
          THEN tx' = [tx EXCEPT ![c] = Passing(tx[c], t)]
          ELSE tx' = [tx EXCEPT ![c] = Trying(tx[c], t)]
    BY <1>1, <1>4 DEF TryKey, Passing, Trying, TypeOK, Tx
  <2>2. CASE \E d \in Claimer \ {c} : KeyOf[t] \in tx[d].keys
    BY <2>1, <2>2
  <2>3. CASE ~\E d \in Claimer \ {c} : KeyOf[t] \in tx[d].keys
    BY <2>1, <2>3
  <2>4. QED
    BY <2>2, <2>3
<1>5. ASSUME CheckKey(c)
      PROVE  \/ tx' = [tx EXCEPT ![c] = Checked(tx[c], tx[c].claimed)]
             \/ /\ tx' = [tx EXCEPT ![c] =
                            Checked(tx[c], tx[c].claimed \cup {tx[c].task})]
                /\ ~Occupied(c) /\ Due(row[tx[c].task], tx[c].start)
  <2> DEFINE lapsed == {t \in {tx[c].task} : ~Occupied(c) /\ Due(row[t], tx[c].start)}
  <2>1. tx' = [tx EXCEPT ![c] = Checked(tx[c], tx[c].claimed \cup lapsed)]
    BY <1>1, <1>5 DEF CheckKey, Checked, TypeOK, Tx
  <2>2. CASE ~Occupied(c) /\ Due(row[tx[c].task], tx[c].start)
    <3>1. lapsed = {tx[c].task}
      BY <2>2
    <3>2. QED
      BY <2>1, <2>2, <3>1
  <2>3. CASE ~(~Occupied(c) /\ Due(row[tx[c].task], tx[c].start))
    <3>1. tx[c].claimed \cup lapsed = tx[c].claimed
      BY <2>3
    <3>2. QED
      BY <2>1, <3>1
  <2>4. QED
    BY <2>2, <2>3
<1>6. QED
  BY <1>2, <1>3, <1>4, <1>5

\* These records are typed.
LEMMA RecordTypes ==
  ASSUME TypeOK, NEW x \in Tx
  PROVE  /\ \A start \in Time, E \in SUBSET Task : Selected(start, E) \in Tx
         /\ \A free \in SUBSET Task : Locking(x, free) \in Tx
         /\ \A t \in Task : Trying(x, t) \in Tx /\ Passing(x, t) \in Tx
         /\ \A E \in SUBSET Task : Checked(x, E) \in Tx
<1>1. \A start \in Time, E \in SUBSET Task : Selected(start, E) \in Tx
  BY DEF Selected, Tx
<1>2. \A free \in SUBSET Task : Locking(x, free) \in Tx
  BY DEF Locking, Tx
<1>3. ASSUME NEW t \in Task PROVE Trying(x, t) \in Tx /\ Passing(x, t) \in Tx
  <2>1. /\ x.locked \ {t} \in SUBSET Task
        /\ (x.keys \cup {KeyOf[t]}) \ {NoKey} \in SUBSET {KeyOf[u] : u \in Task}
    BY DEF Tx
  <2>2. \A l \in SUBSET Task, k \in SUBSET {KeyOf[u] : u \in Task} :
          /\ [x EXCEPT !.locked = l, !.task = t, !.phase = "checking", !.keys = k] \in Tx
          /\ [x EXCEPT !.locked = l] \in Tx
    BY DEF Tx
  <2>3. QED
    BY <2>1, <2>2 DEF Trying, Passing
<1>4. \A E \in SUBSET Task : Checked(x, E) \in Tx
  BY DEF Checked, Tx
<1>5. QED
  BY <1>1, <1>2, <1>3, <1>4

\* The statements of a claim before its commit keep the types.
LEMMA StatementType ==
  ASSUME TypeOK, LockInv, NEW c \in Claimer,
         Select(c) \/ LockRows(c) \/ TryKey(c) \/ CheckKey(c)
  PROVE  TypeOK'
<1>1. tx[c] \in Tx /\ tx[c].found \subseteq Task /\ tx[c].locked \subseteq Task
      /\ tx[c].claimed \subseteq Task
  BY InHandTasks
<1>2. \E x \in Tx : tx' = [tx EXCEPT ![c] = x]
  <2>1. CASE Select(c)
    <3>1. PICK start \in 0 .. now :
            tx' = [tx EXCEPT ![c] = Selected(start, First(Eligible(start)))]
      BY <2>1, ClaimRecords
    <3>2. start \in Time /\ First(Eligible(start)) \in SUBSET Task
      <4>1. start \in Time
        BY ClaimAssumption DEF TypeOK, Time
      <4>2. First(Eligible(start)) \subseteq Task
        BY DEF First, Eligible
      <4>3. QED
        BY <4>1, <4>2
    <3>3. QED
      BY <1>1, <3>1, <3>2, RecordTypes
  <2>2. CASE LockRows(c)
    <3>1. {t \in tx[c].found : lock[t] = Free} \in SUBSET Task
      BY <1>1
    <3>2. QED
      BY <1>1, <2>2, <3>1, ClaimRecords, RecordTypes
  <2>3. CASE TryKey(c)
    BY <1>1, <2>3, ClaimRecords, RecordTypes
  <2>4. CASE CheckKey(c)
    <3>1. tx[c].task \in Task
      BY <1>1, <2>4 DEF CheckKey, LockInv, Tx
    <3>2. tx[c].claimed \cup {tx[c].task} \in SUBSET Task
      BY <1>1, <3>1
    <3>3. QED
      BY <1>1, <2>4, <3>2, ClaimRecords, RecordTypes
  <2>5. QED
    BY <2>1, <2>2, <2>3, <2>4
<1>3. tx' \in [Claimer -> Tx]
  BY <1>2, TxUpdate
<1>4. lock' \in [Task -> {Free} \cup Claimer \cup (Task \X Attempt)]
  <2>1. CASE LockRows(c)
    BY <2>1 DEF LockRows, TypeOK
  <2>2. CASE lock' = lock
    BY <2>2 DEF TypeOK
  <2>3. QED
    BY <2>1, <2>2 DEF Select, TryKey, CheckKey
<1>5. QED
  BY <1>3, <1>4 DEF Select, LockRows, TryKey, CheckKey, TypeOK

\* A committed claim leases rows for a further attempt.
LEMMA CommitType ==
  ASSUME TypeOK, NEW c \in Claimer, Commit(c) \/ Rollback(c)
  PROVE  TypeOK'
<1>1. tx' \in [Claimer -> Tx]
  BY IdleType, TxUpdate DEF Commit, Rollback
<1>2. lock' \in [Task -> {Free} \cup Claimer \cup (Task \X Attempt)]
  BY UnlockType DEF Commit, Rollback
<1>3. CASE Rollback(c)
  BY <1>1, <1>2, <1>3 DEF Rollback, TypeOK
<1>4. CASE Commit(c)
  <2>1. tx[c].start \in Time /\ tx[c].claimed \subseteq Task
    BY DEF TypeOK, Tx
  <2>2. ASSUME NEW t \in tx[c].claimed
        PROVE  /\ [row[t] EXCEPT !.state = "running", !.attempts = @ + 1,
                                 !.expires = tx[c].start + LeaseDuration] \in Row
               /\ row[t].attempts + 1 \in Attempt
    <3>1. row[t] \in Row /\ row[t].attempts \in 0 .. MaxAttempts
          /\ row[t].attempts < MaxAttempts
      BY <1>4, <2>1, <2>2 DEF Commit, TypeOK, Row
    <3>2. row[t].attempts + 1 \in 1 .. MaxAttempts
      BY <3>1, ClaimAssumption
    <3>3. tx[c].start + LeaseDuration \in Deadline
      BY <2>1, ClaimAssumption DEF Time, Deadline
    <3>4. \A a \in 0 .. MaxAttempts, e \in Deadline :
            [row[t] EXCEPT !.state = "running", !.attempts = a, !.expires = e] \in Row
      BY <3>1 DEF Row
    <3>5. row[t].attempts + 1 \in 0 .. MaxAttempts
      BY <3>2
    <3>6. QED
      BY <3>2, <3>3, <3>4, <3>5 DEF Attempt
  <2>3. row' \in [Task -> Row]
    BY <1>4, <2>2 DEF Commit, TypeOK
  <2>4. [NoExec EXCEPT !.phase = "running", !.start = now] \in Exec
    BY IdleType DEF Exec, TypeOK
  <2>5. exec' \in [Task -> [Attempt -> Exec]]
    BY <1>4, <2>4 DEF Commit, TypeOK
  <2>6. late' \in [Task -> BOOLEAN]
    BY <1>4 DEF Commit, TypeOK
  <2>7. QED
    BY <1>1, <1>2, <1>4, <2>3, <2>5, <2>6 DEF Commit, TypeOK
<1>5. QED
  BY <1>3, <1>4

\* The row an execution writes is typed.
LEMMA WrittenType ==
  ASSUME TypeOK, NEW t \in Task, NEW a \in Attempt
  PROVE  Written(t, a) \in Row
<1>1. row[t] \in Row /\ exec[t][a] \in Exec
  BY DEF TypeOK
<1>2. exec[t][a].start + LeaseDuration \in Deadline /\ 0 \in Deadline
      /\ exec[t][a].start \in Int
  BY <1>1, ClaimAssumption DEF Exec, Time, Deadline
<1>3. \A e \in Deadline, i \in Int :
        /\ [row[t] EXCEPT !.expires = e] \in Row
        /\ [row[t] EXCEPT !.state = "settled", !.expires = e] \in Row
        /\ [row[t] EXCEPT !.state = "queued", !.expires = e, !.runAt = i] \in Row
  BY <1>1 DEF Row
<1>4. exec[t][a].does \in {"heartbeat", "settle", "requeue"}
  BY <1>1 DEF Exec
<1>5. QED
  BY <1>2, <1>3, <1>4 DEF Written

\* The transactions of one UPDATE keep the types.
LEMMA WriteType ==
  ASSUME TypeOK, NEW t \in Task, NEW a \in Attempt,
         \/ \E does \in {"heartbeat", "settle", "requeue"} : Write(t, a, does)
         \/ CommitWrite(t, a) \/ LeaseLost(t, a) \/ Die(t, a)
  PROVE  TypeOK'
<1>1. exec[t][a] \in Exec /\ NoExec \in Exec
  BY IdleType DEF TypeOK
<1>2. ASSUME NEW does \in {"heartbeat", "settle", "requeue"}, Write(t, a, does)
      PROVE  TypeOK'
  <2>1. PICK start \in exec[t][a].start .. now :
          exec' = [exec EXCEPT ![t][a] =
                     [phase |-> "written", start |-> start, does |-> does]]
    BY <1>2 DEF Write
  <2>2. start \in Time
    BY <1>1, ClaimAssumption DEF Exec, Time, TypeOK
  <2>3. [phase |-> "written", start |-> start, does |-> does] \in Exec
    BY <2>2 DEF Exec
  <2>4. exec' \in [Task -> [Attempt -> Exec]]
    BY <2>1, <2>3 DEF TypeOK
  <2>5. lock' \in [Task -> {Free} \cup Claimer \cup (Task \X Attempt)]
    BY <1>2 DEF Write, TypeOK
  <2>6. QED
    BY <1>2, <2>4, <2>5 DEF Write, TypeOK
<1>3. CASE CommitWrite(t, a)
  <2>1. [exec[t][a] EXCEPT !.phase = "running"] \in Exec
    BY <1>1 DEF Exec
  <2>2. exec' \in [Task -> [Attempt -> Exec]]
    BY <1>1, <1>3, <2>1 DEF CommitWrite, TypeOK
  <2>3. row' \in [Task -> Row]
    BY <1>3, WrittenType DEF CommitWrite, TypeOK
  <2>4. late' \in [Task -> BOOLEAN]
    BY <1>3 DEF CommitWrite, TypeOK
  <2>5. QED
    BY <1>3, <2>2, <2>3, <2>4, UnlockType DEF CommitWrite, TypeOK
<1>4. CASE LeaseLost(t, a)
  BY <1>1, <1>4 DEF LeaseLost, TypeOK
<1>5. CASE Die(t, a)
  BY <1>1, <1>5, UnlockType DEF Die, TypeOK
<1>6. QED
  BY <1>2, <1>3, <1>4, <1>5

\* Every step keeps the types, given that a claim checks a row it has taken up.
LEMMA TypeStep == TypeOK /\ LockInv /\ [Next]_vars => TypeOK'
<1> SUFFICES ASSUME TypeOK, LockInv, [Next]_vars PROVE TypeOK'
  OBVIOUS
<1>1. CASE Tick
  BY <1>1, ClaimAssumption DEF Tick, TypeOK, Time
<1>2. CASE UNCHANGED vars
  BY <1>2 DEF vars, TypeOK
<1>3. QED
  BY <1>1, <1>2, ApplicationType, StatementType, CommitType, WriteType
     DEF Next, Claiming

-----------------------------------------------------------------------------
(* Row locks.                                                               *)

\* The rows a claim's record has in hand, and those it has ranked as well.
InHand(x) == x.locked \cup ({x.task} \ {NoTask}) \cup x.claimed

AllHand(x) == x.found \cup InHand(x)

\* What the records of a claim have in hand: nothing after the select, what it
\* has just locked, and from then on no row it had not in hand before.
LEMMA SelectedHands ==
  ASSUME NEW start \in Time, NEW E \in SUBSET Task, NEW y, y = Selected(start, E)
  PROVE  /\ y.start = start /\ y.found = E /\ InHand(y) = {} /\ y.keys = {}
         /\ y.locked = {} /\ y.task = NoTask /\ y.claimed = {}
         /\ y.phase = "selected"
BY DEF Selected, InHand

\* The record of a claim that has locked rows.
LEMMA LockingHands ==
  ASSUME NEW x \in Tx, NEW free \in SUBSET Task, NEW y, y = Locking(x, free)
  PROVE  /\ InHand(y) \subseteq InHand(x) \cup free /\ y.found = {}
         /\ y.keys = x.keys /\ y.task = x.task /\ y.claimed = x.claimed
         /\ y.start = x.start /\ y.phase = "claiming"
BY DEF Locking, InHand, Tx

\* The record of a claim that has passed over a row.
LEMMA PassingHands ==
  ASSUME NEW x \in Tx, NEW t \in x.locked, NEW y, y = Passing(x, t)
  PROVE  /\ InHand(y) \subseteq InHand(x) /\ y.found = x.found
         /\ y.keys = x.keys /\ y.task = x.task /\ y.claimed = x.claimed
         /\ y.start = x.start /\ y.phase = x.phase
BY DEF Passing, InHand, Tx

\* The record of a claim that tries a row.
LEMMA TryingHands ==
  ASSUME NEW x \in Tx, NEW t \in x.locked, NEW y, y = Trying(x, t)
  PROVE  /\ InHand(y) \subseteq InHand(x) /\ y.found = x.found
         /\ y.keys = (x.keys \cup {KeyOf[t]}) \ {NoKey}
         /\ y.task = t /\ y.claimed = x.claimed /\ y.start = x.start
BY DEF Trying, InHand, Tx

\* The record of a claim that has checked a row.
LEMMA CheckedHands ==
  ASSUME NEW x \in Tx, NEW E \in SUBSET Task, NEW y, y = Checked(x, E)
  PROVE  /\ y.locked = x.locked /\ y.found = x.found /\ y.keys = x.keys
         /\ y.task = NoTask /\ y.claimed = E /\ y.start = x.start
         /\ y.phase = "claiming"
BY DEF Checked, Tx

\* The statements of a claim, one record at a time: what the record of the
\* claim becomes.
LEMMA StatementRecord ==
  ASSUME TypeOK, LockInv, NEW c \in Claimer
  PROVE  /\ Select(c) => \E start \in Time :
              /\ start <= now
              /\ tx'[c] = Selected(start, First(Eligible(start)))
              /\ First(Eligible(start)) \in SUBSET Task
         /\ LockRows(c) =>
              /\ tx'[c] = Locking(tx[c], {t \in tx[c].found : lock[t] = Free})
              /\ {t \in tx[c].found : lock[t] = Free} \in SUBSET Task
         /\ TryKey(c) => \E t \in tx[c].locked :
              /\ t \in Task
              /\ \/ tx'[c] = Passing(tx[c], t)
                 \/ /\ tx'[c] = Trying(tx[c], t)
                    /\ \A d \in Claimer \ {c} : KeyOf[t] \notin tx[d].keys
         /\ CheckKey(c) =>
              /\ tx[c].task \in Task /\ tx[c].task \in Tried(c)
              /\ \/ tx'[c] = Checked(tx[c], tx[c].claimed)
                 \/ /\ tx'[c] = Checked(tx[c], tx[c].claimed \cup {tx[c].task})
                    /\ ~Occupied(c) /\ Due(row[tx[c].task], tx[c].start)
         /\ Select(c) \/ LockRows(c) \/ TryKey(c) \/ CheckKey(c) =>
              \A d \in Claimer \ {c} : tx'[d] = tx[d]
<1>1. tx \in [Claimer -> Tx] /\ tx[c].found \subseteq Task /\ tx[c].locked \subseteq Task
  BY InHandTasks DEF TypeOK
<1>2. ASSUME Select(c)
      PROVE  \E start \in Time :
               /\ start <= now
               /\ tx' = [tx EXCEPT ![c] = Selected(start, First(Eligible(start)))]
               /\ First(Eligible(start)) \in SUBSET Task
  <2>1. PICK start \in 0 .. now :
          tx' = [tx EXCEPT ![c] = Selected(start, First(Eligible(start)))]
    BY <1>2, ClaimRecords
  <2>2. start \in Time /\ start <= now
    BY ClaimAssumption DEF TypeOK, Time
  <2>3. First(Eligible(start)) \subseteq Task
    BY DEF First, Eligible
  <2>4. QED
    BY <2>1, <2>2, <2>3
<1>3. CheckKey(c) => tx[c].task \in Task /\ tx[c].task \in Tried(c)
  BY <1>1 DEF CheckKey, LockInv, Tx, Tried
<1>4. LockRows(c) => {t \in tx[c].found : lock[t] = Free} \in SUBSET Task
  BY <1>1
<1>5. \A x : tx' = [tx EXCEPT ![c] = x] =>
        tx'[c] = x /\ \A d \in Claimer \ {c} : tx'[d] = tx[d]
  BY <1>1
<1>6. Select(c) \/ LockRows(c) \/ TryKey(c) \/ CheckKey(c) =>
        \E x : tx' = [tx EXCEPT ![c] = x]
  BY <1>2, ClaimRecords
<1>7. ASSUME TryKey(c)
      PROVE  \E t \in tx[c].locked :
               /\ t \in Task
               /\ \/ tx'[c] = Passing(tx[c], t)
                  \/ /\ tx'[c] = Trying(tx[c], t)
                     /\ \A d \in Claimer \ {c} : KeyOf[t] \notin tx[d].keys
  <2>1. PICK t \in tx[c].locked :
          \/ tx' = [tx EXCEPT ![c] = Passing(tx[c], t)]
          \/ /\ tx' = [tx EXCEPT ![c] = Trying(tx[c], t)]
             /\ \A d \in Claimer \ {c} : KeyOf[t] \notin tx[d].keys
    BY <1>7, ClaimRecords
  <2>2. QED
    BY <1>1, <1>5, <2>1
<1>8. LockRows(c) =>
        tx'[c] = Locking(tx[c], {t \in tx[c].found : lock[t] = Free})
  BY <1>5, ClaimRecords
<1>9. CheckKey(c) =>
        \/ tx'[c] = Checked(tx[c], tx[c].claimed)
        \/ /\ tx'[c] = Checked(tx[c], tx[c].claimed \cup {tx[c].task})
           /\ ~Occupied(c) /\ Due(row[tx[c].task], tx[c].start)
  BY <1>5, ClaimRecords
<1>10. Select(c) => \E start \in Time :
         /\ start <= now
         /\ tx'[c] = Selected(start, First(Eligible(start)))
         /\ First(Eligible(start)) \in SUBSET Task
  BY <1>2, <1>5
<1>11. QED
  BY <1>3, <1>4, <1>5, <1>6, <1>7, <1>8, <1>9, <1>10

\* LockInv in terms of the records.
LEMMA Locks ==
  LockInv <=>
    /\ \A t \in Task, a \in Attempt :
         exec[t][a].phase = "written" => lock[t] = <<t, a>>
    /\ \A c \in Claimer :
         /\ tx[c].phase = "checking" => tx[c].task # NoTask
         /\ \A t \in InHand(tx[c]) : lock[t] = c
BY DEF LockInv, InHand, Tried

\* What a claim takes up it has locked, and it takes no lock from another.
LEMMA StatementLocks ==
  ASSUME TypeOK, LockInv, NEW c \in Claimer,
         Select(c) \/ LockRows(c) \/ TryKey(c) \/ CheckKey(c)
  PROVE  /\ tx'[c].phase = "checking" => tx'[c].task # NoTask
         /\ \A t \in InHand(tx'[c]) : t \in InHand(tx[c]) \/ lock'[t] = c
         /\ \A t \in Task : lock[t] # Free => lock'[t] = lock[t]
<1>1. tx[c] \in Tx
  BY DEF TypeOK
<1>2. CASE Select(c)
  <2>1. lock' = lock
    BY <1>2 DEF Select
  <2>2. InHand(tx'[c]) = {} /\ tx'[c].phase = "selected"
    <3>1. PICK start \in Time :
            /\ tx'[c] = Selected(start, First(Eligible(start)))
            /\ First(Eligible(start)) \in SUBSET Task
      BY <1>2, StatementRecord
    <3>2. QED
      BY <3>1, SelectedHands
  <2>3. QED
    BY <2>1, <2>2
<1>3. CASE LockRows(c)
  <2> DEFINE free == {t \in tx[c].found : lock[t] = Free}
  <2>1. tx'[c] = Locking(tx[c], free) /\ free \in SUBSET Task
    BY <1>3, StatementRecord
  <2>2. lock' = [t \in Task |-> IF t \in free THEN c ELSE lock[t]]
    BY <1>3 DEF LockRows
  <2>3. QED
    BY <1>1, <2>1, <2>2, LockingHands
<1>4. CASE TryKey(c)
  <2>1. lock' = lock /\ tx[c].phase = "claiming"
    BY <1>4 DEF TryKey
  <2>2. PICK t \in tx[c].locked :
          /\ t \in Task
          /\ tx'[c] = Passing(tx[c], t) \/ tx'[c] = Trying(tx[c], t)
    BY <1>4, StatementRecord
  <2>3. CASE tx'[c] = Passing(tx[c], t)
    <3>1. tx'[c].phase = tx[c].phase /\ InHand(tx'[c]) \subseteq InHand(tx[c])
      BY <1>1, <2>2, <2>3, PassingHands
    <3>2. QED
      BY <2>1, <3>1
  <2>4. CASE tx'[c] = Trying(tx[c], t)
    <3>1. t # NoTask
      BY <2>2, ClaimAssumption
    <3>2. tx'[c].task = t /\ InHand(tx'[c]) \subseteq InHand(tx[c])
      BY <1>1, <2>2, <2>4, TryingHands
    <3>3. QED
      BY <2>1, <3>1, <3>2
  <2>5. QED
    BY <2>2, <2>3, <2>4
<1>5. CASE CheckKey(c)
  <2>1. lock' = lock
    BY <1>5 DEF CheckKey
  <2>2. tx[c].task \in InHand(tx[c]) /\ tx[c].claimed \in SUBSET Task
        /\ tx[c].claimed \cup {tx[c].task} \in SUBSET Task
    BY <1>1, <1>5, StatementRecord DEF Tried, InHand, Tx
  <2>3. PICK E \in SUBSET Task :
          /\ tx'[c] = Checked(tx[c], E)
          /\ E = tx[c].claimed \/ E = tx[c].claimed \cup {tx[c].task}
    BY <1>5, <2>2, StatementRecord
  <2>4. InHand(tx'[c]) \subseteq InHand(tx[c]) /\ tx'[c].phase = "claiming"
    BY <1>1, <2>2, <2>3, CheckedHands DEF InHand
  <2>5. QED
    BY <2>1, <2>4
<1>6. QED
  BY <1>2, <1>3, <1>4, <1>5

\* Statements of a claim keep the locks in order.
LEMMA StatementLockInv ==
  ASSUME TypeOK, LockInv, NEW c \in Claimer,
         Select(c) \/ LockRows(c) \/ TryKey(c) \/ CheckKey(c)
  PROVE  LockInv'
<1>1. \A d \in Claimer : d # Free /\ tx[d] \in Tx /\ InHand(tx[d]) \subseteq Task
  BY ClaimAssumption, InHandTasks DEF TypeOK, InHand, Tried
<1>2. exec' = exec /\ \A d \in Claimer \ {c} : tx'[d] = tx[d]
  BY StatementRecord DEF Select, LockRows, TryKey, CheckKey
<1>3. \A t \in Task, a \in Attempt : <<t, a>> # Free
  BY ClaimAssumption
<1>4. \A d \in Claimer :
        /\ tx'[d].phase = "checking" => tx'[d].task # NoTask
        /\ \A t \in InHand(tx'[d]) : lock'[t] = d
  BY <1>1, <1>2, StatementLocks, Locks
<1>5. \A t \in Task, a \in Attempt : exec'[t][a].phase = "written" => lock'[t] = <<t, a>>
  <2> SUFFICES ASSUME NEW t \in Task, NEW a \in Attempt, exec'[t][a].phase = "written"
               PROVE  lock'[t] = <<t, a>>
    OBVIOUS
  <2>1. lock[t] = <<t, a>>
    BY <1>2, Locks
  <2>2. QED
    BY <1>3, <2>1, StatementLocks
<1>6. QED
  BY <1>4, <1>5 DEF LockInv, InHand, Tried

\* The end of a claim releases its locks and no others.
LEMMA EndLockInv ==
  ASSUME TypeOK, LockInv, NEW c \in Claimer, Commit(c) \/ Rollback(c)
  PROVE  LockInv'
<1>1. /\ lock' = [t \in Task |-> IF lock[t] = c THEN Free ELSE lock[t]]
      /\ tx'[c] = Idle /\ \A d \in Claimer \ {c} : tx'[d] = tx[d]
  BY DEF Commit, Rollback, Unlock, TypeOK
<1>2. \A d \in Claimer : InHand(tx[d]) \subseteq Task
  BY InHandTasks DEF InHand, Tried
<1>3. InHand(Idle) = {} /\ Idle.phase = "idle"
  BY DEF InHand, Idle
<1>4. \A d \in Claimer :
        /\ tx'[d].phase = "checking" => tx'[d].task # NoTask
        /\ \A t \in InHand(tx'[d]) : lock'[t] = d
  BY <1>1, <1>2, <1>3, Locks
<1>5. ASSUME NEW t \in Task, NEW a \in Attempt, exec'[t][a].phase = "written"
      PROVE  lock'[t] = <<t, a>>
  <2>1. exec[t][a].phase = "written"
    <3>1. CASE Rollback(c)
      BY <1>5, <3>1 DEF Rollback
    <3>2. CASE Commit(c)
      BY <1>5, <3>2 DEF Commit, TypeOK, NoExec
    <3>3. QED
      BY <3>1, <3>2
  <2>2. lock[t] = <<t, a>> /\ <<t, a>> # c
    BY <2>1, Locks, ClaimAssumption
  <2>3. QED
    BY <1>1, <2>2
<1>6. QED
  BY <1>4, <1>5 DEF LockInv, InHand, Tried

\* A write takes the lock of its own row and releases no other.
LEMMA WriteLockInv ==
  ASSUME TypeOK, LockInv, NEW t \in Task, NEW a \in Attempt,
         \/ \E does \in {"heartbeat", "settle", "requeue"} : Write(t, a, does)
         \/ CommitWrite(t, a) \/ LeaseLost(t, a) \/ Die(t, a)
  PROVE  LockInv'
<1>1. /\ tx' = tx /\ lock' \in [Task -> {Free} \cup Claimer \cup (Task \X Attempt)]
      /\ \A u \in Task, b \in Attempt :
           u # t \/ b # a => exec'[u][b] = exec[u][b]
  <2>1. tx' = tx /\ \E e : exec' = [exec EXCEPT ![t][a] = e]
    BY DEF Write, CommitWrite, LeaseLost, Die
  <2>2. lock' \in [Task -> {Free} \cup Claimer \cup (Task \X Attempt)]
    BY WriteType DEF TypeOK
  <2>3. PICK e : exec' = [exec EXCEPT ![t][a] = e]
    BY <2>1
  <2>4. \A u \in Task, b \in Attempt : u # t \/ b # a => exec'[u][b] = exec[u][b]
    BY <2>3 DEF TypeOK
  <2>5. QED
    BY <2>1, <2>2, <2>4
<1>2. \A d \in Claimer : InHand(tx[d]) \subseteq Task /\ d # Free /\ d # <<t, a>>
  BY InHandTasks, ClaimAssumption DEF InHand, Tried
<1>3. <<t, a>> # Free
  BY ClaimAssumption
<1>4. CASE \E does \in {"heartbeat", "settle", "requeue"} : Write(t, a, does)
  <2>1. lock[t] = Free /\ lock' = [lock EXCEPT ![t] = <<t, a>>]
    BY <1>4 DEF Write
  <2>2. \A u \in Task : lock[u] # Free => lock'[u] = lock[u]
    BY <2>1 DEF TypeOK
  <2>3. \A d \in Claimer : \A u \in InHand(tx[d]) : lock'[u] = d
    BY <1>2, <2>2, Locks
  <2>4. ASSUME NEW u \in Task, NEW b \in Attempt, exec'[u][b].phase = "written"
        PROVE  lock'[u] = <<u, b>>
    <3>1. CASE u = t /\ b = a
      BY <2>1, <3>1 DEF TypeOK
    <3>2. CASE u # t \/ b # a
      <4>1. lock[u] = <<u, b>> /\ <<u, b>> # Free
        BY <1>1, <2>4, <3>2, Locks, ClaimAssumption
      <4>2. QED
        BY <2>2, <4>1
    <3>3. QED
      BY <3>1, <3>2
  <2>5. QED
    BY <1>1, <2>3, <2>4 DEF LockInv, InHand, Tried
<1>5. CASE CommitWrite(t, a) \/ Die(t, a)
  <2>1. lock' = [u \in Task |-> IF lock[u] = <<t, a>> THEN Free ELSE lock[u]]
    BY <1>5 DEF CommitWrite, Die, Unlock
  <2>2. \A d \in Claimer : \A u \in InHand(tx[d]) : lock'[u] = d
    BY <1>2, <2>1, Locks
  <2>3. exec'[t][a].phase # "written"
    <3>1. exec[t][a] \in Exec
      BY DEF TypeOK
    <3>2. [exec[t][a] EXCEPT !.phase = "running"].phase # "written"
          /\ NoExec.phase # "written"
      BY <3>1 DEF Exec, NoExec
    <3>3. /\ CommitWrite(t, a) =>
               exec'[t][a] = [exec[t][a] EXCEPT !.phase = "running"] \/ exec'[t][a] = NoExec
          /\ Die(t, a) => exec'[t][a] = NoExec
      BY DEF CommitWrite, Die, TypeOK
    <3>4. QED
      BY <1>5, <3>2, <3>3
  <2>4. ASSUME NEW u \in Task, NEW b \in Attempt, exec'[u][b].phase = "written"
        PROVE  lock'[u] = <<u, b>>
    <3>1. u # t \/ b # a
      BY <2>3, <2>4
    <3>2. lock[u] = <<u, b>> /\ <<u, b>> # <<t, a>>
      BY <1>1, <2>4, <3>1, Locks
    <3>3. QED
      BY <2>1, <3>2
  <2>5. QED
    BY <1>1, <2>2, <2>4 DEF LockInv, InHand, Tried
<1>6. CASE LeaseLost(t, a)
  <2>1. lock' = lock /\ exec'[t][a].phase # "written"
    BY <1>6 DEF LeaseLost, NoExec, TypeOK
  <2>2. \A u \in Task, b \in Attempt :
          exec'[u][b].phase = "written" => exec[u][b].phase = "written"
    BY <1>1, <2>1
  <2>3. QED
    BY <1>1, <2>1, <2>2 DEF LockInv, Tried
<1>7. QED
  BY <1>4, <1>5, <1>6

\* Every step keeps the locks in order.
LEMMA LockStep == TypeOK /\ LockInv /\ [Next]_vars => LockInv'
<1> SUFFICES ASSUME TypeOK, LockInv, [Next]_vars PROVE LockInv'
  OBVIOUS
<1>1. CASE Tick \/ UNCHANGED vars \/ \E t \in Task : EnqueueTask(t) \/ CancelTask(t)
  <2>1. lock' = lock /\ tx' = tx /\ exec' = exec
    BY <1>1 DEF Tick, vars, EnqueueTask, CancelTask
  <2>2. QED
    BY <2>1 DEF LockInv, Tried
<1>2. QED
  BY <1>1, StatementLockInv, EndLockInv, WriteLockInv DEF Next, Claiming

-----------------------------------------------------------------------------
(* Advisory locks.                                                          *)

\* A record holds the keys of the rows it tries or has claimed.
KeysHeld(x) ==
  \A t \in ({x.task} \ {NoTask}) \cup x.claimed : KeyOf[t] # NoKey => KeyOf[t] \in x.keys

\* A record has one row of each key.
OneOfEachKey(x) == \A t, u \in AllHand(x) : SameKey(t, u) => t = u

\* KeyInv in terms of the records.
LEMMA Keys ==
  KeyInv <=>
    /\ \A c \in Claimer : KeysHeld(tx[c]) /\ OneOfEachKey(tx[c])
    /\ \A c, d \in Claimer : c # d => tx[c].keys \cap tx[d].keys = {}
<1>1. \A c \in Claimer :
        AllHand(tx[c]) = tx[c].found \cup tx[c].locked \cup Tried(c) \cup tx[c].claimed
  BY DEF AllHand, InHand, Tried
<1>2. QED
  BY <1>1 DEF KeyInv, KeysHeld, OneOfEachKey, Tried

\* The select ranks the rows of a key, and takes the first.
LEMMA FirstKeys ==
  ASSUME TypeOK, NEW E \in SUBSET Task, NEW t \in First(E), NEW u \in First(E),
         SameKey(t, u)
  PROVE  t = u
<1> SUFFICES ASSUME t # u PROVE FALSE
  OBVIOUS
<1>1. t \in Task /\ u \in Task /\ t \in E /\ u \in E
  BY DEF First
<1>2. Before(t, u) /\ Before(u, t)
  BY <1>1 DEF First, SameKey
<1>3. /\ row[t].runAt \in Int /\ row[u].runAt \in Int
      /\ row[t].created \in Int /\ row[u].created \in Int
      /\ Rank[t] \in Int /\ Rank[u] \in Int
  BY <1>1, ClaimAssumption DEF TypeOK, Row, Time
<1>4. QED
  BY <1>2, <1>3 DEF Before

\* What the statements of a claim do to the keys of its record.
LEMMA StatementKeys ==
  ASSUME TypeOK, LockInv, KeyInv, NEW c \in Claimer,
         Select(c) \/ LockRows(c) \/ TryKey(c) \/ CheckKey(c)
  PROVE  /\ KeysHeld(tx'[c]) /\ OneOfEachKey(tx'[c])
         /\ \A d \in Claimer \ {c} : tx'[c].keys \cap tx[d].keys = {}
<1>1. /\ tx[c] \in Tx /\ KeysHeld(tx[c]) /\ OneOfEachKey(tx[c])
      /\ \A d \in Claimer \ {c} : tx[c].keys \cap tx[d].keys = {}
  BY Keys DEF TypeOK
<1>2. CASE Select(c)
  <2>1. PICK start \in Time :
          /\ tx'[c] = Selected(start, First(Eligible(start)))
          /\ First(Eligible(start)) \in SUBSET Task
    BY <1>2, StatementRecord
  <2>2. /\ tx'[c].task = NoTask /\ tx'[c].claimed = {} /\ tx'[c].keys = {}
        /\ AllHand(tx'[c]) = First(Eligible(start))
    BY <2>1, SelectedHands DEF AllHand
  <2>3. Eligible(start) \in SUBSET Task
    BY DEF Eligible
  <2>4. OneOfEachKey(tx'[c])
    BY <2>2, <2>3, FirstKeys DEF OneOfEachKey
  <2>5. QED
    BY <2>2, <2>4 DEF KeysHeld
<1>3. CASE LockRows(c)
  <2> DEFINE free == {t \in tx[c].found : lock[t] = Free}
  <2>1. tx'[c] = Locking(tx[c], free) /\ free \in SUBSET Task
    BY <1>3, StatementRecord
  <2>2. AllHand(tx'[c]) \subseteq AllHand(tx[c])
    BY <1>1, <2>1, LockingHands DEF AllHand
  <2>3. /\ tx'[c].keys = tx[c].keys /\ tx'[c].task = tx[c].task
        /\ tx'[c].claimed = tx[c].claimed
    BY <1>1, <2>1, LockingHands
  <2>4. QED
    BY <1>1, <2>2, <2>3 DEF KeysHeld, OneOfEachKey
<1>4. CASE TryKey(c)
  <2>1. PICK t \in tx[c].locked :
          /\ t \in Task
          /\ \/ tx'[c] = Passing(tx[c], t)
             \/ /\ tx'[c] = Trying(tx[c], t)
                /\ \A d \in Claimer \ {c} : KeyOf[t] \notin tx[d].keys
    BY <1>4, StatementRecord
  <2>2. CASE tx'[c] = Passing(tx[c], t)
    <3>1. AllHand(tx'[c]) \subseteq AllHand(tx[c])
      BY <1>1, <2>1, <2>2, PassingHands DEF AllHand
    <3>2. /\ tx'[c].keys = tx[c].keys /\ tx'[c].task = tx[c].task
          /\ tx'[c].claimed = tx[c].claimed
      BY <1>1, <2>1, <2>2, PassingHands
    <3>3. QED
      BY <1>1, <3>1, <3>2 DEF KeysHeld, OneOfEachKey
  <2>3. CASE /\ tx'[c] = Trying(tx[c], t)
             /\ \A d \in Claimer \ {c} : KeyOf[t] \notin tx[d].keys
    <3>1. AllHand(tx'[c]) \subseteq AllHand(tx[c])
      BY <1>1, <2>1, <2>3, TryingHands DEF AllHand
    <3>2. /\ tx'[c].keys = (tx[c].keys \cup {KeyOf[t]}) \ {NoKey}
          /\ tx'[c].task = t /\ tx'[c].claimed = tx[c].claimed
      BY <1>1, <2>1, <2>3, TryingHands
    <3>3. KeysHeld(tx'[c])
      BY <1>1, <3>2 DEF KeysHeld
    <3>4. \A d \in Claimer \ {c} : tx'[c].keys \cap tx[d].keys = {}
      BY <1>1, <2>3, <3>2
    <3>5. QED
      BY <1>1, <3>1, <3>3, <3>4 DEF OneOfEachKey
  <2>4. QED
    BY <2>1, <2>2, <2>3
<1>5. CASE CheckKey(c)
  <2>1. tx[c].task \in Tried(c) /\ tx[c].claimed \in SUBSET Task
        /\ tx[c].claimed \cup {tx[c].task} \in SUBSET Task
    <3>1. tx[c].task \in Task /\ tx[c].task \in Tried(c)
      BY <1>5, StatementRecord
    <3>2. tx[c].claimed \in SUBSET Task
      BY <1>1 DEF Tx
    <3>3. QED
      BY <3>1, <3>2
  <2>2. PICK E \in SUBSET Task :
          /\ tx'[c] = Checked(tx[c], E)
          /\ E = tx[c].claimed \/ E = tx[c].claimed \cup {tx[c].task}
    BY <1>5, <2>1, StatementRecord
  <2>3. /\ tx'[c].keys = tx[c].keys /\ tx'[c].task = NoTask
        /\ tx'[c].claimed = E /\ tx'[c].locked = tx[c].locked
        /\ tx'[c].found = tx[c].found
    BY <1>1, <2>2, CheckedHands
  <2>4. AllHand(tx'[c]) \subseteq AllHand(tx[c])
    BY <2>1, <2>2, <2>3 DEF AllHand, InHand, Tried
  <2>5. KeysHeld(tx'[c])
    BY <1>1, <2>1, <2>2, <2>3 DEF KeysHeld, Tried
  <2>6. QED
    BY <1>1, <2>3, <2>4, <2>5 DEF OneOfEachKey
<1>6. QED
  BY <1>2, <1>3, <1>4, <1>5

\* Every step keeps the keys in order.
LEMMA KeyStep == TypeOK /\ LockInv /\ KeyInv /\ [Next]_vars => KeyInv'
<1> SUFFICES ASSUME TypeOK, LockInv, KeyInv, [Next]_vars PROVE KeyInv'
  OBVIOUS
<1>1. ASSUME NEW c \in Claimer,
             KeysHeld(tx'[c]), OneOfEachKey(tx'[c]),
             \A d \in Claimer \ {c} : tx'[c].keys \cap tx[d].keys = {},
             \A d \in Claimer \ {c} : tx'[d] = tx[d]
      PROVE  KeyInv'
  <2>1. \A d \in Claimer : KeysHeld(tx'[d]) /\ OneOfEachKey(tx'[d])
    BY <1>1, Keys
  <2>2. \A d, e \in Claimer : d # e => tx'[d].keys \cap tx'[e].keys = {}
    BY <1>1, Keys
  <2>3. \A d \in Claimer :
          AllHand(tx'[d]) = tx'[d].found \cup tx'[d].locked
                              \cup ({tx'[d].task} \ {NoTask}) \cup tx'[d].claimed
    BY DEF AllHand, InHand
  <2>4. QED
    BY <2>1, <2>2, <2>3 DEF KeyInv, KeysHeld, OneOfEachKey, Tried, SameKey
<1>2. ASSUME NEW c \in Claimer, Claiming(c) \/ Rollback(c)
      PROVE  KeyInv'
  <2>1. CASE Commit(c) \/ Rollback(c)
    <3>1. tx'[c] = Idle /\ \A d \in Claimer \ {c} : tx'[d] = tx[d]
      BY <2>1 DEF Commit, Rollback, TypeOK
    <3>2. KeysHeld(Idle) /\ OneOfEachKey(Idle) /\ Idle.keys = {}
      BY DEF KeysHeld, OneOfEachKey, AllHand, InHand, Idle
    <3>3. QED
      BY <1>1, <3>1, <3>2
  <2>2. CASE Select(c) \/ LockRows(c) \/ TryKey(c) \/ CheckKey(c)
    BY <1>1, <2>2, StatementKeys, StatementRecord
  <2>3. QED
    BY <1>2, <2>1, <2>2 DEF Claiming
<1>3. CASE tx' = tx
  BY <1>3 DEF KeyInv, Tried, SameKey
<1>4. QED
  BY <1>2, <1>3
     DEF Next, EnqueueTask, CancelTask, Write, CommitWrite, LeaseLost, Die, Tick, vars

-----------------------------------------------------------------------------
(* What the rows become.                                                    *)

\* A row that a claim has in hand belongs to no write.
LEMMA HandsApart ==
  ASSUME TypeOK, LockInv, NEW c \in Claimer, NEW t \in tx[c].claimed
  PROVE  /\ t \in Task /\ lock[t] = c /\ lock[t] # Free
         /\ \A a \in Attempt : exec[t][a].phase # "written"
         /\ \A d \in Claimer \ {c} : t \notin tx[d].claimed
<1>1. t \in Task /\ lock[t] = c /\ c # Free
  BY ClaimAssumption, InHandTasks DEF LockInv
<1>2. \A a \in Attempt : <<t, a>> # c
  BY <1>1, ClaimAssumption
<1>3. \A a \in Attempt : exec[t][a].phase # "written"
  BY <1>1, <1>2 DEF LockInv
<1>4. \A d \in Claimer : t \in tx[d].claimed => lock[t] = d
  BY DEF LockInv
<1>5. QED
  BY <1>1, <1>3, <1>4

\* A row that is being written belongs to one attempt.
LEMMA WritesApart ==
  ASSUME LockInv, NEW t \in Task, NEW a \in Attempt, exec[t][a].phase = "written"
  PROVE  /\ lock[t] # Free
         /\ \A b \in Attempt \ {a} : exec[t][b].phase # "written"
<1>1. lock[t] = <<t, a>> /\ <<t, a>> # Free
  BY ClaimAssumption DEF LockInv
<1>2. \A b \in Attempt : exec[t][b].phase = "written" => <<t, a>> = <<t, b>>
  BY <1>1 DEF LockInv
<1>3. QED
  BY <1>1, <1>2

\* What the application makes of a row is not live, and it writes no row that a
\* claim or a write has locked.
LEMMA ApplicationRows ==
  ASSUME TypeOK, NEW t \in Task, EnqueueTask(t) \/ CancelTask(t)
  PROVE  /\ \A u \in Task \ {t} : row'[u] = row[u]
         /\ row'[t].state # "running" /\ row'[t].attempts = row[t].attempts
         /\ row[t].state = "absent" \/ lock[t] = Free
         /\ UNCHANGED <<now, lock, tx, exec, late>>
<1>1. row[t] \in Row
  BY DEF TypeOK
<1>2. CASE EnqueueTask(t)
  <2>1. PICK time \in StartTimes :
          row' = [row EXCEPT ![t] = [row[t] EXCEPT !.state = "queued", !.runAt = time,
                                                   !.created = now]]
    BY <1>2 DEF EnqueueTask
  <2>2. \A u \in Task \ {t} : row'[u] = row[u]
    BY <2>1 DEF TypeOK
  <2>3. row'[t].state = "queued" /\ row'[t].attempts = row[t].attempts
    BY <1>1, <2>1 DEF TypeOK, Row
  <2>4. QED
    BY <1>2, <2>2, <2>3 DEF EnqueueTask
<1>3. CASE CancelTask(t)
  <2>1. row' = [row EXCEPT ![t] = [row[t] EXCEPT !.state = "settled", !.expires = 0]]
    BY <1>3 DEF CancelTask
  <2>2. \A u \in Task \ {t} : row'[u] = row[u]
    BY <2>1 DEF TypeOK
  <2>3. row'[t].state = "settled" /\ row'[t].attempts = row[t].attempts
    BY <1>1, <2>1 DEF TypeOK, Row
  <2>4. QED
    BY <1>3, <2>2, <2>3 DEF CancelTask
<1>4. QED
  BY <1>2, <1>3

\* What a committed write makes of its row: a heartbeat moves the end of the
\* lease and is noted if it comes late, and the others end the lease.
LEMMA WrittenRow ==
  ASSUME TypeOK, NEW t \in Task, NEW a \in Attempt, CommitWrite(t, a)
  PROVE  /\ \A u \in Task \ {t} : row'[u] = row[u] /\ late'[u] = late[u]
         /\ row'[t].attempts = row[t].attempts
         /\ \/ /\ row'[t].state = row[t].state
               /\ late[t] \/ ~Live(row[t], now) => late'[t]
            \/ row'[t].state # "running"
         /\ UNCHANGED <<now, tx>>
<1>1. row[t] \in Row /\ exec[t][a] \in Exec
  BY DEF TypeOK
<1>2. /\ row' = [row EXCEPT ![t] = Written(t, a)]
      /\ late' = [late EXCEPT ![t] =
                    exec[t][a].does = "heartbeat" /\ (late[t] \/ ~Live(row[t], now))]
      /\ UNCHANGED <<now, tx>>
  BY DEF CommitWrite
<1>3. \A u \in Task \ {t} : row'[u] = row[u] /\ late'[u] = late[u]
  BY <1>2 DEF TypeOK
<1>4. row'[t] = Written(t, a)
  BY <1>2 DEF TypeOK
<1>5. CASE exec[t][a].does = "heartbeat"
  <2>1. Written(t, a) = [row[t] EXCEPT !.expires = exec[t][a].start + LeaseDuration]
    BY <1>5 DEF Written
  <2>2. row'[t].state = row[t].state /\ row'[t].attempts = row[t].attempts
    BY <1>1, <1>4, <2>1 DEF Row
  <2>3. late[t] \/ ~Live(row[t], now) => late'[t]
    BY <1>2, <1>5, Zenon DEF TypeOK
  <2>4. QED
    BY <1>2, <1>3, <2>2, <2>3
<1>6. CASE exec[t][a].does = "settle"
  <2>1. Written(t, a) = [row[t] EXCEPT !.state = "settled", !.expires = 0]
    BY <1>6 DEF Written
  <2>2. row'[t].state # "running" /\ row'[t].attempts = row[t].attempts
    BY <1>1, <1>4, <2>1 DEF Row
  <2>3. QED
    BY <1>2, <1>3, <2>2
<1>7. CASE exec[t][a].does = "requeue"
  <2>1. Written(t, a) = [row[t] EXCEPT !.state = "queued", !.expires = 0,
                                       !.runAt = exec[t][a].start]
    BY <1>7 DEF Written
  <2>2. row'[t].state # "running" /\ row'[t].attempts = row[t].attempts
    BY <1>1, <1>4, <2>1 DEF Row
  <2>3. QED
    BY <1>2, <1>3, <2>2
<1>8. QED
  BY <1>1, <1>5, <1>6, <1>7 DEF Exec

\* What a committed claim makes of the rows.
LEMMA ClaimedRow ==
  ASSUME TypeOK, NEW c \in Claimer, Commit(c)
  PROVE  /\ \A t \in Task \ tx[c].claimed : row'[t] = row[t] /\ late'[t] = late[t]
         /\ tx'[c] = Idle /\ \A d \in Claimer \ {c} : tx'[d] = tx[d]
         /\ \A t \in tx[c].claimed :
              row'[t].state = "running" /\ row'[t].attempts = row[t].attempts + 1
         /\ now' = now
<1>1. tx[c].claimed \subseteq Task
  BY InHandTasks
<1>2. \A t \in tx[c].claimed :
        row'[t] = [row[t] EXCEPT !.state = "running", !.attempts = @ + 1,
                                 !.expires = tx[c].start + LeaseDuration]
  BY <1>1 DEF Commit
<1>3. \A t \in tx[c].claimed :
        row'[t].state = "running" /\ row'[t].attempts = row[t].attempts + 1
  <2> SUFFICES ASSUME NEW t \in tx[c].claimed
               PROVE  row'[t].state = "running" /\ row'[t].attempts = row[t].attempts + 1
    OBVIOUS
  <2>1. row[t] \in Row
    BY <1>1 DEF TypeOK
  <2>2. QED
    BY <1>2, <2>1 DEF Row
<1>4. \A t \in Task \ tx[c].claimed : row'[t] = row[t]
  BY DEF Commit
<1>5. \A t \in Task \ tx[c].claimed : late'[t] = late[t]
  BY Zenon DEF Commit, TypeOK
<1>6. QED
  BY <1>3, <1>4, <1>5 DEF Commit, TypeOK

-----------------------------------------------------------------------------
(* Fencing.                                                                 *)

\* Every step keeps a decided write on its attempt.
LEMMA FenceStep ==
  TypeOK /\ LockInv /\ WritesAreFenced /\ [Next]_vars => WritesAreFenced'
<1> SUFFICES ASSUME TypeOK, LockInv, WritesAreFenced, [Next]_vars,
                    NEW t \in Task, NEW a \in Attempt, exec'[t][a].phase = "written"
             PROVE  row'[t].state = "running" /\ row'[t].attempts = a
  BY DEF WritesAreFenced
<1>1. exec[t][a].phase = "written" =>
        /\ row[t].state = "running" /\ row[t].attempts = a
        /\ lock[t] # Free /\ lock[t] = <<t, a>>
        /\ \A b \in Attempt \ {a} : exec[t][b].phase # "written"
  BY WritesApart DEF WritesAreFenced, LockInv
<1>2. ASSUME exec[t][a].phase = "written", row'[t] = row[t]
      PROVE  row'[t].state = "running" /\ row'[t].attempts = a
  BY <1>1, <1>2
<1>3. ASSUME NEW u \in Task, EnqueueTask(u) \/ CancelTask(u)
      PROVE  row'[t] = row[t] /\ exec[t][a].phase = "written"
  <2>1. exec[t][a].phase = "written"
    BY <1>3, ApplicationRows
  <2>2. u # t
    BY <1>1, <1>3, <2>1, ApplicationRows
  <2>3. QED
    BY <1>3, <2>1, <2>2, ApplicationRows
<1>4. ASSUME NEW c \in Claimer, Commit(c)
      PROVE  row'[t] = row[t] /\ exec[t][a].phase = "written"
  <2>1. t \notin tx[c].claimed => row'[t] = row[t] /\ exec'[t] = exec[t]
    BY <1>4 DEF Commit
  <2>2. CASE t \in tx[c].claimed
    <3>1. exec[t][a].phase # "written"
      BY <2>2, HandsApart
    <3>2. exec' = [u \in Task |->
                     IF u \in tx[c].claimed
                     THEN [exec[u] EXCEPT ![row[u].attempts + 1] =
                             [NoExec EXCEPT !.phase = "running", !.start = now]]
                     ELSE exec[u]]
      BY <1>4 DEF Commit
    <3>3. [NoExec EXCEPT !.phase = "running", !.start = now].phase = "running"
      BY DEF NoExec
    <3>4. exec'[t][a].phase # "written"
      BY <2>2, <3>1, <3>2, <3>3 DEF TypeOK
    <3>5. QED
      BY <3>4
  <2>3. QED
    BY <2>1, <2>2
<1>5. ASSUME NEW u \in Task, NEW b \in Attempt,
             \/ \E does \in {"heartbeat", "settle", "requeue"} : Write(u, b, does)
             \/ LeaseLost(u, b) \/ Die(u, b)
      PROVE  row'[t].state = "running" /\ row'[t].attempts = a
  <2>1. row' = row
    BY <1>5 DEF Write, LeaseLost, Die
  <2>2. CASE exec[t][a].phase = "written"
    BY <1>1, <2>1, <2>2
  <2>3. CASE exec[t][a].phase # "written"
    <3>1. PICK e : exec' = [exec EXCEPT ![u][b] = e]
      BY <1>5 DEF Write, LeaseLost, Die
    <3>2. t = u /\ a = b
      BY <2>3, <3>1 DEF TypeOK
    <3>3. ~LeaseLost(u, b) /\ ~Die(u, b)
      BY <3>2 DEF LeaseLost, Die, NoExec, TypeOK
    <3>4. PICK start \in exec[u][b].start .. now : Owns(u, b, start)
      BY <1>5, <3>3 DEF Write
    <3>5. QED
      BY <2>1, <3>2, <3>4 DEF Owns, Live
  <2>4. QED
    BY <2>2, <2>3
<1>6. ASSUME NEW u \in Task, NEW b \in Attempt, CommitWrite(u, b)
      PROVE  row'[t] = row[t] /\ exec[t][a].phase = "written"
  <2>1. exec[u][b] \in Exec /\ exec[u][b].phase = "written"
    BY <1>6 DEF CommitWrite, TypeOK
  <2>2. /\ [exec[u][b] EXCEPT !.phase = "running"].phase # "written"
        /\ NoExec.phase # "written"
    BY <2>1 DEF Exec, NoExec
  <2>3. PICK e : exec' = [exec EXCEPT ![u][b] = e] /\ e.phase # "written"
    BY <1>6, <2>2 DEF CommitWrite
  <2>4. exec[t][a].phase = "written" /\ ~(t = u /\ a = b)
    BY <2>3 DEF TypeOK
  <2>5. t # u
    BY <1>1, <2>1, <2>4
  <2>6. QED
    BY <1>6, <2>4, <2>5, WrittenRow
<1>7. CASE UNCHANGED <<row, exec>>
  BY <1>2, <1>7
<1>8. QED
  BY <1>2, <1>3, <1>4, <1>5, <1>6, <1>7
     DEF Next, Claiming, Select, LockRows, TryKey, CheckKey, Rollback, Tick, vars

-----------------------------------------------------------------------------
(* Claimed rows.                                                            *)

\* What ClaimedInv says of one claim.
ClaimIsSound(x) ==
  /\ x.start <= now
  /\ \A t \in x.claimed :
       /\ Due(row[t], x.start)
       /\ \A u \in Task \ {t} : SameKey(t, u) /\ Live(row[u], x.start) => late[u]

\* A statement of a claim keeps its record sound: it adds a row only if that is
\* due and no other row of its key is live.
LEMMA StatementSound ==
  ASSUME TypeOK, LockInv, ClaimedInv, NEW c \in Claimer,
         Select(c) \/ LockRows(c) \/ TryKey(c) \/ CheckKey(c)
  PROVE  ClaimIsSound(tx'[c])
<1>1. tx[c] \in Tx /\ ClaimIsSound(tx[c])
  BY DEF TypeOK, ClaimedInv, ClaimIsSound
<1>2. CASE Select(c)
  <2>1. PICK start \in Time :
          /\ start <= now
          /\ tx'[c] = Selected(start, First(Eligible(start)))
          /\ First(Eligible(start)) \in SUBSET Task
    BY <1>2, StatementRecord
  <2>2. tx'[c].start <= now /\ tx'[c].claimed = {}
    BY <2>1, SelectedHands
  <2>3. QED
    BY <2>2 DEF ClaimIsSound
<1>3. CASE LockRows(c)
  <2> DEFINE free == {t \in tx[c].found : lock[t] = Free}
  <2>1. tx'[c] = Locking(tx[c], free) /\ free \in SUBSET Task
    BY <1>3, StatementRecord
  <2>2. tx'[c].start = tx[c].start /\ tx'[c].claimed = tx[c].claimed
    BY <1>1, <2>1, LockingHands
  <2>3. QED
    BY <1>1, <2>2 DEF ClaimIsSound
<1>4. CASE TryKey(c)
  <2>1. PICK t \in tx[c].locked : tx'[c] = Passing(tx[c], t) \/ tx'[c] = Trying(tx[c], t)
    BY <1>4, StatementRecord
  <2>2. tx'[c].start = tx[c].start /\ tx'[c].claimed = tx[c].claimed
    BY <1>1, <2>1, PassingHands, TryingHands
  <2>3. QED
    BY <1>1, <2>2 DEF ClaimIsSound
<1>5. CASE CheckKey(c)
  <2>1. /\ tx[c].task \in Task
        /\ \/ tx'[c] = Checked(tx[c], tx[c].claimed)
           \/ /\ tx'[c] = Checked(tx[c], tx[c].claimed \cup {tx[c].task})
              /\ ~Occupied(c) /\ Due(row[tx[c].task], tx[c].start)
    BY <1>5, StatementRecord
  <2>2. tx[c].claimed \in SUBSET Task /\ tx[c].claimed \cup {tx[c].task} \in SUBSET Task
    BY <1>1, <2>1 DEF Tx
  <2>3. CASE tx'[c] = Checked(tx[c], tx[c].claimed)
    <3>1. tx'[c].start = tx[c].start /\ tx'[c].claimed = tx[c].claimed
      BY <1>1, <2>2, <2>3, CheckedHands
    <3>2. QED
      BY <1>1, <3>1 DEF ClaimIsSound
  <2>4. CASE /\ tx'[c] = Checked(tx[c], tx[c].claimed \cup {tx[c].task})
             /\ ~Occupied(c) /\ Due(row[tx[c].task], tx[c].start)
    <3>1. /\ tx'[c].start = tx[c].start
          /\ tx'[c].claimed = tx[c].claimed \cup {tx[c].task}
      BY <1>1, <2>2, <2>4, CheckedHands
    <3>2. \A u \in Task \ {tx[c].task} :
            ~(SameKey(tx[c].task, u) /\ Live(row[u], tx[c].start))
      BY <2>4 DEF Occupied
    <3>3. QED
      BY <1>1, <2>4, <3>1, <3>2 DEF ClaimIsSound
  <2>5. QED
    BY <2>1, <2>3, <2>4
<1>6. QED
  BY <1>2, <1>3, <1>4, <1>5

\* A step of somebody else leaves the rows a claim has updated, and can make
\* another row of their keys live only by a late extension.
LEMMA OthersKeepClaims ==
  ASSUME TypeOK, LockInv, KeyInv, ClaimedInv, WritesAreFenced, [Next]_vars,
         NEW c \in Claimer, ~Commit(c), NEW t \in tx[c].claimed
  PROVE  /\ row'[t] = row[t]
         /\ \A u \in Task \ {t} : SameKey(t, u) /\ Live(row'[u], tx[c].start) => late'[u]
<1>1. /\ t \in Task /\ lock[t] = c /\ lock[t] # Free
      /\ \A a \in Attempt : exec[t][a].phase # "written"
      /\ Due(row[t], tx[c].start) /\ tx[c].start <= now
      /\ \A u \in Task \ {t} : SameKey(t, u) /\ Live(row[u], tx[c].start) => late[u]
  BY HandsApart DEF ClaimedInv
<1>2. CASE UNCHANGED <<row, late>>
  BY <1>1, <1>2
<1>3. ASSUME NEW u \in Task, EnqueueTask(u) \/ CancelTask(u)
      PROVE  /\ row'[t] = row[t]
             /\ \A v \in Task \ {t} :
                  SameKey(t, v) /\ Live(row'[v], tx[c].start) => late'[v]
  <2>1. u # t
    BY <1>1, <1>3, ApplicationRows DEF Due
  <2>2. late' = late /\ ~Live(row'[u], tx[c].start)
        /\ \A v \in Task \ {u} : row'[v] = row[v]
    BY <1>3, ApplicationRows DEF Live
  <2>3. QED
    BY <1>1, <2>1, <2>2
<1>4. ASSUME NEW d \in Claimer, Commit(d)
      PROVE  /\ row'[t] = row[t]
             /\ \A v \in Task \ {t} :
                  SameKey(t, v) /\ Live(row'[v], tx[c].start) => late'[v]
  <2>1. d # c
    BY <1>4
  <2>2. t \notin tx[d].claimed
    BY <2>1, HandsApart
  <2>3. \A v \in tx[d].claimed : ~SameKey(t, v)
    BY <2>1 DEF KeyInv, SameKey
  <2>4. \A v \in Task \ tx[d].claimed : row'[v] = row[v] /\ late'[v] = late[v]
    BY <1>4, ClaimedRow
  <2>5. QED
    BY <1>1, <2>2, <2>3, <2>4
<1>5. ASSUME NEW u \in Task, NEW a \in Attempt, CommitWrite(u, a)
      PROVE  /\ row'[t] = row[t]
             /\ \A v \in Task \ {t} :
                  SameKey(t, v) /\ Live(row'[v], tx[c].start) => late'[v]
  <2>1. u # t
    BY <1>1, <1>5 DEF CommitWrite
  <2>2. row'[t] = row[t]
    BY <1>1, <1>5, <2>1, WrittenRow
  <2>3. ASSUME NEW v \in Task \ {t}, SameKey(t, v), Live(row'[v], tx[c].start)
        PROVE  late'[v]
    <3>1. CASE v # u
      <4>1. row'[v] = row[v] /\ late'[v] = late[v]
        BY <1>5, <3>1, WrittenRow
      <4>2. late[v]
        BY <1>1, <2>3, <4>1
      <4>3. QED
        BY <4>1, <4>2, Zenon
    <3>2. CASE v = u
      <4>1. late[u] \/ ~Live(row[u], now) => late'[u]
        BY <1>5, <2>3, <3>2, WrittenRow DEF Live
      <4>2. CASE Live(row[u], tx[c].start)
        <5>1. late[u]
          BY <1>1, <2>3, <3>2, <4>2
        <5>2. QED
          BY <3>2, <4>1, <5>1
      <4>3. CASE ~Live(row[u], tx[c].start)
        <5>1. tx[c].start \in Int /\ now \in Int /\ row[u].expires \in Int
          BY ClaimAssumption DEF TypeOK, Tx, Row, Time, Deadline
        <5>2. ~Live(row[u], now)
          BY <1>1, <4>3, <5>1 DEF Live
        <5>3. QED
          BY <3>2, <4>1, <5>2
      <4>4. QED
        BY <4>2, <4>3
    <3>3. QED
      BY <3>1, <3>2
  <2>4. QED
    BY <2>2, <2>3
<1>6. QED
  BY <1>2, <1>3, <1>4, <1>5
     DEF Next, Claiming, Select, LockRows, TryKey, CheckKey, Rollback, Write, LeaseLost,
         Die, Tick, vars

\* Every step keeps the claims sound.
LEMMA ClaimedStep ==
  TypeOK /\ LockInv /\ KeyInv /\ ClaimedInv /\ WritesAreFenced /\ [Next]_vars
    => ClaimedInv'
<1> SUFFICES ASSUME TypeOK, LockInv, KeyInv, ClaimedInv, WritesAreFenced, [Next]_vars,
                    NEW c \in Claimer
             PROVE  /\ tx'[c].start <= now'
                    /\ \A t \in tx'[c].claimed :
                         /\ Due(row'[t], tx'[c].start)
                         /\ \A u \in Task \ {t} :
                              SameKey(t, u) /\ Live(row'[u], tx'[c].start) => late'[u]
  BY DEF ClaimedInv, Due, Live, SameKey
<1>1. tx[c].start <= now /\ tx[c].start \in Nat /\ now \in Nat /\ now <= now'
  <2>1. tx[c].start <= now /\ tx[c].start \in Nat /\ now \in Nat
    BY InHandTasks, ClaimAssumption DEF ClaimedInv, TypeOK, Time
  <2>2. now' = now \/ now' = now + 1
    BY DEF Next, Claiming, EnqueueTask, CancelTask, Select, LockRows, TryKey, CheckKey,
           Commit, Rollback, Write, CommitWrite, LeaseLost, Die, Tick, vars
  <2>3. QED
    BY <2>1, <2>2
<1>2. CASE tx'[c] = tx[c] /\ ~Commit(c)
  <2>1. \A t \in tx[c].claimed : Due(row[t], tx[c].start)
    BY DEF ClaimedInv
  <2>2. \A t \in tx[c].claimed :
          /\ row'[t] = row[t]
          /\ \A u \in Task \ {t} : SameKey(t, u) /\ Live(row'[u], tx[c].start) => late'[u]
    BY <1>2, OthersKeepClaims
  <2>3. tx[c].start <= now'
    <3>1. now' \in Nat
      BY TypeStep DEF TypeOK, Time
    <3>2. QED
      BY <1>1, <3>1
  <2>4. QED
    BY <1>2, <2>1, <2>2, <2>3
<1>3. CASE Select(c) \/ LockRows(c) \/ TryKey(c) \/ CheckKey(c)
  <2>1. UNCHANGED <<now, row, late>>
    BY <1>3 DEF Select, LockRows, TryKey, CheckKey
  <2>2. ClaimIsSound(tx'[c])
    BY <1>3, StatementSound
  <2>3. QED
    BY <2>1, <2>2 DEF ClaimIsSound
<1>4. CASE Commit(c) \/ Rollback(c)
  <2>1. tx'[c] = Idle /\ Idle.start = 0 /\ Idle.claimed = {}
    BY <1>4 DEF Commit, Rollback, Idle, TypeOK
  <2>2. now' = now
    BY <1>4 DEF Commit, Rollback
  <2>3. QED
    BY <1>1, <2>1, <2>2
<1>5. ASSUME NEW d \in Claimer \ {c}, Claiming(d) \/ Rollback(d)
      PROVE  tx'[c] = tx[c]
  BY <1>5, StatementRecord DEF Claiming, Commit, Rollback, TypeOK
<1>6. \/ Commit(c) \/ Rollback(c)
      \/ Select(c) \/ LockRows(c) \/ TryKey(c) \/ CheckKey(c)
      \/ \E d \in Claimer \ {c} : Claiming(d) \/ Rollback(d)
      \/ tx' = tx
  BY DEF Next, Claiming, EnqueueTask, CancelTask, Write, CommitWrite, LeaseLost, Die, Tick,
         vars
<1>7. QED
  BY <1>2, <1>3, <1>4, <1>5, <1>6

-----------------------------------------------------------------------------
(* Keys.                                                                    *)

\* A lease that is live later was live before.
LEMMA LiveBefore ==
  ASSUME TypeOK, NEW t \in Task, NEW i \in Nat, NEW j \in Nat, i <= j, Live(row[t], j)
  PROVE  Live(row[t], i)
BY ClaimAssumption DEF TypeOK, Row, Deadline, Live

\* Every step keeps two live leases of a key from meeting, but for a late
\* extension.
LEMMA MeetStep ==
  TypeOK /\ LockInv /\ KeyInv /\ ClaimedInv /\ KeysMeetOnlyLate /\ [Next]_vars
    => KeysMeetOnlyLate'
<1> SUFFICES ASSUME TypeOK, LockInv, KeyInv, ClaimedInv, KeysMeetOnlyLate, [Next]_vars,
                    NEW t \in Task, NEW u \in Task, SameKey(t, u), t # u,
                    Live(row'[t], now'), Live(row'[u], now')
             PROVE  late'[t] \/ late'[u]
  BY DEF KeysMeetOnlyLate, SameKey, Live
<1>1. now \in Nat /\ SameKey(u, t)
  BY ClaimAssumption DEF TypeOK, Time, SameKey
<1>2. Live(row[t], now) /\ Live(row[u], now) => late[t] \/ late[u]
  BY DEF KeysMeetOnlyLate
<1>3. CASE UNCHANGED <<now, row, late>>
  BY <1>2, <1>3
<1>4. CASE Tick
  <2>1. UNCHANGED <<row, late>> /\ now' = now + 1
    BY <1>4 DEF Tick
  <2>2. Live(row[t], now) /\ Live(row[u], now)
    BY <1>1, <2>1, LiveBefore
  <2>3. QED
    BY <1>2, <2>1, <2>2
<1>5. ASSUME NEW v \in Task, EnqueueTask(v) \/ CancelTask(v)
      PROVE  late'[t] \/ late'[u]
  <2>1. v # t /\ v # u
    BY <1>5, ApplicationRows DEF Live
  <2>2. row'[t] = row[t] /\ row'[u] = row[u] /\ UNCHANGED <<now, late>>
    BY <1>5, <2>1, ApplicationRows
  <2>3. QED
    BY <1>2, <2>2
<1>6. ASSUME NEW c \in Claimer, Commit(c)
      PROVE  late'[t] \/ late'[u]
  <2>1. now' = now /\ tx[c].start \in Nat /\ tx[c].start <= now
    BY <1>6, ClaimedRow, InHandTasks DEF ClaimedInv
  <2>2. \A v \in Task \ tx[c].claimed : row'[v] = row[v] /\ late'[v] = late[v]
    BY <1>6, ClaimedRow
  <2>3. ~(t \in tx[c].claimed /\ u \in tx[c].claimed)
    BY DEF KeyInv
  <2>4. ASSUME NEW v \in Task, NEW w \in Task, SameKey(v, w), v # w,
               v \in tx[c].claimed, w \notin tx[c].claimed, Live(row'[w], now')
        PROVE  late'[w]
    <3>1. Live(row[w], now) /\ late'[w] = late[w]
      BY <2>1, <2>2, <2>4
    <3>2. Live(row[w], tx[c].start)
      BY <1>1, <2>1, <3>1, LiveBefore
    <3>3. late[w]
      BY <2>4, <3>2 DEF ClaimedInv
    <3>4. QED
      BY <3>1, <3>3, Zenon
  <2>5. CASE t \in tx[c].claimed
    BY <2>3, <2>4, <2>5
  <2>6. CASE u \in tx[c].claimed
    BY <1>1, <2>3, <2>4, <2>6
  <2>7. CASE t \notin tx[c].claimed /\ u \notin tx[c].claimed
    <3>1. row'[t] = row[t] /\ row'[u] = row[u]
          /\ late'[t] = late[t] /\ late'[u] = late[u]
      BY <2>2, <2>7
    <3>2. late[t] \/ late[u]
      BY <1>2, <2>1, <3>1
    <3>3. QED
      BY <3>1, <3>2, Zenon
  <2>8. QED
    BY <2>5, <2>6, <2>7
<1>7. ASSUME NEW v \in Task, NEW w \in Task, NEW a \in Attempt, CommitWrite(v, a), v # w,
             Live(row'[v], now'), Live(row'[w], now'),
             Live(row[v], now) /\ Live(row[w], now) => late[v] \/ late[w]
      PROVE  late'[v] \/ late'[w]
  <2>1. row'[w] = row[w] /\ late'[w] = late[w] /\ now' = now
    BY <1>7, WrittenRow
  <2>2. late[v] \/ ~Live(row[v], now) => late'[v]
    BY <1>7, WrittenRow DEF Live
  <2>3. late[v] \/ ~Live(row[v], now) \/ late[w]
    BY <1>7, <2>1
  <2>4. QED
    BY <2>1, <2>2, <2>3, Zenon
<1>8. ASSUME NEW v \in Task, NEW a \in Attempt, CommitWrite(v, a)
      PROVE  late'[t] \/ late'[u]
  <2>1. CASE v # t /\ v # u
    <3>1. row'[t] = row[t] /\ row'[u] = row[u] /\ now' = now
          /\ late'[t] = late[t] /\ late'[u] = late[u]
      BY <1>8, <2>1, WrittenRow
    <3>2. late[t] \/ late[u]
      BY <1>2, <3>1
    <3>3. QED
      BY <3>1, <3>2, Zenon
  <2>2. CASE v = t
    BY <1>2, <1>7, <1>8, <2>2
  <2>3. CASE v = u
    BY <1>2, <1>7, <1>8, <2>3
  <2>4. QED
    BY <2>1, <2>2, <2>3
<1>9. QED
  BY <1>3, <1>4, <1>5, <1>6, <1>8
     DEF Next, Claiming, Select, LockRows, TryKey, CheckKey, Rollback, Write, LeaseLost,
         Die, vars

-----------------------------------------------------------------------------
(* Theorems.                                                                *)

\* The inductive invariant.
ClaimInv ==
  TypeOK /\ LockInv /\ KeyInv /\ ClaimedInv /\ WritesAreFenced /\ KeysMeetOnlyLate

\* It holds of an empty table.
LEMMA ClaimInit == Init => ClaimInv
<1> SUFFICES ASSUME Init PROVE ClaimInv
  OBVIOUS
<1>1. TypeOK
  <2>1. 0 \in Time /\ 0 \in Deadline /\ 0 \in 0 .. MaxAttempts
    BY ClaimAssumption DEF Time, Deadline
  <2>2. \A z \in Time, e \in Deadline, n \in 0 .. MaxAttempts :
          [state |-> "absent", runAt |-> 0, created |-> z, attempts |-> n,
           expires |-> e] \in Row
    BY DEF Row
  <2>3. row \in [Task -> Row]
    BY <2>1, <2>2 DEF Init
  <2>4. QED
    BY <2>1, <2>3, IdleType DEF Init, TypeOK
<1>2. \A c \in Claimer :
        /\ tx[c] = Idle /\ tx[c].start = 0 /\ tx[c].phase = "idle" /\ tx[c].keys = {}
        /\ tx[c].found = {} /\ tx[c].locked = {} /\ tx[c].claimed = {} /\ Tried(c) = {}
  BY DEF Init, Idle, Tried
<1>3. \A t \in Task : row[t].state = "absent"
  BY DEF Init
<1>4. \A t \in Task, a \in Attempt : exec[t][a].phase = "none"
  BY DEF Init, NoExec
<1>5. LockInv
  BY <1>2, <1>4 DEF LockInv
<1>6. KeyInv
  BY <1>2 DEF KeyInv
<1>7. ClaimedInv
  BY <1>2 DEF ClaimedInv, Init
<1>8. WritesAreFenced /\ KeysMeetOnlyLate
  BY <1>3, <1>4 DEF WritesAreFenced, KeysMeetOnlyLate, Live
<1>9. QED
  BY <1>1, <1>5, <1>6, <1>7, <1>8 DEF ClaimInv

\* It holds of every reachable state.
LEMMA ClaimCorrect == Spec => []ClaimInv
<1>1. ClaimInv /\ [Next]_vars => ClaimInv'
  BY TypeStep, LockStep, KeyStep, ClaimedStep, FenceStep, MeetStep DEF ClaimInv
<1>2. QED
  BY <1>1, ClaimInit, PTL DEF Spec

\* The clock, the rows, the locks and the transactions keep their types.
THEOREM TypeCorrect == Spec => []TypeOK
<1>1. ClaimInv => TypeOK
  BY DEF ClaimInv
<1>2. QED
  BY <1>1, ClaimCorrect, PTL

\* CompleteTask, FailTask, ReleaseTask and HeartbeatTask: whatever claims and
\* cancellations do, a write that has been decided commits on the attempt it
\* was decided for.
THEOREM FencedWrites == Spec => []WritesAreFenced
<1>1. ClaimInv => WritesAreFenced
  BY DEF ClaimInv
<1>2. QED
  BY <1>1, ClaimCorrect, PTL

\* ClaimTasks: a late heartbeat is the only way in which two leases of one
\* concurrency key are live at once, for any number of workers, rows and keys.
THEOREM OnlyLateKeysMeet == Spec => []KeysMeetOnlyLate
<1>1. ClaimInv => KeysMeetOnlyLate
  BY DEF ClaimInv
<1>2. QED
  BY <1>1, ClaimCorrect, PTL

\* ClaimTasks: an attempt is granted only of a row that is due when the claim
\* commits, however old the snapshot it was ranked in.
THEOREM ClaimsTakeLapsedRows == Spec => ClaimTakesLapsedRows
<1>1. ASSUME ClaimInv, [Next]_vars, NEW t \in Task, row'[t].attempts > row[t].attempts
      PROVE  Due(row[t], now)
  <2>1. TypeOK /\ LockInv /\ ClaimedInv
    BY <1>1 DEF ClaimInv
  <2>2. row[t].attempts \in Int /\ row'[t] # row[t]
        /\ row'[t].attempts # row[t].attempts
    BY <1>1, <2>1, ClaimAssumption DEF TypeOK, Row
  <2>3. \A u \in Task : ~EnqueueTask(u) /\ ~CancelTask(u)
    BY <2>1, <2>2, ApplicationRows
  <2>4. \A u \in Task, a \in Attempt : ~CommitWrite(u, a)
    BY <2>1, <2>2, WrittenRow
  <2>5. \E c \in Claimer : Commit(c)
    BY <1>1, <2>2, <2>3, <2>4
       DEF Next, Claiming, Select, LockRows, TryKey, CheckKey, Rollback, Write, LeaseLost,
           Die, Tick, vars
  <2>6. PICK c \in Claimer : Commit(c)
    BY <2>5
  <2>7. t \in tx[c].claimed
    BY <2>1, <2>2, <2>6, ClaimedRow
  <2>8. Due(row[t], tx[c].start) /\ tx[c].start <= now
    BY <2>1, <2>7 DEF ClaimedInv
  <2>9. tx[c].start \in Int /\ now \in Int /\ row[t].runAt \in Int /\ row[t].expires \in Int
    BY <2>1, ClaimAssumption DEF TypeOK, Tx, Row, Time, Deadline
  <2>10. QED
    BY <2>8, <2>9 DEF Due
<1>2. ClaimInv /\ [Next]_vars
        => [\A t \in Task : row'[t].attempts > row[t].attempts => Due(row[t], now)]_vars
  BY <1>1
<1>3. QED
  BY <1>2, ClaimCorrect, PTL DEF Spec, ClaimTakesLapsedRows
=============================================================================
