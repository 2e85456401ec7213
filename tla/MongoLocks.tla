------------------------------ MODULE MongoLocks ------------------------------
(***************************************************************************)
(* Document locks of the MongoDB adapter: adapters/mongodb/fences.go,      *)
(* lock_queue.go and transaction.go.                                       *)
(*                                                                         *)
(* MongoDB has no row lock.  A transaction locks a document by writing     *)
(* records, called fences, and the server aborts a transaction that writes *)
(* a record which another open transaction wrote or which was committed    *)
(* after its snapshot.  Until its first content write a transaction        *)
(* answers such a conflict by giving up its server transaction, waiting in *)
(* its Store's queue, and restarting on a newer snapshot, where it retakes *)
(* its locks and proves every locked document unchanged.                   *)
(*                                                                         *)
(* One action is one statement sent to the server, or one call of the lock *)
(* queue.  A document's working and live heads, which share one lock, are  *)
(* one head here.  Only the order of time matters: the 10 s wait budget    *)
(* may end any wait, and the 60 s limit of the server any transaction.     *)
(***************************************************************************)
EXTENDS Naturals, FiniteSets, SequencesExt

CONSTANTS
  Tx,          \* documentTransaction values; one is used again once it ended
  Store,       \* the replicas' Stores, each with its own lock queue
  Doc,         \* documents
  Slots,       \* bound: shared-fence slots of a document (mongoReferenceFenceSlots)
  MaxLocks,    \* bound: locks of one transaction
  Deployments  \* who runs against the database, and what for

\* storeOf: the Store a transaction is begun by.  ops: what the operation engine
\* asks of a transaction.  docs: the documents there are.  slots, and first, per
\* Store: the slots, and the one its search starts from.  slow: the transactions
\* that may outlive the server's limit.  entries: the documents a queue tracks
\* (mongoLockQueueEntries).
Deployment ==
  [storeOf : [Tx -> Store],
   ops     : [Tx -> SUBSET {"shared", "exclusive", "update", "delete"}],
   docs    : SUBSET Doc,
   slots   : 1 .. Slots,
   first   : [Store -> 0 .. Slots - 1],
   slow    : SUBSET Tx,
   entries : Nat]

ASSUME MongoLocksAssumption ==
  /\ IsFiniteSet(Tx)
  /\ Slots \in Nat \ {0}
  /\ MaxLocks \in Nat
  /\ Deployments \subseteq Deployment

VARIABLES
  deployment,
  docs,     \* documents that exist
  fences,   \* shared-fence records that exist
  server,   \* per transaction: its server transaction
  client,   \* per transaction: the documentTransaction value
  hold,     \* per transaction and document: its hold in the lock queue
  asking,   \* transactions with an exclusive request in the lock queue
  line      \* open transactions, oldest first (documentTransaction.age)

vars == <<docs, fences, server, client, hold, asking, line>>

-----------------------------------------------------------------------------
(* Records a server transaction writes.  ContentOf(d) is the content of a       *)
(* document, HeadOf(d) the stored document with its fence.                   *)

AnySlot == 0 .. Slots - 1
Slot == 0 .. deployment.slots - 1
HeadOf(d) == <<"head", d>>
ContentOf(d) == <<"body", d>>
Fence(d, s) == <<"fence", d, s>>
FenceRec == {Fence(d, s) : d \in Doc, s \in Slot}
Record == {HeadOf(d) : d \in Doc} \cup {ContentOf(d) : d \in Doc} \cup FenceRec
FencesOf(F, d) == {f \in F : f[2] = d}

\* A lock or write the engine asks for; "moved" says that the document was
\* changed between the read of a held lock and the current snapshot.
Call == [mode : {"shared", "exclusive", "update", "delete"}, doc : Doc, moved : BOOLEAN]
NoCall == [mode |-> "none"]
NoSlot == Slots

NoServer == [state |-> "none", docs |-> {}, fences |-> {}, writes |-> {}, stale |-> {}]
NoClient == [pc |-> "ended", call |-> NoCall, at |-> 0, stmt |-> "first", locks |-> <<>>,
             wrote |-> FALSE, slot |-> NoSlot, exclusive |-> {}]

Hold == [mode : {"shared", "exclusive"}, waiting : BOOLEAN, lapsed : BOOLEAN]
NoHold == [mode |-> "none"]
NoHolds == [d \in Doc |-> NoHold]

Init ==
  /\ deployment \in Deployments
  /\ docs = deployment.docs
  /\ fences = {}
  /\ server = [t \in Tx |-> NoServer]
  /\ client = [t \in Tx |-> NoClient]
  /\ hold = [t \in Tx |-> NoHolds]
  /\ asking = {}
  /\ line = <<>>

-----------------------------------------------------------------------------
(* The server. *)

Conflict(t, R) ==
  \/ R \cap server[t].stale # {}
  \/ \E u \in Tx \ {t} : R \cap server[u].writes # {}

\* A statement writing the records R fails: the server aborts, or aborted
\* already, the transaction.
Refuses(t, R) == server[t].state = "aborted" \/ (server[t].state = "open" /\ Conflict(t, R))

Accepts(t, R) == server[t].state = "open" /\ ~Conflict(t, R)

\* The contents of t's locked documents that were changed since they were
\* last compared.
LockedBodies(t) == {ContentOf(client[t].locks[i].doc) : i \in DOMAIN client[t].locks}

\* What a suspended transaction keeps: no snapshot and no fence.
Dropped(t) == [NoServer EXCEPT !.stale = server[t].stale \cap LockedBodies(t)]

\* The first statement after StartTransaction fixes the snapshot.
Snapshot(t) ==
  /\ server[t].state = "started"
  /\ client[t].pc \in {"idle", "taking", "writing"}
  /\ server' = [server EXCEPT ![t] = [NoServer EXCEPT !.state = "open", !.docs = docs, !.fences = fences]]
  /\ client' = [client EXCEPT ![t].locks =
       [i \in DOMAIN @ |-> [mode |-> @[i].mode, doc |-> @[i].doc,
                            moved |-> @[i].moved \/ ContentOf(@[i].doc) \in server[t].stale]]]
  /\ UNCHANGED <<docs, fences, hold, asking, line>>

\* transactionLifetimeLimitSeconds: the server gives up a long transaction.
ServerAborts(t) ==
  /\ t \in deployment.slow
  /\ server[t].state = "open"
  /\ server' = [server EXCEPT ![t].state = "aborted", ![t].writes = {}]
  /\ UNCHANGED <<docs, fences, client, hold, asking, line>>

-----------------------------------------------------------------------------
(* The lock queue of a Store. *)

Older(t, u) == \E i, j \in DOMAIN line : i < j /\ line[i] = t /\ line[j] = u
Peers(t) == {u \in Tx \ {t} : deployment.storeOf[u] = deployment.storeOf[t]}
Asks(u, d) == u \in asking /\ client[u].call.doc = d
Holds(u, d) == hold[u][d] # NoHold

\* The queue of t's Store tracks d already or has room for it.
Room(t, d) ==
  LET tracked == {e \in Doc : \E u \in Peers(t) \cup {t} : Holds(u, e) \/ Asks(u, e)}
  IN  d \in tracked \/ Cardinality(tracked) < deployment.entries

\* hold: at least the given mode, on a fence of the current server transaction.
Held(t, d, mode) ==
  IF ~Room(t, d) THEN hold[t]
  ELSE [hold[t] EXCEPT ![d] =
          [mode |-> IF @ # NoHold /\ @.mode = "exclusive" THEN "exclusive" ELSE mode,
           waiting |-> FALSE, lapsed |-> FALSE]]

\* wait: the fences are given up, the holds kept for younger transactions.
HoldsWait(t) ==
  [d \in Doc |-> IF Holds(t, d) THEN [hold[t][d] EXCEPT !.waiting = TRUE] ELSE NoHold]

\* Mutant of Blocks: a shared request does not wait behind an exclusive one.
BlocksByHolds(u, t) ==
  LET d == client[t].call.doc IN
  /\ Holds(u, d)
  /\ ~(client[t].call.mode = "shared" /\ hold[u][d].mode = "shared")
  /\ ~(hold[u][d].waiting /\ Older(t, u))
  /\ ~hold[u][d].lapsed

\* Mutant of Blocks: the age of a waiting holder does not matter.
BlocksWhileWaiting(u, t) ==
  LET d == client[t].call.doc
      shared == client[t].call.mode = "shared"
  IN  \/ /\ Holds(u, d)
         /\ ~(shared /\ hold[u][d].mode = "shared")
         /\ ~hold[u][d].lapsed
      \/ shared /\ Asks(u, d) /\ Older(u, t)

\* turn: u keeps t from taking its lock.
Blocks(u, t) ==
  LET d == client[t].call.doc
      shared == client[t].call.mode = "shared"
  IN  \/ /\ Holds(u, d)
         /\ ~(shared /\ hold[u][d].mode = "shared")
         /\ ~(hold[u][d].waiting /\ Older(t, u))
         /\ ~hold[u][d].lapsed
      \/ shared /\ Asks(u, d) /\ Older(u, t)

HasAlready(t) ==
  LET own == hold[t][client[t].call.doc]
  IN  own # NoHold /\ (own.mode = "exclusive" \/ client[t].call.mode = "shared")

Ready(t) == HasAlready(t) \/ \A u \in Peers(t) : ~Blocks(u, t)

\* A hold lapses when MongoDB may have aborted its server transaction.
Lapse(t, d) ==
  /\ t \in deployment.slow
  /\ Holds(t, d) /\ ~hold[t][d].lapsed
  /\ hold' = [hold EXCEPT ![t][d].lapsed = TRUE]
  /\ UNCHANGED <<docs, fences, server, client, asking, line>>

-----------------------------------------------------------------------------
(* A call ends, fails, or gives up its server transaction to wait. *)

CanRestart(t) == ~client[t].wrote

Idle(c) == [c EXCEPT !.pc = "idle", !.call = NoCall, !.at = 0, !.stmt = "first"]
Failed(c) == [Idle(c) EXCEPT !.pc = "failed"]

Suspend(t) ==
  /\ server' = [server EXCEPT ![t] = Dropped(t)]
  /\ client' = [client EXCEPT ![t].pc = "turn", ![t].at = 0, ![t].stmt = "first", ![t].exclusive = {}]
  /\ hold' = [hold EXCEPT ![t] = HoldsWait(t)]
  /\ UNCHANGED <<docs, fences, asking, line>>

\* A conflict is absorbed before the first content write and fails the call
\* after it.
Conflicted(t) ==
  IF CanRestart(t) THEN Suspend(t)
  ELSE /\ server' = [server EXCEPT ![t] = [NoServer EXCEPT !.state = "aborted"]]
       /\ client' = [client EXCEPT ![t] = Failed(@)]
       /\ asking' = asking \ {t}
       /\ UNCHANGED <<docs, fences, hold, line>>

\* The wait budget, or the caller's context, ends first.
WaitEnds(t) ==
  /\ client[t].pc = "turn" /\ server[t].state = "none"
  /\ client' = [client EXCEPT ![t] = Failed(@)]
  /\ asking' = asking \ {t}
  /\ UNCHANGED <<docs, fences, server, hold, line>>

\* Commit and Rollback: releaseLocks.
End(t) ==
  /\ client' = [client EXCEPT ![t] = NoClient]
  /\ hold' = [hold EXCEPT ![t] = NoHolds]
  /\ line' = RemoveAt(line, CHOOSE i \in DOMAIN line : line[i] = t)
  /\ UNCHANGED asking

Begin(t) ==
  /\ client[t].pc = "ended"
  /\ client' = [client EXCEPT ![t].pc = "idle"]
  /\ server' = [server EXCEPT ![t].state = "started"]
  /\ line' = Append(line, t)
  /\ UNCHANGED <<docs, fences, hold, asking>>

Rollback(t) ==
  /\ client[t].pc \in {"idle", "failed"}
  /\ server' = [server EXCEPT ![t] = NoServer]
  /\ End(t)
  /\ UNCHANGED <<docs, fences>>

\* Documents t deleted; their records and the fences it deleted with them.
Deleted(t) == {d \in Doc : ContentOf(d) \in server[t].writes /\ d \notin server[t].docs}
Removed(t) == {f \in FenceRec \cap server[t].writes : f[2] \in Deleted(t)}

\* A commit makes t's writes conflicts for the open snapshots, and changes of
\* the documents that suspended transactions locked.
Commit(t) ==
  /\ client[t].pc = "idle"
  /\ server[t].state \in {"started", "open"}
  /\ docs' = docs \ Deleted(t)
  /\ fences' = (fences \cup (FenceRec \cap server[t].writes)) \ Removed(t)
  /\ server' = [u \in Tx |->
       IF u = t THEN NoServer
       ELSE [server[u] EXCEPT !.stale = @ \cup
               IF server[u].state = "open" THEN server[t].writes
               ELSE server[t].writes \cap LockedBodies(u)]]
  /\ End(t)

-----------------------------------------------------------------------------
(* lockDocument: the queue, then restart, then takeLock. *)

LockDocument(t, d, mode) ==
  /\ client[t].pc = "idle"
  /\ Len(client[t].locks) < MaxLocks
  /\ client' = [client EXCEPT
       ![t].pc = IF CanRestart(t) THEN "turn" ELSE "taking",
       ![t].at = IF CanRestart(t) THEN 0 ELSE Len(client[t].locks) + 1,
       ![t].call = [mode |-> mode, doc |-> d, moved |-> FALSE]]
  /\ asking' = IF CanRestart(t) /\ mode = "exclusive" /\ Room(t, d) THEN asking \cup {t} ELSE asking
  /\ UNCHANGED <<docs, fences, server, hold, line>>

\* turn finds no conflicting lock: take the lock, or restart and retake all.
TakeTurn(t) ==
  LET suspended == server[t].state = "none" IN
  /\ client[t].pc = "turn"
  /\ Ready(t)
  /\ client' = [client EXCEPT ![t].pc = "taking",
                              ![t].at = IF suspended THEN 1 ELSE Len(client[t].locks) + 1]
  /\ server' = [server EXCEPT ![t].state = IF suspended THEN "started" ELSE @]
  /\ UNCHANGED <<docs, fences, hold, asking, line>>

\* turn finds one: give up the fences and wait.
AwaitTurn(t) ==
  /\ client[t].pc = "turn"
  /\ ~Ready(t)
  /\ server[t].state # "none"
  /\ Suspend(t)

\* The lock that t takes or, in a restart, retakes.
Lock(t) == (client[t].locks \o <<client[t].call>>)[client[t].at]

Taking(t, mode, stmt) ==
  /\ client[t].pc = "taking"
  /\ server[t].state \in {"open", "aborted"}
  /\ Lock(t).mode = mode
  /\ client[t].stmt = stmt

\* Mutant of Took: a retaken document is not compared.
TookUnseen(t, c) ==
  LET next == IF c.at > Len(c.locks) THEN Idle([c EXCEPT !.locks = Append(@, c.call)])
              ELSE [c EXCEPT !.at = @ + 1, !.stmt = "first"]
  IN  /\ client' = [client EXCEPT ![t] = next]
      /\ asking' = IF next.pc = "taking" THEN asking ELSE asking \ {t}

\* The last statement of takeLock: the next lock of a restart, whose document
\* must be what it was, or the end of the call.
Took(t, c) ==
  LET retaken == c.at <= Len(c.locks)
      next == IF ~retaken THEN Idle([c EXCEPT !.locks = Append(@, c.call)])
              ELSE IF c.locks[c.at].moved THEN Failed(c)
              ELSE [c EXCEPT !.at = @ + 1, !.stmt = "first"]
  IN  /\ client' = [client EXCEPT ![t] = next]
      /\ asking' = IF next.pc = "taking" THEN asking ELSE asking \ {t}

\* The predicate selects nothing: ErrConflict in a restart, else not found.
NotFound(t) ==
  /\ client' = [client EXCEPT ![t] = IF @.at <= Len(@.locks) THEN Failed(@) ELSE Idle(@)]
  /\ asking' = asking \ {t}
  /\ UNCHANGED <<docs, fences, server, hold, line>>

\* takeLock, exclusive: FindOneAndUpdate of the head.
FenceHead(t) ==
  /\ Taking(t, "exclusive", "first")
  /\ LET d == Lock(t).doc
         R == IF d \in server[t].docs THEN {HeadOf(d)} ELSE {}
     IN  \/ Refuses(t, R) /\ Conflicted(t)
         \/ Accepts(t, R) /\ R = {} /\ NotFound(t)
         \/ /\ Accepts(t, R) /\ R # {}
            /\ server' = [server EXCEPT ![t].writes = @ \cup R]
            /\ client' = [client EXCEPT ![t].stmt = "rest"]
            /\ UNCHANGED <<docs, fences, hold, asking, line>>

\* fenceSharedFences, then holdExclusive.
FenceSharedFences(t) ==
  /\ Taking(t, "exclusive", "rest")
  /\ LET d == Lock(t).doc
         R == FencesOf(server[t].fences, d)
     IN  \/ Refuses(t, R) /\ Conflicted(t)
         \/ /\ Accepts(t, R)
            /\ server' = [server EXCEPT ![t].writes = @ \cup R]
            /\ hold' = [hold EXCEPT ![t] = Held(t, d, "exclusive")]
            /\ Took(t, [client[t] EXCEPT !.exclusive = @ \cup {d}])
            /\ UNCHANGED <<docs, fences, line>>

\* fenceSlot: the first least used slot of the Store, kept until the end.
Users(t, s) == Cardinality({u \in Peers(t) : client[u].slot = s})
SlotFor(t) ==
  LET slot(offset) == (deployment.first[deployment.storeOf[t]] + offset) % deployment.slots
      best == CHOOSE o \in Slot :
                \A p \in Slot : \/ Users(t, slot(o)) < Users(t, slot(p))
                                \/ Users(t, slot(o)) = Users(t, slot(p)) /\ o <= p
  IN  IF client[t].slot # NoSlot THEN client[t].slot ELSE slot(best)

\* takeLock, shared: FindOne on the snapshot; an exclusive lock suffices.
ReadShared(t) ==
  /\ Taking(t, "shared", "first")
  /\ LET d == Lock(t).doc
     IN  \/ Refuses(t, {}) /\ Conflicted(t)
         \/ Accepts(t, {}) /\ d \notin server[t].docs /\ NotFound(t)
         \/ /\ Accepts(t, {}) /\ d \in server[t].docs /\ d \in client[t].exclusive
            /\ Took(t, client[t])
            /\ UNCHANGED <<docs, fences, server, hold, line>>
         \/ /\ Accepts(t, {}) /\ d \in server[t].docs /\ d \notin client[t].exclusive
            /\ client' = [client EXCEPT ![t].stmt = "rest", ![t].slot = SlotFor(t)]
            /\ UNCHANGED <<docs, fences, server, hold, asking, line>>

\* Mutant of TakeSharedFence: a new record is inserted without the head.
TakeOwnFence(t) ==
  /\ Taking(t, "shared", "rest")
  /\ LET d == Lock(t).doc
         f == Fence(d, client[t].slot)
         exists == f \in server[t].fences
         R == IF exists THEN {f} ELSE {}
     IN  \/ Refuses(t, R) /\ Conflicted(t)
         \/ /\ Accepts(t, R)
            /\ server' = [server EXCEPT ![t].writes = @ \cup R]
            /\ IF exists
               THEN hold' = [hold EXCEPT ![t] = Held(t, d, "shared")] /\ Took(t, client[t])
               ELSE client' = [client EXCEPT ![t].stmt = "insert"] /\ UNCHANGED <<hold, asking>>
            /\ UNCHANGED <<docs, fences, line>>

\* takeSharedFence: increment the record of the slot or, to create it,
\* increment the fence of the head first.
TakeSharedFence(t) ==
  /\ Taking(t, "shared", "rest")
  /\ LET d == Lock(t).doc
         f == Fence(d, client[t].slot)
         exists == f \in server[t].fences
         R == IF exists THEN {f} ELSE {HeadOf(d)}
     IN  \/ Refuses(t, R) /\ Conflicted(t)
         \/ /\ Accepts(t, R)
            /\ server' = [server EXCEPT ![t].writes = @ \cup R]
            /\ IF exists
               THEN hold' = [hold EXCEPT ![t] = Held(t, d, "shared")] /\ Took(t, client[t])
               ELSE client' = [client EXCEPT ![t].stmt = "insert"] /\ UNCHANGED <<hold, asking>>
            /\ UNCHANGED <<docs, fences, line>>

InsertFence(t) ==
  /\ Taking(t, "shared", "insert")
  /\ LET f == Fence(Lock(t).doc, client[t].slot)
     IN  \/ Refuses(t, {f}) /\ Conflicted(t)
         \/ /\ Accepts(t, {f})
            /\ server' = [server EXCEPT ![t].writes = @ \cup {f}, ![t].fences = @ \cup {f}]
            /\ hold' = [hold EXCEPT ![t] = Held(t, Lock(t).doc, "shared")]
            /\ Took(t, client[t])
            /\ UNCHANGED <<docs, fences, line>>

-----------------------------------------------------------------------------
(* Content writes end the restartable prefix.  They do not ask the queue.  *)

\* Update locks the document first (lockForWrite), unless it holds the lock;
\* Delete writes the head at once.  A second write of a document would change
\* nothing here.
Write(t, d, op) ==
  /\ client[t].pc = "idle"
  /\ ContentOf(d) \notin server[t].writes
  /\ client' = [client EXCEPT
       ![t].pc = "writing", ![t].wrote = TRUE,
       ![t].call = [mode |-> op, doc |-> d, moved |-> FALSE],
       ![t].stmt = IF op = "delete" \/ d \in client[t].exclusive THEN "content" ELSE "first"]
  /\ UNCHANGED <<docs, fences, server, hold, asking, line>>

Writing(t, stmt) ==
  /\ client[t].pc = "writing"
  /\ server[t].state \in {"open", "aborted"}
  /\ client[t].stmt = stmt

\* lockForWrite: the head, if it exists.
FenceForWrite(t) ==
  /\ Writing(t, "first")
  /\ LET d == client[t].call.doc
         R == IF d \in server[t].docs THEN {HeadOf(d)} ELSE {}
     IN  \/ Refuses(t, R) /\ Conflicted(t)
         \/ /\ Accepts(t, R)
            /\ server' = [server EXCEPT ![t].writes = @ \cup R]
            /\ client' = [client EXCEPT ![t].stmt = "rest"]
            /\ UNCHANGED <<docs, fences, hold, asking, line>>

\* lockForWrite: the shared fences, then holdExclusive.
FenceSharedForWrite(t) ==
  /\ Writing(t, "rest")
  /\ LET d == client[t].call.doc
         R == FencesOf(server[t].fences, d)
     IN  \/ Refuses(t, R) /\ Conflicted(t)
         \/ /\ Accepts(t, R)
            /\ server' = [server EXCEPT ![t].writes = @ \cup R]
            /\ hold' = [hold EXCEPT ![t] = Held(t, d, "exclusive")]
            /\ client' = [client EXCEPT ![t].stmt = "content", ![t].exclusive = @ \cup {d}]
            /\ UNCHANGED <<docs, fences, asking, line>>

\* The update itself, or Delete's FindOneAndDelete, which the deletion of the
\* document's shared fences follows.
WriteContent(t) ==
  /\ Writing(t, "content")
  /\ LET d == client[t].call.doc
         deletes == client[t].call.mode = "delete"
         exists == d \in server[t].docs
         R == IF exists THEN {HeadOf(d), ContentOf(d)} ELSE {}
     IN  \/ Refuses(t, R) /\ Conflicted(t)
         \/ /\ Accepts(t, R)
            /\ server' = [server EXCEPT ![t].writes = @ \cup R,
                                        ![t].docs = IF deletes THEN @ \ {d} ELSE @]
            /\ client' = [client EXCEPT ![t] =
                 IF exists /\ deletes THEN [@ EXCEPT !.stmt = "fences"] ELSE Idle(@)]
            /\ UNCHANGED <<docs, fences, hold, asking, line>>

\* Mutant of DeleteSharedFences: the records are only incremented.
FenceDeleted(t) ==
  /\ Writing(t, "fences")
  /\ LET R == FencesOf(server[t].fences, client[t].call.doc)
     IN  \/ Refuses(t, R) /\ Conflicted(t)
         \/ /\ Accepts(t, R)
            /\ client' = [client EXCEPT ![t] = Idle(@)]
            /\ UNCHANGED <<docs, fences, server, hold, asking, line>>

DeleteSharedFences(t) ==
  /\ Writing(t, "fences")
  /\ LET R == FencesOf(server[t].fences, client[t].call.doc)
     IN  \/ Refuses(t, R) /\ Conflicted(t)
         \/ /\ Accepts(t, R)
            /\ server' = [server EXCEPT ![t].writes = @ \cup R, ![t].fences = @ \ R]
            /\ client' = [client EXCEPT ![t] = Idle(@)]
            /\ UNCHANGED <<docs, fences, hold, asking, line>>

-----------------------------------------------------------------------------

Statement(t) ==
  \/ FenceHead(t) \/ FenceSharedFences(t)
  \/ ReadShared(t) \/ TakeSharedFence(t) \/ InsertFence(t)
  \/ FenceForWrite(t) \/ FenceSharedForWrite(t)
  \/ WriteContent(t) \/ DeleteSharedFences(t)

Engine(t) ==
  \/ Begin(t) \/ Commit(t) \/ Rollback(t)
  \/ \E d \in deployment.docs :
       \/ \E mode \in deployment.ops[t] \cap {"shared", "exclusive"} : LockDocument(t, d, mode)
       \/ \E op \in deployment.ops[t] \cap {"update", "delete"} : Write(t, d, op)

Next ==
  /\ \E t \in Tx :
       \/ Engine(t)
       \/ TakeTurn(t) \/ AwaitTurn(t) \/ WaitEnds(t)
       \/ Snapshot(t) \/ Statement(t)
       \/ ServerAborts(t) \/ \E d \in deployment.docs : Lapse(t, d)
  /\ UNCHANGED deployment

Spec == Init /\ [][Next]_<<vars, deployment>>

\* Statements are answered, goroutines run, and every transaction is ended:
\* an operation makes finitely many calls.  No wait is assumed to time out.
Fairness ==
  \A t \in Tx :
    /\ WF_vars(\/ TakeTurn(t) \/ AwaitTurn(t) \/ Statement(t)
               \/ client[t].pc # "idle" /\ Snapshot(t))
    /\ SF_vars(Commit(t) \/ Rollback(t))

FairSpec == Spec /\ Fairness

-----------------------------------------------------------------------------

Server ==
  [state : {"none", "started", "open", "aborted"}, docs : SUBSET Doc,
   fences : SUBSET FenceRec, writes : SUBSET Record, stale : SUBSET Record]

Client ==
  [pc : {"ended", "idle", "turn", "taking", "writing", "failed"},
   call : Call \cup {NoCall}, at : 0 .. MaxLocks + 1,
   stmt : {"first", "rest", "insert", "content", "fences"},
   locks : Seq(Call), wrote : BOOLEAN, slot : Slot \cup {NoSlot},
   exclusive : SUBSET Doc]

TypeOK ==
  /\ deployment \in Deployments
  /\ docs \subseteq deployment.docs
  /\ fences \subseteq FenceRec
  /\ server \in [Tx -> Server]
  /\ client \in [Tx -> Client]
  /\ \A t \in Tx : Len(client[t].locks) <= MaxLocks
  /\ hold \in [Tx -> [Doc -> Hold \cup {NoHold}]]
  /\ asking \subseteq Tx
  /\ line \in Seq(Tx)

\* The locks a client c holds in its present server transaction s.  One that
\* failed in a restart can only be rolled back.
Taken(s, c) ==
  {i \in DOMAIN c.locks : /\ s.state = "open" /\ c.pc # "failed"
                          /\ c.pc = "taking" => i < c.at}

TakenLocks(t) == Taken(server[t], client[t])

\* fences.go, lockDocument and restart: while a server transaction stands,
\* every document the engine received under a lock is still what it received,
\* whatever committed between the restarts.
LockedDocumentsAreCurrent ==
  \A t \in Tx : \A i \in TakenLocks(t) :
    /\ ~client[t].locks[i].moved
    /\ ContentOf(client[t].locks[i].doc) \notin server[t].stale

\* fences.go: an exclusive lock conflicts with every other lock of an existing
\* document, also with a shared one whose record its snapshot cannot see.
ExclusiveExcludes ==
  \A t, u \in Tx :
    t # u /\ server[t].state = "open" /\ server[u].state = "open" =>
      \A d \in docs \cap client[t].exclusive :
        d \notin client[u].exclusive \cup {client[u].locks[i].doc : i \in TakenLocks(u)}

\* fences.go: "they are removed with it".  No shared fence outlives its
\* document, although references race with the deletion.
NoOrphanFence == \A f \in fences : f[2] \in docs

\* lock_queue.go: "waiting transactions cannot form a cycle".
Waiting(t) == client[t].pc = "turn" /\ server[t].state = "none" /\ ~Ready(t)
NoWaitCycle ==
  \A S \in SUBSET {t \in Tx : Waiting(t)} :
    S # {} => \E t \in S : \A u \in S \ {t} : u \notin Peers(t) \/ ~Blocks(u, t)

\* fences.go: "a stream of references cannot starve" an exclusive lock.
ExclusiveIsServed ==
  \A t \in {u \in Tx : \E D \in Deployments : "exclusive" \in D.ops[u]} :
    client[t].call.mode = "exclusive" /\ client[t].pc \in {"turn", "taking"}
      ~> client[t].pc \notin {"turn", "taking"}

-----------------------------------------------------------------------------
(* What makes these properties inductive.                                   *)

\* A server transaction s, where D and F are the committed documents and
\* fences: what it wrote is still there and conflicts with nothing that was
\* committed since its snapshot; what it does not see, or sees no more, it
\* changed itself or would meet as a conflict at the head or the fence.
SoundView(s, D, F) ==
  /\ s.state # "open" => s.writes = {}
  /\ s.writes \cap s.stale = {}
  /\ \A d \in Doc :
       /\ HeadOf(d) \in s.writes => d \in D
       /\ ContentOf(d) \in s.writes => HeadOf(d) \in s.writes
       /\ \A n \in AnySlot : Fence(d, n) \in s.writes =>
            d \in D /\ (Fence(d, n) \in s.fences \/ HeadOf(d) \in s.writes)
  /\ s.state = "open" => \A d \in Doc :
       /\ d \in D \ s.docs => HeadOf(d) \in s.writes
       /\ d \in s.docs \ D => HeadOf(d) \in s.stale
       /\ \A n \in AnySlot :
            /\ Fence(d, n) \in F \ s.fences =>
                 HeadOf(d) \in s.stale \/ Fence(d, n) \in s.writes
            /\ Fence(d, n) \in s.fences \ F =>
                 Fence(d, n) \in s.stale \/ HeadOf(d) \in s.writes
       /\ ContentOf(d) \in s.stale =>
            HeadOf(d) \in s.stale /\ FencesOf(s.fences, d) \subseteq s.stale

ServerInv ==
  /\ \A t \in Tx : SoundView(server[t], docs, fences)
  /\ \A t, u \in Tx : t # u => server[t].writes \cap server[u].writes = {}
  /\ \A d \in Doc, n \in AnySlot : Fence(d, n) \in fences => d \in docs

\* The lock a client is taking.
LockOf(c) == (c.locks \o <<c.call>>)[c.at]

\* s wrote the head of d, or all shared fences of d that it sees; s wrote one of
\* them.
WroteAll(s, d) == FencesOf(s.fences, d) \subseteq s.writes
Covers(s, d) ==
  HeadOf(d) \in s.writes \/ FencesOf(s.fences, d) \cap s.writes # {}

\* A client c: its call, the locks it has and the one it is at.
SoundCall(c) ==
  /\ c.pc = "ended" => c = NoClient
  /\ c.pc \in {"idle", "turn"} => c.stmt = "first"
  /\ c.pc \in {"turn", "taking", "writing"} => c.call \in Call
  /\ c.pc \in {"turn", "taking"} => Len(c.locks) < MaxLocks /\ ~c.call.moved
  /\ c.pc = "taking" => c.at \in 1 .. Len(c.locks) + 1
  /\ c.pc = "writing" => c.wrote

\* A client c and its server transaction s: without a snapshot nothing is held;
\* with one, an exclusive lock has written the head and the fences, every lock
\* that is held has written a record of its document, and between two
\* statements the records of the lock or write in progress are written, and a
\* shared lock has its slot and has read its document.
SoundLocks(s, c) ==
  /\ c.pc = "ended" => s = NoServer
  /\ s.state \in {"none", "started"} =>
       /\ c.exclusive = {}
       /\ c.stmt = "first" \/ (c.stmt = "content" /\ c.call.mode = "delete")
  /\ s.state = "started" => c.locks = <<>> \/ (c.pc = "taking" /\ c.at = 1)
  /\ s.state = "open" =>
       /\ \A d \in c.exclusive : (HeadOf(d) \in s.writes \/ d \notin s.docs) /\ WroteAll(s, d)
       /\ \A d \in Doc : ContentOf(d) \in s.writes =>
            WroteAll(s, d) \/ (c.pc = "writing" /\ c.stmt = "fences" /\ c.call.doc = d)
       /\ \A i \in Taken(s, c) : ~c.locks[i].moved /\ Covers(s, c.locks[i].doc)
       /\ c.pc = "taking" =>
            /\ c.stmt = "insert" \/ (c.stmt = "rest" /\ LockOf(c).mode = "exclusive")
                 => HeadOf(LockOf(c).doc) \in s.writes
            /\ c.stmt = "insert" \/ (c.stmt = "rest" /\ LockOf(c).mode = "shared")
                 => c.slot # NoSlot
            /\ c.stmt = "rest" /\ LockOf(c).mode = "shared" => LockOf(c).doc \in s.docs
       /\ c.pc = "writing" =>
            /\ c.stmt = "rest" => HeadOf(c.call.doc) \in s.writes \/ c.call.doc \notin s.docs
            /\ c.stmt = "content" => c.call.mode = "delete" \/ c.call.doc \in c.exclusive
            /\ c.stmt = "fences" => ContentOf(c.call.doc) \in s.writes

ClientInv == \A t \in Tx : SoundCall(client[t]) /\ SoundLocks(server[t], client[t])

\* The open transactions are in line, each once, and one without a server
\* transaction holds locks only for younger ones.
LineInv ==
  /\ \A i, j \in DOMAIN line : line[i] = line[j] => i = j
  /\ \A t \in Tx : client[t].pc # "ended" <=> \E i \in DOMAIN line : line[i] = t
  /\ \A t \in Tx, d \in Doc : server[t].state = "none" /\ Holds(t, d) => hold[t][d].waiting
=============================================================================
