# Ridu in TLA+

Specifications of [riducms/ridu](../src/README.md), a content system in Go: what its concurrent and failure-prone parts
do, statement by statement where that matters, what they promise, and proofs of the most important promises. Paths
below are relative to `src/`. `PROJECT.json` maps every definition to the lines it models.

## 1. The system

An application is one Go process, or several over one database. It embeds `core`, which owns schemas, authentication,
tasks, uploads and previews; `internal/operation` runs every create, read, update, publish and delete through access
rules and hooks inside one store transaction; an adapter (`adapters/sqlite`, `adapters/postgres`, `adapters/mongodb`)
implements the store. HTTP (`internal/httpapi`) and the plugins are clients of `core`.

| Component | State | Operations | What makes it correct | Here |
|---|---|---|---|---|
| Task queue: `core/task.go`, `core/execute.go`, `adapters/sqlite/tasks.go` | rows of `ridu_tasks`, one execution per claimed row in a worker | enqueue, claim, heartbeat, complete, fail, release, cancel, dismiss, prune | a key and a row have one owner; a late execution changes nothing; every task settles | `TaskQueue`, `TaskContract`, `TaskQueueProofs` |
| Retry policy: `core/task.go` | none | delay of the next attempt | growth without overflow, a delay the store accepts | `RetryPolicy`, `RetryPolicyProofs` |
| PostgreSQL claim: `adapters/postgres/tasks.go` | rows with row locks, transactions with a start time | claim in several statements, fenced updates | as above, under read committed | `PostgresTaskClaim`, `PostgresTaskClaimProofs` |
| Authentication: `core/auth.go`, `adapters/sqlite/auth.go` | credential, lockout counter, sessions, API keys, reset token of an account | log in, rotate, revoke, change or reset the password, create keys, trash and delete the account | nothing rests on a password that was replaced; a lock holds | `AuthSessions`, `AuthSessionsProofs` |
| Document locks on MongoDB: `adapters/mongodb/fences.go`, `lock_queue.go`, `transaction.go` | fence records, server transactions, one queue per Store | lock shared or exclusive, suspend, restart, write, delete, commit, roll back | locks exclude; a restart keeps what the engine read; no deadlock, no starvation | `MongoLocks`, `MongoLocksProofs` |
| Preview tokens: `core/preview.go` | registry of grants, a mutex and an epoch | mint, read, revoke, fence of a deletion | no grant and no answer outlives its document or account | `PreviewTokens`, `PreviewTokensProofs` |
| Documents, versions, published heads: `adapters/sqlite/documents.go`, `internal/operation/engine.go` | working and live head with revision and status, version rows | create, save a draft, publish, unpublish, discard, restore, trash, delete, clear a reference, prune versions | readers see what was published last; heads and history agree | `Publication`, `PublicationContract`, `PublicationProofs` |
| Scheduled publishing: `core/publishing.go` | task rows with an expected revision | schedule, cancel, run | a publication happens once, and publishes the version of the revision it was given | `ScheduledPublishing`, `PublicationProofs` |
| Reference deletes: `internal/referenceindex`, `internal/operation/engine.go`, `adapters/sqlite/documents.go` | reference index, stack of nested deletes, marks of the transaction | restrict, nullify, cascade, roll back | nothing refers to what is gone; what is owned goes and nothing else | `ReferenceDeletes`, `ReferenceDeletesProofs` |
| Authoring locks: `core/locks.go`, adapters | one lease row per document | acquire, take over, release | one owner, by a clock of each process | planned |
| Uploads: `core/uploads.go`, `internal/uploads`, `adapters/*/upload_locks.go` | stored objects, object locks | stage, claim, roll back, clean up | no committed reference to a deleted object | planned |
| Migrations: `migration`, `adapters/mongodb/migration_lease.go` | ledger, lease | plan, run phases, renew | one runner at a time | lease planned, planning out of reach |
| Queries, HTTP, plugins, CLI, generators, admin | no concurrent state of their own | | | not modelled |

Components meet in five ways. A document's deletion removes, in its transaction, the tasks that refer to it
(`TaskQueue`, `ScheduledPublishing`), and the sessions of the account it is (`AuthSessions`), and clears the references
to it in the heads of other documents (`ReferenceDeletes`, and seen from such a document `Publication`); its commit is
fenced in the preview registry (`PreviewTokens`); on MongoDB it takes the document's locks (`MongoLocks`). A task
handler calls back into the operation engine: `ScheduledPublishing` is the composition of `Publication` with
`TaskContract`, which `TaskQueue` is proved to implement. The transport authenticates before it calls `core`.

The hard behaviours: executions that outlive their lease; crashes, pauses and graceful shutdowns of workers; a claim
made of several statements; bcrypt and hooks between a read and the write that rests on it; a transaction that is
replaced by a newer one in its middle; IDs that are used again after a deletion; a handler that committed and is run
again; deletes that nest, meet each other in cycles and fail in the middle; hooks that write in the transaction they
run in. `PROJECT.json` lists each hazard with its line and the properties that would show it going wrong.

## 2. The modules

### TaskQueue, TaskContract, TaskQueueProofs

One action is one store call, which the adapter runs in one `BEGIN IMMEDIATE` transaction; between two calls of one
execution anything may happen. `row` is the table. Time is relative: a row holds the time left to `run_at`,
`lease_expires_at` and `retain_until`, and `Tick` ages them all. The random lease token is the number of the attempt,
which is as fresh. `exec[w][t]` is the goroutine of worker `w` for task `t` in the phases claimed, handling and one
outcome; `cycle` is the place of the worker in `runTasks`, which joins its batch before it prunes and claims again.
`Pause` lets time pass without heartbeats, `Crash` forgets the executions, `Shutdown` drains them. A lost reply of the
store is a failed call followed by a crash or an expiry. `Timely` says that a process that runs beats in time: the
heartbeat's period is a third of the lease.

Left open: which due rows a claim takes (`PostgresTaskClaim` has the order), and what a handler decides. The
application's reconciler can only err. Input that cannot be decoded is an abort. An abort after the attempt's deadline
becomes a `task_timeout` retry in the code and is a retry here.

`TaskContract` is the abstract promise: a task is open, owned by at most one attempt, settled once by its owner.
`Contract == INSTANCE TaskContract WITH ...` maps the rows to it and `ImplementsContract` is checked and proved.

### RetryPolicy, RetryPolicyProofs

`taskRetryDelay` and the checks of `FailTask` over integers that wrap at a constant, with milliseconds that have a
fraction. 100 attempts of at most 30 days stay below 2^63 ns, so the linear product cannot overflow in the real width;
the small width of the run makes the doubling reach its boundary. The assumption on the width is just that product.

### PostgresTaskClaim, PostgresTaskClaimProofs

The claim of `adapters/postgres/tasks.go` under read committed: ranked select on a snapshot, row locks with skip,
re-check of the row, advisory lock of the key, check of the key, update, commit; `now()` is the start of the
transaction and may be in the past. Updates (heartbeat, completion, failure, release) wait for the row and re-evaluate
their predicate. The LIMIT is taken large enough and two keys never share an advisory lock.

### AuthSessions, AuthSessionsProofs

One account. A hash is a serial number (bcrypt salts each), its password, whether its cost is current, and, as history,
the serial of the hash that set the password (`epoch`); sessions and keys carry the epoch they were made under. A
request keeps only what later steps use, with the clock it read when it began: of a credential whose password does not
match, nothing. Every store call is one step, so hooks and bcrypt lie between steps. The compensating deletion after a
failing after-hook is a second transaction that may fail. Lockout is enabled; API keys do not expire; clean-up that
deletes rows which are gone already is left out. A password reset reads its clock immediately before its transaction and
is one step with it. Reset tokens survive a change of the password, as in the code.

### MongoLocks, MongoLocksProofs

A server transaction has a snapshot (`docs`, `fences`), the records it wrote and the records that were committed after
its snapshot (`stale`). A statement that writes a record in either set of conflicts aborts it; this is MongoDB's rule
and is external, with the 60 s limit (`ServerAborts`, only for `Slow`). `client` is the `documentTransaction`: where it
is in `lockDocument`, `restart`, `takeLock` or a write, its locks, its fence slot, whether it `wrote`. `hold`, `asking`
and `line` are the lock queue of each Store: holds with their mode and whether they wait, exclusive requests, and age.
One action is one statement or one call of the queue. The working and the live head of a document share one lock and are
one head. An unknown commit is a commit or an abort at that moment. Backoff and wait budgets may end at any time.
Documents are not created again. A read without a lock only fixes the snapshot.

### PreviewTokens, PreviewTokensProofs

One action is one critical section of the registry's mutex or one read of the database. `mu` is held from
`beginPermanentDeleteFence` to its release, over the commit, which may fail or succeed. `life` is the database: each ID
has incarnations with a creation time; grants carry the creation times, as the code does, and the incarnations as
history. A request that mints captures the epoch, authenticates, resolves the account, finds the target, stores the
grant; one that reads looks the token up, loads the account, finds the document, loads the account again and looks the
token up again. `DeleteElsewhere` is a deletion by another process, which has another registry; such an ID
is made again only at a later instant, because against another process the creation times are the only guard. An ID
whose deletions all pass the fence may be made again at the same instant. A global is a target that is never deleted.
Access rules may refuse a read at any time.

### Publication, PublicationContract, PublicationProofs

One document of a collection with drafts, as `internal/operation/engine.go` drives `adapters/sqlite/documents.go`. An
operation locks the row it read, in one immediate transaction, hence one action; a patch is merged into what was read,
so any content may be saved. `doc` is the row of `ridu_documents`, `live` of `ridu_published_documents` (of revision 0
if there is none), `versions` the rows of `ridu_versions`. The status is the one that is stored: a draft of a published
document is saved with status `published` and marks the live head as pending. Content is a required text, which a draft
may lack, and one optional reference, which the deletion of its target clears in both heads without a new revision. A
restore runs the operation that the status of the version calls for. `lives` is history: an ID may be created again.

`PublicationContract` is the promise to readers and authors: what is public is what was published last. `Contract` maps
the two heads to it, `PublicIsPublished` states that every step is one of the contract's.

### ScheduledPublishing, proved in PublicationProofs

`Publication` and `TaskContract` composed: `status`, `attempts`, `owner` and `result` are the contract's, so whatever
`TaskQueue` can do to a task happens here. Scheduling reads the document (`Schedule`) and enqueues in a transaction
of its own (`Enqueue`). The caller may give a revision, which is stored without comparing it to the document's; given
none, the document's is captured (`core/publishing.go:73-76`). `exec` holds the running handlers, also those whose lease
was lost. A handler commits the publication of the content it finds if the revision is the one stored; it may be broken
before, or answer with an error after its
commit (a hook after the commit, a lost reply); its process may stop at any time (`Drop`) and its worker may shut down
(`Release`). `done` counts the commits of each task in each life of the document.

### ReferenceDeletes, ReferenceDeletesProofs

One transaction that deletes documents, alone with the rows it has locked. A frame of `stack` is one running delete of
the engine: its hooks, the owners it still has to delete (`deleteCascadeOwners`), the check and the clearing of the
remaining references (`ApplyReferenceDelete`), its row. `pending` and `deleted` are the marks of `transactionState`,
`rollbackOnly` its doom after a nested failure, `error` what a nested operation has just returned. `db` has the working
and live references of each document and the reference index. Hooks may delete and write in the transaction, and may
ignore an error. A batch deletes several documents, each once: duplicate IDs are rejected
(`internal/operation/engine.go:2021-2031`). Policies belong to pairs of documents, which is what the fields of
their collections come to. Owners are visited in the order of their IDs, as the code sorts them.

## 3. The runs

| Run | Instance | Properties |
|---|---|---|
| `task_safety` | 2 tasks of one key and one document, 2 workers, 2 attempts, 1 fault, leases of 2 ticks | `OneLiveLeasePerKey`, `OneOwnerPerKey`, `HandlerRunsAreBounded`, `ResultIsOfLastAttempt`, `AttemptsArePaidFor`, `NoOrphanTask`, `ImplementsContract` |
| `task_liveness` | `FairSpec`, 1 attempt, one task without a handler | `EveryTaskSettles`, `TerminalRowsArePruned` |
| `retry_policy` | integers up to 63, milliseconds of 2, delays up to 12, 5 attempts | `DelayIsCappedGrowth`, `FailTaskAcceptsDelay` |
| `pg_claim` | 2 tasks of one key, 2 claimers, 2 attempts, clock up to 2 | `KeysMeetOnlyLate`, `WritesAreFenced`, `ClaimTakesLapsedRows` |
| `pg_key` | violation; start times now and past | `OneLiveLeasePerKey` |
| `auth_sessions` | 2 requests, 2 passwords, 3 hashes, 3 tokens, lock after 2 failures, clock up to 1 | `SessionsOfCurrentPassword`, `KeysOfCurrentPassword`, `RotationsAreSerial`, `LockHolds`, `NoReplacementIsOverwritten`, `NothingNewForTrashed` |
| `mongo_locks` | 2 transactions of two Stores, 1 document, all operations, 2 locks each, one may be aborted by the server; or of one Store, 2 documents: one locks, the other locks, updates and deletes, with a queue that has room for both; or with room for one, a shared locker and one that locks and updates | `ExclusiveExcludes`, `LockedDocumentsAreCurrent`, `NoOrphanFence`, `NoWaitCycle` |
| `mongo_stream` | `FairSpec`, one exclusive and two shared lockers of one document for ever | `ExclusiveIsServed` |
| `preview_tokens` | 1 request, an account and 2 documents of two lives each, one deleted by another process as well; 2 tokens, 2 fenced commits, clock up to 1 | `TypeOK`, `GrantsOfTheLiving`, `GrantsOfTheAuthenticated`, `AnswersAreOfTheGrant`, `NoAnswerAfterDelete` |
| `reference_deletes` | every graph of 3 documents without self references; self references; a document that is not there; graphs of up to 3 references with one hook action; single deletes and batches of two; depth 3, 2 repeats | `NothingDangles`, `OwnedDocumentsGo`, `OnlyOwnedDocumentsGo`, `RestrictionsHold`, `RejectionsAreJustified` |
| `scheduled_publishing` | authors alone: 2 texts and an incomplete one, 5 revisions, 2 versions kept, 2 lives; or one task of 2 attempts, scheduled without a revision or with revision 2: 2 contents, 3 revisions, 2 lives | `HeadsAgree`, `HistoryIsRecent`, `PublicIsPublished`, `PublishesWhatWasScheduled`, `PublicationHappensOnce` |
| `scheduled_failed` | violation; one task, one life | `FailedChangedNothing` |

Types are proved of every component, and were checked with TLC before they were proved; only the types of
`PreviewTokens`, which include the limits of the registry, are a property of a run.

Each property is paired with a mutant in `PROJECT.json`: a definition of the model changed as a plausible bug would
change the code, under which the run fails.

**Bounds.** Two tasks of one key are the least that can share it, two workers the least of which one can be stale while
the other owns; two attempts reach a retry and the dead letter; one fault reaches every recovery, and a second one only
repeats it on a later attempt. Leases of 2 ticks separate "about to lapse" from "lapsed". Two requests per account
interleave every pair of operations, and three hashes, the first of the configured cost or of a lower one, allow a
change and an upgrade, or two changes of which one was under way during the other. Two failures to a lock separate the
first failure from the one that locks, and a lock of one tick is in force at one instant and over at the next; a reset
token is asked for while its expiry is still within the clock's bound. In `MongoLocks` one document shows every conflict
of records and two show a restart that retakes one lock for another and the shortest cycle of waits; the starvation of
an exclusive request takes two lockers that relieve each other, hence three transactions. Transactions of two Stores
meet only in the database; a queue with room for one document is full for the other. In `PreviewTokens` two lives of an
ID are a deletion and its re-use, and two fenced commits the deletion of the account and of a document. One request is
enough: each of its steps is one critical section or one read, all it shares with another is the registry, and a token
it minted before stands for the other's. In `ReferenceDeletes` three documents are the least in which a cascade reaches
a restriction or a cycle that it did not start in, depth 3 is met by a chain of cascades with a hook's delete at its
end, and one hook action at every point of a delete is a write or a delete in the middle of it. The index is the union
of both heads, so a document without a live head, one without references in its working head and one with both cover the
heads. In `ScheduledPublishing` the authors reach with five revisions: create, publish, draft, discard or restore, and
one operation upon it; two kept versions are the least of which one can be old. With a task, three revisions are the
scheduled one, an edit or the publication, and its retry; a given revision of 2 is ahead of a document at its first,
current at its second and behind at its third; two lives are a deletion and a re-use of the ID at the same revision. One
task is enough: to a task, the commit of another is a publication that an author might have made, and the queue's own
rules for several tasks are `TaskQueue`'s. Deadlock is checked for `TaskQueue`; the other instances really stop: their
clocks and counters are bounded, and a client need not begin anything.

The liveness run of `TaskQueue` has one attempt: a retry only puts a row back, as a lapse does, and how often it may is
the safety run's `AttemptsArePaidFor`.

**Symmetry** is used only for safety runs, over sets whose members the constants treat alike.

**Fairness.** `TaskQueue`: time passes, a process that runs polls, its goroutines proceed, a handler returns because
the attempt's timeout cancels its context, and a paused or stopped process comes back. Faults are bounded and not fair.
`MongoLocks`: a statement is answered and a goroutine that may proceed does (weak fairness of each transaction's call);
an operation makes finitely many calls and then ends its transaction (strong fairness of commit or rollback, since a
call may begin before each). Timeouts are never needed: no fairness is given to `WaitEnds`, `ServerAborts` or `Lapse`.

## 4. What the violations show, and what was met on the way

- `pg_key`: a heartbeat of PostgreSQL is judged by the start of its transaction and takes no lock of the key. One that
  began in time and commits after a claim of another row of the key leaves two live leases. `KeysMeetOnlyLate` shows that
  this is the only way. SQLite (`BEGIN IMMEDIATE`) and MongoDB (a guard document per key) do not have it.
- `scheduled_failed`: a handler whose publication committed, and that then fails in a hook after the commit, loses its
  reply, its lease or its process, is run again, meets the revision that it wrote itself, and aborts
  (`core/publishing.go:267`). The publication changed and its task is a failed one, against
  `website/src/content/docs/drafts-and-versions.md:332-334`. `PublicationHappensOnce` shows the other half: the same
  comparison keeps the retry from publishing twice.

Observations that no run carries:

- A graceful shutdown releases a task, but its attempt stays counted: released in its last attempt it is dead-lettered
  at the next claim (`core/task.go:557`, `:691`), while `website/src/content/docs/tasks.md:233` promises immediate
  recovery. `AttemptsArePaidFor` counts such a release.
- Content writes on MongoDB do not ask the lock queue, so a younger transaction changes a document that an older one
  waits with (`adapters/mongodb/fences.go:291`), against the comment at `adapters/mongodb/lock_queue.go:28-30`. The older
  one is not wrong afterwards: `LockedDocumentsAreCurrent` holds, its restart reports a conflict.
- Whether a delete is accepted can depend on the order of IDs. C refers to B by a restrict field, C and B to A by cascade
  fields: deleting A is rejected if B comes before C, for C is not deleted yet, and accepted if C comes first, though in
  both cases no surviving document refers to B (`website/src/content/docs/relationships.md:106-107`).
  `RejectionsAreJustified` therefore asks for a restrict field in the tree, not for a survivor.
- Clearing a reference changes the content of both heads and not their revision, so the comparison of revisions
  (`internal/operation/engine.go:962`) does not see it. `PublishesWhatWasScheduled` allows for it.
- A revision that is given ahead of the document's, say by a caller who read the document before it was deleted and made
  anew, is accepted: a later edit reaches it, and the task publishes what that edit saved. The comment at
  `core/publishing.go:22` says "rejects the task when the document changes before it runs", which is true of a revision
  that is captured or current, and of one that is behind. `PublishesWhatWasScheduled` says what holds of each: always the
  version of the revision that was given, none if it was behind, what was scheduled if it was current.
- A handler that outlived the deletion of its task may meet a document that was made anew under its ID at the revision it
  was given, and publish it. `PublishesWhatWasScheduled` promises no more than the version of that revision outside the
  life in which the task was scheduled.
- A publication and a withdrawal that are scheduled together capture the same revision: the first makes the second
  stale.
- A token minted over HTTP for an account that another process deleted and recreated while the mint was under way is not
  covered by the epoch, which belongs to one process. `GrantsOfTheAuthenticated` leaves out such accounts.

## 5. What is proved

Everything below holds for every value of the constants: any numbers of tasks, workers, claimers, requests,
transactions, documents and hook actions, all limits and durations. Every safety invariant and action property that a
passing run checks is a theorem. The assumptions are the named `ASSUME` of each module, which give the constants their
types. Beyond types, `ReferenceDeletesAssumption` says that a transaction begins on a finite database whose index
matches its heads and that a batch names a document once; `PreviewAssumption` that an ID has at least one life;
`RetryAssumption` that the integers hold the largest linear product; `MongoLocksAssumption` that there are finitely many
transactions and `ClaimAssumption` that names of claimers and attempts differ.

Each invariant named below was checked with TLC on the run's instance before it was proved.

**TaskQueueProofs.** `TypeCorrect`. `KeySafety` (`[]OneLiveLeasePerKey`): the invariant is inductive by itself on typed
states. `LiveStep` shows that a row becomes live only by a claim and that heartbeats extend what is live already;
`KeyStep` that a claim takes a row of a key only while no other row of the key is live, and at most one of them.
`AttemptInv` is the bookkeeping behind fencing: a running row's token is its number of attempts, and no execution is
ahead of its row. It is needed because `HandlerRunsAreBounded` says nothing of the rows and so does not survive a claim
by itself. `AttemptsCorrect` proves both together; `HandlerRuns` and `ResultFencing` follow. `OwnerExclusion`
(`[]OneOwnerPerKey`) combines them: two owners of one row carry the same token, hence the same attempt, hence are one
execution; two owners of one key have two live rows.
`AttemptBudget` (`[]AttemptsArePaidFor`) rests on `PaidInv`: the count alone does not survive a claim, so an open task
that has used up what is paid for must be in the hands of a worker that beats and settles it, or a fault is due before
the next claim; and a worker claims only when its batch is done. `NoOrphans` needs no strengthening beyond types.
`QueueRefinesContract` maps every action to a step of `TaskContract` or a stutter, one lemma for each kind of change of
a row (a claim, a settlement by the owner, a return to the queue, a removal), with `AttemptInv` for the owner and
`ImageInv` for rows without an attempt; several rows that one action changes are one step of the contract, which speaks
of sets of tasks.

**AuthSessionsProofs.** `TypeCorrect`, with `LockoutInv` (an account that is not locked has failures left) to bound the
counter. `SessionSafety` and `APIKeySafety`: every session and key was made under the password in force. They rest on
`HashInv` (a salt names one hash, so a request that finds the salt it compared finds the hash it compared, with its
password and epoch), shown by `HashMoves` and `HashStep`, and on `TokenInv` inside `AccessInv` (a token is issued once,
so a session found again is the one that was read). `ReplacedPasswordStays` is the action property
`NoReplacementIsOverwritten`: by `ReplacesWhatItHolds` a request replaces the hash it compared and no other.
`LockSafety` (`LockHolds`): `LockMoves` lists the ways in which a lock in force ends; `ClockInv` says that a request
began in the past, so that its old clock cannot see a lock expired that the clock still sees in force. `RotationSafety`
(`[]RotationsAreSerial`) rests on `RotationInv`: an answered rotation has retired the token it presented, and no session
is found under it again. `TrashedStaysClosed` is `NothingNewForTrashed`.

**PostgresTaskClaimProofs.** `ClaimInv` joins four invariants over the statements of a claim. `LockInv`: a claim has
locked the rows it has in hand, and a write its own row. `KeyInv`: a claim holds the advisory lock of every key it tries
or has claimed, no other claim does, and it ranked one row of each key. `ClaimedInv`: a claimed row stays due until the
claim commits, and another row of its key can become live meanwhile only by a late extension; it is needed because the
check of the key and the commit are different statements. From it follow `FencedWrites`, `OnlyLateKeysMeet` and the
action property `ClaimsTakeLapsedRows`.

**MongoLocksProofs.** `LocksInv` is `TypeOK` and three invariants. `ServerInv` ties each snapshot to the database: where
they differ, the transaction wrote the record, or somebody else did and the record is stale for it; no two open
transactions wrote one record; a stored fence has its document. `ClientInv` says at each statement of a lock, restart or
write which records the transaction wrote: a shared lock wrote the head or one fence it sees (`Covers`), an exclusive
lock the head and every fence it sees (`WroteAll`). `LineInv` concerns the queue. `NoOrphanFences` is a part of
`ServerInv`. `ExclusiveLocksExclude` (by `Apart`): the other lock did not write the head, which the exclusive one wrote,
so it wrote a fence it sees; that fence is still stored, and who wrote the head and every fence of its snapshot wrote
every stored fence (`WroteCommitted`): two writers of one record. `LockedStayCurrent`: a taken lock covers its document,
and a record that covers a document whose content is stale is stale too, which no write survives. `NoWaitCycles`: of any
set that waits the oldest waits for none of the others.

**PublicationProofs.** One lemma for each operation states its effect on the two heads (`SaveDraftEffect`,
`PublishEffect`, ...); `AuthorOperates` reduces a restore to the operation it runs. From the effects alone follow
`TypeCorrect`, `HeadsAlwaysAgree` (`HeadsAgree` is inductive on typed states) and the refinement `PublicationIsPublic`,
step by step, with `HeadsAgree` as the invariant: without it a discard would not be a reset to what is public.
`HistoryStaysRecent` (`[]HistoryIsRecent`) rests on `HistoryInv`: the versions are exactly the last revisions
(`Recent`), those of the current revisions hold what the heads hold (`Rows`), and no head refers to a target that is
gone (`NoDangling`, without which a discard could bring back a cleared reference). The model prunes by counting the
newer rows, so `NewerRows` computes that cardinality: revisions are an interval, each of one row.

The composition with `ScheduledPublishing` is in the same module. `ScheduleOperates` shows that every step of it is a
document operation or leaves the document alone, which carries the invariants and the refinement over
(`HeadsAgreeUnderSchedules`, `HistoryUnderSchedules`, `PublicUnderSchedules`). `PublishedOnce` rests on `OnceInv`: a
task that committed in a life of the document has its expected revision behind it for the rest of that life (`Past`),
since revisions only grow (`OperationGrows`), so the fence can never open for it again. `PublishedAsScheduled` rests on
`FenceInv`: within the life in which a task was scheduled the document is never behind the revision it had then, and
while it is at that revision its content is what it was, but for a cleared reference. No assumption is made of the
revision that the task was given; that it names a stored version at the commit is `HistoryUnderSchedules`.

**ReferenceDeletesProofs.** `NoDanglingReference`: `Consistent(db)` is inductive, for a row and the references to it go
together (`ClearedDatabase`) and a hook writes head and index together (`WrittenDatabase`). `OwnersAreDeleted` and
`RestrictFieldsRestrict` rest on `RowInv`: unless the transaction is doomed, every reference row that was ever seen is
still in the index, or its owner was deleted, or it is a nullify reference, or its owner is marked as being deleted. At
the commit no mark is left, which needs `Marks` (every mark has a frame). Only what is in the index can block, and what
was deleted is not in it, so neither the order of owners nor the interleaving of hooks matters.
`OnlyTheOwnedAreDeleted` is the converse, by `OwnedInv`: what is deleted *or being deleted* is in the tree of what was
asked for *and begun* (`TreeInv`); both halves are needed, for a hook asks in the middle of a delete that may fail. The
tree is the least set closed under ownership, of which only closure and leastness are used (`TreeIsLeast`).
`RejectionsHaveReasons` rests on `CalmInv`: without hooks the running deletes are of different documents that are still
stored, and every owner of a document whose owners were listed is on the list, marked, or gone. So a listed owner is
never started twice, nothing is left that a cascade field could block with, and a stack as deep as the limit, whose
documents all lie in the tree, needs a tree that is larger (`StackFits`).

**PreviewTokensProofs.** `Standing(e, inc)` says that the incarnation that was read is still there unless a fence that
is held is about to remove it; `Recorded` that for what another process deletes the creation time tells the incarnation.
`TokenInv` has both of every grant. `MintInv` has them of a mint under way *as long as the epoch is the one it began
with*: that condition is what the comparison of epochs establishes when the grant is stored. `ReadInv` ties a read to
its token: if the token is still in the registry, what was read is what the grant names. `TypeCorrect` (with the
limits), `GrantsLive`, `GrantsAuthenticated`, `AnswersFaithful` and `DeletedIsNotAnswered` follow.

**RetryPolicyProofs.** `DelaysFollowPolicy`: the guarded loop over wrapping integers computes the capped growth over
unbounded ones. The loop and the growth are recursive functions. That they exist (`DelaysExist`, `PowersExist`), and
that they agree at every attempt (`ExponentialGrowth`), is shown by a least counterexample: a nonempty set of naturals
has a least element, and the step before it holds. `DelaysAreAccepted` adds the rounding of fractions of a millisecond
(`RoundedUp`) and the limits that `FailTask` checks.

**Only model-checked.** Liveness under fairness (`EveryTaskSettles`, `TerminalRowsArePruned`, `ExclusiveIsServed`),
which is out of the prover's reach: the argument needs `ENABLED` of the fair actions. The two violations are
counterexamples.

## 6. What is not modelled

Wording, logging, encodings and layout, schemas and access rules (they may refuse at any time), and reads without
effect. Collections without drafts, unique indexes, localized fields, and, for documents and reference deletes, the
statements of the PostgreSQL and MongoDB adapters, whose transactions give the same view of the rows they lock; the
locks that MongoDB needs for that are in `MongoLocks`. Hooks that write outside of deletes: they are operations of their
own on other documents. The MongoDB task store, which settles keys by a guard document. Migration planning, queries,
generators, the CLI and the browser interface, which are computations over large data or have no concurrent state and
make up most of the repository's lines. The rate limiter of logins and the limiter of bcrypt work, which only end a
request early. A handler that ignores its context for ever, which keeps its worker from claiming.

## 7. Plan

1. `UploadObjects`: staged objects, object locks and cleanup around transactions of unknown outcome
   (`core/uploads.go:701`).
2. `MigrationLease` and `DocumentLocks`: leases by the server's clock and by a process clock
   (`adapters/mongodb/migration_lease.go:229`).
3. The MongoDB task store, on the transactions of `MongoLocks`.
4. Proofs: that the statements of `PostgresTaskClaim` implement `TaskContract`, for as long as keys do not meet late.
