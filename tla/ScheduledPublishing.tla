------------------------- MODULE ScheduledPublishing -------------------------
(***************************************************************************)
(* Scheduled publication (core/publishing.go): a task of the durable queue  *)
(* publishes or unpublishes a document of module Publication, while authors *)
(* change the document, workers crash or lose their lease, and handlers    *)
(* fail before, in or after the commit of the publication.                  *)
(*                                                                         *)
(* The queue is what TaskContract allows, which TaskQueue implements; its  *)
(* variables are status, attempts, owner and result.  A handler of a lost   *)
(* lease keeps running.                                                     *)
(***************************************************************************)
EXTENDS Publication

CONSTANTS
  Task,         \* task ids
  Action,       \* {"publish", "unpublish"}
  Given,        \* what callers give for ExpectedRevision, 0 for none
  MaxAttempts,  \* TaskRetries
  Scheduled     \* bound: the tasks each configuration may schedule

ASSUME SchedulingAssumption ==
  /\ Action \subseteq {"publish", "unpublish"}
  /\ Given \subseteq Nat
  /\ MaxAttempts \in Nat \ {0}
  /\ \A c \in Configs : Scheduled[c] \subseteq Task

VARIABLES
  status, attempts, owner, result,  \* the queue
  input,    \* what each task is asked to do
  claimed,  \* the tasks whose row is in state running
  exec,     \* running handlers
  done      \* history: how often each task committed, by the life of the document

Queue == INSTANCE TaskContract WITH NoKey <- "", KeyOf <- [t \in Task |-> "document"]

queueVars == <<status, attempts, owner, result>>
vars == <<docVars, queueVars, input, claimed, exec, done>>

\* expected: ExpectedRevision.  revision, content and life: history, the
\* document as PublicationTarget found it.
NoInput == [action |-> "none", expected |-> 0, revision |-> 0, content |-> Empty, life |-> 0]
Inputs == [action : Action, expected : Nat, revision : Nat, content : Contents, life : Nat]

Outcomes == {"running", "ok", "abort", "retry"}
Handlers == [task : Task, attempt : Nat, outcome : Outcomes]

ScheduleInit ==
  /\ Init
  /\ Queue!Init
  /\ input = [t \in Task |-> NoInput]
  /\ claimed = {}
  /\ exec = {}
  /\ done = [t \in Task |-> [l \in 1 .. config.maxLives |-> 0]]

-----------------------------------------------------------------------------
(* Scheduling. *)

\* The revision that PublicationTarget finds is captured if the caller gives
\* none; one that is given is stored as it is, whether it is behind the
\* document, of it, or ahead of it.
Schedule(t, action, given) ==
  /\ t \in Scheduled[config] /\ input[t] = NoInput
  /\ Stored /\ ~doc.trashed
  /\ action = "unpublish" => doc.status = "published"
  /\ input' = [input EXCEPT ![t] =
                 [action |-> action, expected |-> IF given = 0 THEN doc.revision ELSE given,
                  revision |-> doc.revision, content |-> doc.content, life |-> lives]]
  /\ UNCHANGED <<docVars, queueVars, claimed, exec, done>>

\* enqueueTask, in a transaction of its own: the target must still exist.
Enqueue(t) ==
  /\ input[t] # NoInput /\ Stored
  /\ Queue!Submit(t)
  /\ UNCHANGED <<docVars, input, claimed, exec, done>>

\* CancelScheduledPublication: DismissTaskForTarget.
Dismiss(t) ==
  /\ Stored /\ ~doc.trashed
  /\ t \notin claimed /\ status[t] \in {"open", "failed"}
  /\ Queue!Remove({t})
  /\ UNCHANGED <<docVars, input, claimed, exec, done>>

\* An author's operation.
Write_(A) == A /\ UNCHANGED <<queueVars, input, claimed, exec, done>>

\* The document is deleted with the tasks that refer to it.
DeleteAll ==
  /\ Delete
  /\ Queue!Remove({t \in Task : status[t] # "absent"})
  /\ claimed' = {}
  /\ UNCHANGED <<input, exec, done>>

-----------------------------------------------------------------------------
(* Workers. *)

\* A due task is claimed; one that was tried too often fails at once.
Claim(t) ==
  /\ Queue!Grant({t})
  /\ claimed' = claimed \cup {t}
  /\ exec' = exec \cup {[task |-> t, attempt |-> attempts[t] + 1,
                         outcome |-> IF attempts[t] < MaxAttempts THEN "running" ELSE "abort"]}
  /\ attempts[t] <= MaxAttempts  \* bound: the attempts that fail at once
  /\ UNCHANGED <<docVars, input, done>>

Returned(h, outcome) == (exec \ {h}) \cup {[h EXCEPT !.outcome = outcome]}

\* The requesting user is gone or may not publish, or a hook rejects it.
Reject(h) ==
  /\ h.outcome = "running"
  /\ exec' = Returned(h, "abort")
  /\ UNCHANGED <<docVars, queueVars, input, claimed, done>>

\* The database or a hook fails before the commit.
Break(h) ==
  /\ h.outcome = "running"
  /\ exec' = Returned(h, "retry")
  /\ UNCHANGED <<docVars, queueVars, input, claimed, done>>

\* Mutant of Fenced: the task publishes whatever it finds.
Unfenced(t) == Stored

\* ExpectedRevision.
Fenced(t) == doc.revision = input[t].expected

\* LocalAPI.Publish or Unpublish commits; a hook may fail after the commit, or
\* the answer to the commit be lost.
Commit(h) ==
  LET t == h.task IN
  /\ h.outcome = "running"
  /\ Fenced(t)
  /\ IF input[t].action = "publish" THEN Publish(doc.content) ELSE Unpublish(doc.content)
  /\ done' = [done EXCEPT ![t][lives] = @ + 1]
  /\ exec' \in {Returned(h, "ok"), Returned(h, "retry")}
  /\ UNCHANGED <<queueVars, input, claimed>>

\* Mutant of Conflict: a document at another revision has been published already.
ConflictIsDone(h) ==
  /\ h.outcome = "running"
  /\ ~Fenced(h.task)
  /\ exec' = Returned(h, "ok")
  /\ UNCHANGED <<docVars, queueVars, input, claimed, done>>

\* The document is gone, in the trash or at another revision, may not be
\* published as it is, or is not published.
Conflict(h) ==
  LET t == h.task IN
  /\ h.outcome = "running"
  /\ \/ ~Stored \/ doc.trashed \/ ~Fenced(t)
     \/ input[t].action = "publish" /\ doc.content \notin Complete
     \/ input[t].action = "unpublish" /\ doc.status = "draft"
  /\ exec' = Returned(h, "abort")
  /\ UNCHANGED <<docVars, queueVars, input, claimed, done>>

Owns(h) == status[h.task] = "open" /\ owner[h.task] = h.attempt

Return(h) ==
  /\ exec' = exec \ {h}
  /\ claimed' = claimed \ {h.task}
  /\ UNCHANGED <<docVars, input, done>>

Succeed(h) == h.outcome = "ok" /\ Owns(h) /\ Queue!Succeed(h.task) /\ Return(h)

\* FailTask: the task is queued again, or fails for good.
Requeue(h) ==
  /\ h.outcome = "retry" /\ attempts[h.task] < MaxAttempts
  /\ Owns(h) /\ Queue!Lapse({h.task}) /\ Return(h)

Fail(h) ==
  /\ h.outcome = "abort" \/ (h.outcome = "retry" /\ attempts[h.task] >= MaxAttempts)
  /\ Owns(h) /\ Queue!Fail(h.task) /\ Return(h)

\* A worker that shuts down returns the lease, whatever its handler did.
Release(h) == Owns(h) /\ Queue!Lapse({h.task}) /\ Return(h)

\* The process of a handler stops, or its lease was lost.
Drop(h) ==
  /\ exec' = exec \ {h}
  /\ UNCHANGED <<docVars, queueVars, input, claimed, done>>

\* The lease of a task expires.
Expire(t) ==
  /\ owner[t] # 0
  /\ Queue!Lapse({t})
  /\ UNCHANGED <<docVars, input, claimed, exec, done>>

ScheduleNext ==
  \/ Write_(Author) \/ DeleteAll
  \/ \E t \in Task :
       \/ \E a \in Action, given \in Given : Schedule(t, a, given)
       \/ Enqueue(t) \/ Dismiss(t) \/ Claim(t) \/ Expire(t)
  \/ \E h \in exec :
       Reject(h) \/ Break(h) \/ Commit(h) \/ Conflict(h) \/ Succeed(h) \/ Requeue(h) \/ Fail(h) \/ Release(h) \/ Drop(h)

ScheduleSpec == ScheduleInit /\ [][ScheduleNext]_vars

-----------------------------------------------------------------------------

ScheduleTypeOK ==
  /\ TypeOK
  /\ input \in [Task -> Inputs \cup {NoInput}]
  /\ claimed \subseteq Task
  /\ exec \subseteq Handlers
  /\ done \in [Task -> [1 .. config.maxLives -> Nat]]

\* core/publishing.go:22 and drafts-and-versions.md, "a later edit makes the job
\* stale rather than publishing unexpected content".  Whatever happened between
\* scheduling and running, and however often the task was retried, it publishes
\* or withdraws the version of the revision it was given (but for a reference
\* that was cleared since).  In the life of the document it was scheduled in:
\* never, if the document had left that revision already; what the document was
\* then, if it was at that revision, as it is when the revision was captured.
\* A revision that was given ahead of the document names what a later edit
\* makes of it.
PublishesWhatWasScheduled ==
  [][\A t \in Task : done'[t] # done[t] =>
       /\ \E v \in versions :
            v.revision = input[t].expected /\ doc'.content \in {v.content, Cleared(v.content)}
       /\ input[t].action = "publish" => live'.content = doc'.content
       /\ input[t].action = "unpublish" => live' = NoLive
       /\ input[t].life = lives =>
            /\ input[t].expected >= input[t].revision
            /\ input[t].expected = input[t].revision =>
                 doc'.content \in {input[t].content, Cleared(input[t].content)}]_vars

\* tasks.md, "Delivery is at least once": a publication is not repeated by its
\* redelivery, and a task that is reported to have succeeded did publish.
PublicationHappensOnce ==
  \A t \in Task :
    /\ \A l \in 1 .. config.maxLives : done[t][l] <= 1
    /\ status[t] = "succeeded" => \E l \in 1 .. config.maxLives : done[t][l] = 1

\* drafts-and-versions.md, "A deleted user, changed role, removed collection, stale
\* revision, or failed hook leaves an actionable failed scheduled task rather
\* than silently changing publication": a failed task has changed nothing.
FailedChangedNothing ==
  \A t \in Task : status[t] = "failed" => \A l \in 1 .. config.maxLives : done[t][l] = 0
=============================================================================
