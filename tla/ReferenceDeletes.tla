--------------------------- MODULE ReferenceDeletes ---------------------------
(***************************************************************************)
(* Hard deletes and the references to what they delete:                    *)
(* internal/operation/engine.go (Execute, ExecuteBatch,                    *)
(* deleteCascadeOwners), internal/referenceindex/reference.go and the      *)
(* reference index of adapters/sqlite/documents.go.                        *)
(*                                                                         *)
(* A document is deleted by one operation in one transaction.  The         *)
(* operation first deletes, by nested operations, the owners that refer to *)
(* the document through a cascade field, then lets a restrict field reject *)
(* the delete, clears the remaining references in the working and live     *)
(* heads of their owners, and removes the row.  The hooks of each delete   *)
(* run in the transaction and may write and delete documents themselves,   *)
(* and may ignore that a delete of theirs failed.                          *)
(*                                                                         *)
(* One transaction is modelled.  It is alone with the documents it locks,  *)
(* so only its own operations interleave: a frame of the stack is one      *)
(* running delete.  The documents of all collections are numbered in the   *)
(* order of their collection and document IDs.                             *)
(***************************************************************************)
EXTENDS Naturals, FiniteSets, SequencesExt

CONSTANTS
  Doc,        \* documents, in the order of their IDs
  Cases,      \* the databases a transaction may start from
  Batches,    \* what it may be asked for: sequences of documents to delete, each once
  MaxDepth,   \* nested operations (Engine.maxDepth)
  MaxRepeats  \* nested deletes of one document (repeatedFrame)

Policies == {"nullify", "restrict", "cascade"}

\* stored: the documents with a row.  working, live: the documents that a head
\* refers to; a document without a live head has no references there.  index:
\* the rows of ridu_document_references, as owner and target.
Databases ==
  [stored : SUBSET Doc, working : [Doc -> SUBSET Doc], live : [Doc -> SUBSET Doc],
   index : SUBSET (Doc \X Doc)]

\* The index has the rows of the working and live heads and no other, and both
\* ends of each are stored.
Consistent(d) ==
  /\ \A o \in Doc : d.working[o] \cup d.live[o] = {t \in Doc : <<o, t>> \in d.index}
  /\ \A r \in d.index : r[1] \in d.stored /\ r[2] \in d.stored

\* policy[o][t]: OnDelete of the field by which o may refer to t.
\* hooks: how often the hooks of the transaction act.
ASSUME ReferenceDeletesAssumption ==
  /\ Doc \subseteq Nat
  /\ Cases \subseteq [policy : [Doc -> [Doc -> Policies]], db : Databases, hooks : Nat]
  /\ \A c \in Cases : Consistent(c.db) /\ IsFiniteSet(c.db.stored)
  /\ Batches \subseteq Seq(Doc) \ {<<>>}
  /\ \A b \in Batches : IsInjective(b)
  /\ MaxDepth \in Nat \ {0}
  /\ MaxRepeats \in Nat \ {0}

VARIABLES
  policy,        \* the collections' OnDelete policies
  db,            \* the database as the transaction sees it
  before,        \* the database as it was begun, which a rollback restores
  batch,         \* documents that are still to be deleted for the caller
  stack,         \* running delete operations, the innermost last
  pending,       \* transactionState.pendingDeletes
  deleted,       \* transactionState.referenceDeleteDeletedOwners
  rollbackOnly,  \* transactionState.rollbackOnly # nil
  error,         \* the error a nested operation has just returned
  hooks,         \* bound: actions the hooks may still take
  asked,         \* history: the deletes that were asked for, the hooks' references
  outcome        \* what the caller was told

vars == <<policy, db, before, batch, stack, pending, deleted, rollbackOnly, error,
          hooks, asked, outcome>>

\* by: who runs the operation and receives its result.
Frame == [doc : Doc, phase : {"before", "owners", "after"}, todo : SUBSET Doc,
          by : {"caller", "cascade", "hook"}]
Codes == {"not_found", "delete_restricted", "operation_recursion", "aborted", "hook_failed"}
NoError == [code |-> "none", by |-> "caller"]

Init ==
  /\ \E c \in Cases :
       /\ policy = c.policy
       /\ db = c.db
       /\ before = c.db
       /\ hooks = c.hooks
  /\ batch \in Batches
  /\ stack = <<>>
  /\ pending = {}
  /\ deleted = {}
  /\ rollbackOnly = FALSE
  /\ error = NoError
  /\ asked = [deletes |-> ToSet(batch), writes |-> {}, hooked |-> FALSE]
  /\ outcome = "running"

-----------------------------------------------------------------------------
(* The reference index. *)

OwnersOf(t) == {o \in Doc : <<o, t>> \in db.index}

\* CascadeOwners: the owners whose own delete has not started.
CascadeOwnersOf(t, started) ==
  {o \in OwnersOf(t) \ (started \cup {t}) : policy[o][t] = "cascade"}

\* ApplyReferenceDelete: the document itself and the owners deleted before do
\* not count, unless a hook stored them again.
Remaining(t) == OwnersOf(t) \ ({t} \cup (deleted \ db.stored))

\* Mutant of Blocking: a reference from an owner that is being deleted blocks.
BlockingEvenPending(t) == {o \in Remaining(t) : policy[o][t] # "nullify"}

\* Mutant of Blocking: a cascade owner never blocks.
BlockingRestrictOnly(t) == {o \in Remaining(t) : policy[o][t] = "restrict"}

\* Mutant of Blocking: a restrict field never blocks.
BlockingCascadeOnly(t) == {o \in Remaining(t) \ pending : policy[o][t] = "cascade"}

\* BlocksDelete: a cascade owner that is not being deleted appeared meanwhile.
Blocking(t) ==
  {o \in Remaining(t) : policy[o][t] = "restrict" \/ (policy[o][t] = "cascade" /\ o \notin pending)}

\* The database without row, heads and index rows of t, whose references in
\* the given heads of the remaining owners are cleared.
WithoutRow(t, working, live) ==
  [stored |-> db.stored \ {t},
   working |-> [o \in Doc |-> IF o = t THEN {} ELSE working[o]],
   live |-> [o \in Doc |-> IF o = t THEN {} ELSE live[o]],
   index |-> {r \in db.index : r[1] # t /\ ~(r[2] = t /\ r[1] \in Remaining(t))}]

Without(t, head) == [o \in Doc |-> IF o \in Remaining(t) THEN head[o] \ {t} ELSE head[o]]

\* Mutant of Cleared: only the working head is cleared.
ClearedInWorking(t) == WithoutRow(t, Without(t, db.working), db.live)

\* ApplyReferenceDelete, which clears both heads and replaces the owners' index
\* rows, and Delete.
Cleared(t) == WithoutRow(t, Without(t, db.working), Without(t, db.live))

-----------------------------------------------------------------------------
(* Operations are called, fail and return. *)

Top == Last(stack)
Running == outcome = "running" /\ error = NoError
Repeats(d) == Cardinality({i \in DOMAIN stack : stack[i].doc = d})

\* The admission of Execute(Delete or DeletePermanent), and the row's lock.
Refusal(d) ==
  IF Len(stack) >= MaxDepth \/ Repeats(d) >= MaxRepeats THEN "operation_recursion"
  ELSE IF rollbackOnly THEN "aborted"
  ELSE IF d \notin db.stored THEN "not_found"
  ELSE "none"

\* Mutant of Aborts: a nested failure leaves the transaction usable.
NeverAborts(by) == rollbackOnly

\* A nested operation that fails marks the transaction: the caller of the
\* operation may ignore the error, the commit does not.
Aborts(by) == rollbackOnly \/ by # "caller"

\* d is deleted for the frames, and the error, if any, returned to them.
Start(d, by, frames) ==
  LET refusal == Refusal(d) IN
  /\ stack' = IF refusal = "none"
              THEN Append(frames, [doc |-> d, phase |-> "before", todo |-> {}, by |-> by])
              ELSE frames
  /\ error' = IF refusal = "none" THEN NoError ELSE [code |-> refusal, by |-> by]
  /\ rollbackOnly' = IF refusal = "not_found" THEN Aborts(by) ELSE rollbackOnly

Unmarked == IF Top.phase = "before" THEN pending ELSE pending \ {Top.doc}

\* The running operation returns an error.
Fail(code) ==
  /\ stack' = Front(stack)
  /\ pending' = Unmarked
  /\ rollbackOnly' = Aborts(Top.by)
  /\ error' = [code |-> code, by |-> Top.by]

-----------------------------------------------------------------------------
(* The steps of a delete. *)

\* Execute of one document, or ExecuteBatch of several.
NextRequest ==
  /\ Running /\ stack = <<>> /\ batch # <<>>
  /\ batch' = Tail(batch)
  /\ Start(Head(batch), "caller", <<>>)
  /\ UNCHANGED <<policy, db, before, pending, deleted, hooks, asked, outcome>>

\* Mutant of ListOwners: the delete is not marked as started.
ListUnmarked ==
  /\ Running /\ stack # <<>> /\ Top.phase = "before"
  /\ Top.doc \in db.stored
  /\ stack' = [stack EXCEPT ![Len(stack)].phase = "owners",
                            ![Len(stack)].todo = CascadeOwnersOf(Top.doc, pending)]
  /\ UNCHANGED <<policy, db, before, batch, pending, deleted, rollbackOnly, error, hooks, asked, outcome>>

\* The BeforeDelete and BeforeOperation hooks are over.  A document that they
\* deleted is gone; else its delete has started and its owners are listed.
ListOwners ==
  /\ Running /\ stack # <<>> /\ Top.phase = "before"
  /\ IF Top.doc \notin db.stored
     THEN Fail("not_found")
     ELSE /\ pending' = pending \cup {Top.doc}
          /\ stack' = [stack EXCEPT ![Len(stack)].phase = "owners",
                                    ![Len(stack)].todo = CascadeOwnersOf(Top.doc, pending')]
          /\ UNCHANGED <<rollbackOnly, error>>
  /\ UNCHANGED <<policy, db, before, batch, deleted, hooks, asked, outcome>>

NextOwner == CHOOSE o \in Top.todo : \A p \in Top.todo : o <= p

\* deleteCascadeOwners: the next owner, unless the cascade of an earlier one
\* started or finished its delete.
DeleteOwner ==
  /\ Running /\ stack # <<>> /\ Top.phase = "owners" /\ Top.todo # {}
  /\ LET advanced == [stack EXCEPT ![Len(stack)].todo = @ \ {NextOwner}]
     IN  IF NextOwner \in pending \cup deleted
         THEN stack' = advanced /\ UNCHANGED <<error, rollbackOnly>>
         ELSE Start(NextOwner, "cascade", advanced)
  /\ UNCHANGED <<policy, db, before, batch, pending, deleted, hooks, asked, outcome>>

\* The owners are gone: the references that are left reject the delete or are
\* cleared, and row and state of the document are deleted.
DeleteRow ==
  /\ Running /\ stack # <<>> /\ Top.phase = "owners" /\ Top.todo = {}
  /\ IF Blocking(Top.doc) # {} \/ Top.doc \notin db.stored
     THEN /\ Fail(IF Blocking(Top.doc) # {} THEN "delete_restricted" ELSE "not_found")
          /\ UNCHANGED <<db, deleted>>
     ELSE /\ db' = Cleared(Top.doc)
          /\ deleted' = deleted \cup {Top.doc}
          /\ stack' = [stack EXCEPT ![Len(stack)].phase = "after"]
          /\ UNCHANGED <<pending, rollbackOnly, error>>
  /\ UNCHANGED <<policy, before, batch, hooks, asked, outcome>>

\* The AfterDelete and AfterOperation hooks are over.
Return ==
  /\ Running /\ stack # <<>> /\ Top.phase = "after"
  /\ stack' = Front(stack)
  /\ pending' = Unmarked
  /\ UNCHANGED <<policy, db, before, batch, deleted, rollbackOnly, error, hooks, asked, outcome>>

\* A nested operation failed.  deleteCascadeOwners goes on if its owner was not
\* found, and a hook may ignore the error or return one.
Handle ==
  /\ outcome = "running" /\ stack # <<>> /\ error # NoError
  /\ \/ /\ error.by = "hook" \/ error.code = "not_found"
        /\ error' = NoError
        /\ UNCHANGED <<stack, pending, rollbackOnly>>
     \/ error.by = "hook" /\ Fail("hook_failed")
     \/ error.by = "cascade" /\ error.code # "not_found" /\ Fail(error.code)
  /\ UNCHANGED <<policy, db, before, batch, deleted, hooks, asked, outcome>>

\* The operation, or one of the batch, failed: the transaction is rolled back.
Rollback ==
  /\ outcome = "running" /\ stack = <<>> /\ error # NoError
  /\ outcome' = error.code
  /\ db' = before
  /\ UNCHANGED <<policy, before, batch, stack, pending, deleted, rollbackOnly, error, hooks, asked>>

\* commitTransaction.
Commit ==
  /\ Running /\ stack = <<>> /\ batch = <<>>
  /\ outcome' = IF rollbackOnly THEN "aborted" ELSE "committed"
  /\ db' = IF rollbackOnly THEN before ELSE db
  /\ UNCHANGED <<policy, before, batch, stack, pending, deleted, rollbackOnly, error, hooks, asked>>

-----------------------------------------------------------------------------
(* What a hook of the running delete may do in its transaction. *)

HookRuns == Running /\ stack # <<>> /\ Top.phase \in {"before", "after"} /\ hooks > 0

\* It deletes a document.
HookDeletes(d) ==
  /\ HookRuns
  /\ hooks' = hooks - 1
  /\ asked' = [asked EXCEPT !.deletes = @ \cup {d}, !.hooked = TRUE]
  /\ Start(d, "hook", stack)
  /\ UNCHANGED <<policy, db, before, batch, pending, deleted, outcome>>

\* It lets o refer to the stored document t, or creates o anew, perhaps with
\* the ID of a document that was deleted.
HookWrites(o, t) ==
  /\ HookRuns /\ ~rollbackOnly
  /\ t \in db.stored \cup {o} /\ t \notin db.working[o]
  /\ hooks' = hooks - 1
  /\ asked' = [asked EXCEPT !.writes = @ \cup {<<o, t>>}, !.hooked = TRUE]
  /\ db' = [db EXCEPT !.stored = @ \cup {o}, !.working[o] = @ \cup {t}, !.index = @ \cup {<<o, t>>}]
  /\ UNCHANGED <<policy, before, batch, stack, pending, deleted, rollbackOnly, error, outcome>>

Next ==
  \/ NextRequest \/ ListOwners \/ DeleteOwner \/ DeleteRow \/ Return
  \/ Handle \/ Rollback \/ Commit
  \/ \E d \in Doc : HookDeletes(d)
  \/ \E o, t \in Doc : HookWrites(o, t)

Spec == Init /\ [][Next]_vars

-----------------------------------------------------------------------------

TypeOK ==
  /\ policy \in [Doc -> [Doc -> Policies]]
  /\ db \in Databases /\ before \in Databases
  /\ batch \in Seq(Doc)
  /\ stack \in Seq(Frame)
  /\ pending \subseteq Doc /\ deleted \subseteq Doc
  /\ rollbackOnly \in BOOLEAN
  /\ error \in [code : Codes, by : {"caller", "cascade", "hook"}] \cup {NoError}
  /\ hooks \in Nat
  /\ asked \in [deletes : SUBSET Doc, writes : SUBSET (Doc \X Doc), hooked : BOOLEAN]
  /\ outcome \in {"running", "committed"} \cup Codes

\* adapters/sqlite/documents.go: replaceDocumentReferences and
\* ApplyReferenceDelete.  At every moment of the transaction the index has the
\* rows of the working and live heads and no other, and no head refers to a
\* document that is gone, whatever was deleted in cascades, cycles and hooks.
NothingDangles == Consistent(db)

\* Rows of the database as it was begun and of what the hooks wrote into it.
RowsSeen == before.index \cup asked.writes

\* website/src/content/docs/relationships.md, "Permanently delete each document
\* that references the target too": who referred to a deleted document through
\* a cascade field was deleted in the same transaction, also when a hook wrote
\* the reference while the delete was running.
OwnedDocumentsGo ==
  outcome = "committed" =>
    \A r \in RowsSeen :
      policy[r[1]][r[2]] = "cascade" /\ r[2] \in deleted \ db.stored => r[1] \in deleted

\* The least set of documents with those of D that holds, with a document, who
\* refers to it through a cascade field by the rows R.
Tree(D, R) ==
  {d \in Doc : \A S \in SUBSET Doc :
     /\ D \subseteq S
     /\ \A r \in R : r[2] \in S /\ policy[r[1]][r[2]] = "cascade" => r[1] \in S
     => d \in S}

\* deleteCascadeOwners: nothing else goes.  A document was deleted because the
\* caller or a hook asked for it, or with a document it referred to through a
\* cascade field, even when hooks ignored that a delete of theirs was rejected.
OnlyOwnedDocumentsGo ==
  outcome = "committed" =>
    deleted \subseteq Tree(asked.deletes \cap deleted, {r \in RowsSeen : r[2] \in deleted})

\* The same table, "Reject the target deletion while a surviving reference
\* exists": no document that is left referred to a deleted one through a
\* restrict field.
RestrictionsHold ==
  outcome = "committed" =>
    \A r \in RowsSeen :
      policy[r[1]][r[2]] = "restrict" /\ r[2] \in deleted \ db.stored => r[1] \in deleted

\* The hooks did nothing.
Hookless == ~asked.hooked

\* What may reject a delete when hooks do nothing: a restrict field in the tree,
\* a tree deeper than the operation limit, or a batch that asks for a document
\* which is not there or which another one owns.
Justified(code) ==
  LET tree == Tree(asked.deletes, before.index) IN
  \/ /\ code = "delete_restricted"
     /\ \E r \in before.index : r[1] # r[2] /\ r[2] \in tree /\ policy[r[1]][r[2]] = "restrict"
  \/ code = "operation_recursion" /\ Cardinality(tree) > MaxDepth
  \/ /\ code = "not_found"
     /\ \E d \in asked.deletes :
          d \notin before.stored \/ d \in Tree(asked.deletes \ {d}, before.index)

\* engine.go, pendingDeletes: "so cascade cycles stop instead of recursing".
\* Without hooks a cascade is never rejected for what it does itself: not for the
\* owners it is deleting, nor for one it has deleted or lists twice.
RejectionsAreJustified ==
  outcome \notin {"running", "committed"} /\ Hookless => Justified(outcome)

=============================================================================
