-------------------------- MODULE PublicationProofs --------------------------
(* Theorems about Publication and ScheduledPublishing, for every set of texts,*)
(* configurations and tasks.  The first parts are about the operations on a   *)
(* document, whoever runs them.  What they show holds of the operations that  *)
(* tasks perform as well, and the fence lets each task publish once, and only *)
(* what was scheduled.                                                        *)
EXTENDS ScheduledPublishing, FiniteSetTheorems, TLAPS

-----------------------------------------------------------------------------
(* What the helpers return.                                                  *)

\* Clearing a reference leaves a content, its text and its completeness.
LEMMA ClearedContent ==
  ASSUME NEW c \in Contents
  PROVE  /\ Cleared(c) \in Contents
         /\ Cleared(Cleared(c)) = Cleared(c)
         /\ c \in Complete => Cleared(c) \in Complete
         /\ c.refers = FALSE => Cleared(c) = c
BY DEF Cleared, Contents, Complete

\* SaveVersion keeps version rows and adds one.
LEMMA SavedVersions ==
  ASSUME NEW d \in Heads, NEW life \in Nat, versions \subseteq Versions
  PROVE  Saved(d, life) \subseteq Versions
<1>1. [life |-> life, revision |-> d.revision, status |-> d.status, content |-> d.content] \in Versions
  BY DEF Heads, Versions
<1>2. QED
  BY <1>1 DEF Saved, Latest

\* The live head that a publication writes.
LEMMA LiveOfHead ==
  ASSUME NEW d \in Heads
  PROVE  /\ LiveOf(d) \in LiveHeads
         /\ LiveOf(d).revision = d.revision /\ LiveOf(d).content = d.content
         /\ LiveOf(d).trashed = d.trashed /\ ~LiveOf(d).pending
<1>1. LiveOf(d) \in LiveHeads
  BY DEF LiveOf, Heads, LiveHeads
<1>2. LiveOf(d).revision = d.revision /\ LiveOf(d).content = d.content
  BY DEF LiveOf
<1>3. LiveOf(d).trashed = d.trashed /\ ~LiveOf(d).pending
  BY Zenon DEF LiveOf
<1>4. QED
  BY <1>1, <1>2, <1>3

\* The empty heads, and what a deleted document leaves.
LEMMA NoHeads ==
  /\ NoDoc \in Heads /\ NoLive \in LiveHeads
  /\ NoDoc.revision = 0 /\ NoDoc.status = "draft" /\ NoLive.revision = 0
  /\ ~NoDoc.trashed
  /\ NoDoc.content = Empty /\ NoLive.content = Empty
  /\ Empty \in Contents /\ Cleared(Empty) = Empty
<1>1. Empty \in Contents /\ Cleared(Empty) = Empty
  <2>1. Empty \in Contents
    BY DEF Contents, Empty
  <2>2. Cleared(Empty) = Empty
    BY <2>1, ClearedContent DEF Empty
  <2>3. QED
    BY <2>1, <2>2
<1>2. NoDoc \in Heads /\ NoLive \in LiveHeads
  BY <1>1 DEF NoDoc, NoLive, Heads, LiveHeads, Statuses
<1>3. ~NoDoc.trashed
  BY Zenon DEF NoDoc
<1>4. /\ NoDoc.revision = 0 /\ NoDoc.status = "draft" /\ NoLive.revision = 0
      /\ NoDoc.content = Empty /\ NoLive.content = Empty
  BY DEF NoDoc, NoLive
<1>5. QED
  BY <1>1, <1>2, <1>3, <1>4

\* Every operation that writes the row writes a head of the next revision.
LEMMA WriteHead ==
  ASSUME TypeOK, NEW c \in Contents, NEW st \in Statuses, Write(c, st)
  PROVE  /\ doc' \in Heads
         /\ doc'.revision = doc.revision + 1 /\ doc'.status = st
         /\ doc'.content = c /\ doc'.trashed = doc.trashed
         /\ versions' \subseteq Versions
         /\ config' = config /\ target' = target /\ lives' = lives
<1>1. doc' = [doc EXCEPT !.revision = @ + 1, !.status = st, !.content = c] /\ doc \in Heads
  BY DEF Write, TypeOK
<1>2. doc' \in Heads
  <2>1. doc.revision + 1 \in Nat
    BY <1>1 DEF Heads
  <2>2. QED
    BY <1>1, <2>1 DEF Heads
<1>3. doc'.revision = doc.revision + 1 /\ doc'.status = st /\ doc'.content = c
  BY <1>1 DEF Heads
<1>4. doc'.trashed = doc.trashed
  BY <1>1, Zenon DEF Heads
<1>5. versions' \subseteq Versions
  BY <1>2, SavedVersions DEF Write, TypeOK
<1>6. QED
  BY <1>2, <1>3, <1>4, <1>5 DEF Write

\* One operation on the document, by whomever, with any content; the restore of
\* a version is the operation that its status calls for.
Operation ==
  \/ \E c \in Contents : \/ SaveDraft(c) \/ Publish(c) \/ Unpublish(c)
                         \/ \E s \in Statuses : Create(c, s)
  \/ DiscardDraft \/ Trash \/ RestoreDeleted \/ DeleteTarget \/ Delete

\* What authors ask for is an operation.
LEMMA AuthorOperates == TypeOK /\ Author => Operation
<1> SUFFICES ASSUME TypeOK, Author PROVE Operation
  OBVIOUS
<1>1. config.contents \subseteq Contents
  BY PublicationAssumption DEF TypeOK, Configurations
<1>2. \A v \in versions : v.content \in Contents
  BY DEF TypeOK, Versions
<1>3. CASE \E c \in config.contents :
             SaveDraft(c) \/ Publish(c) \/ Unpublish(c) \/ \E s \in Statuses : Create(c, s)
  BY <1>1, <1>3 DEF Operation
<1>4. CASE \E v \in versions : RestoreVersion(v) \/ RestoreAsDraft(v)
  BY <1>2, <1>4 DEF RestoreVersion, RestoreAsDraft, Operation
<1>5. QED
  BY <1>3, <1>4 DEF Author, Operation

\* A step of the specification is an operation.
LEMMA NextOperates == TypeOK /\ [Next]_docVars => [Operation]_docVars
BY AuthorOperates DEF Next, Operation

-----------------------------------------------------------------------------
(* What each operation makes of the heads.  Effect states it for the step     *)
(* from one state to the next; the invariant and the refinement follow from   *)
(* it alone.                                                                  *)

Rest == config' = config /\ versions' \subseteq Versions /\ lives' \in Nat

\* The rows keep their types.
Typed == doc' \in Heads /\ live' \in LiveHeads /\ target' \in BOOLEAN

\* A draft is saved: the live head, if any, is marked.
LEMMA SaveDraftEffect ==
  ASSUME TypeOK, NEW c \in Contents, SaveDraft(c)
  PROVE  /\ Typed /\ Rest /\ lives' = lives
         /\ Stored /\ ~doc.trashed
         /\ doc'.revision = doc.revision + 1 /\ doc'.content = c /\ doc'.trashed = doc.trashed
         /\ doc'.status = IF HasLiveHead THEN "published" ELSE "draft"
         /\ live'.revision = live.revision /\ live'.content = live.content
         /\ live'.trashed = live.trashed /\ (HasLiveHead => live'.pending)
<1>1. Write(c, IF HasLiveHead THEN "published" ELSE "draft") /\ Open
  BY DEF SaveDraft
<1>2. (IF HasLiveHead THEN "published" ELSE "draft") \in Statuses
  BY DEF Statuses
<1>3. live' = (IF HasLiveHead THEN [live EXCEPT !.pending = TRUE] ELSE live) /\ live \in LiveHeads
  BY DEF SaveDraft, TypeOK
<1>4. live' \in LiveHeads /\ live'.revision = live.revision /\ live'.content = live.content
  BY <1>3 DEF LiveHeads
<1>5. live'.trashed = live.trashed /\ (HasLiveHead => live'.pending)
  BY <1>3, Zenon DEF LiveHeads
<1>6. QED
  BY <1>1, <1>2, <1>4, <1>5, WriteHead DEF Typed, Rest, Open, TypeOK

\* A publication: the live head is the document.
LEMMA PublishEffect ==
  ASSUME TypeOK, NEW c \in Contents, Publish(c)
  PROVE  /\ Typed /\ Rest /\ lives' = lives
         /\ Stored /\ ~doc.trashed /\ c \in Complete
         /\ doc'.revision = doc.revision + 1 /\ doc'.content = c /\ doc'.trashed = doc.trashed
         /\ doc'.status = "published"
         /\ live'.revision = doc'.revision /\ live'.content = c
         /\ live'.trashed = doc'.trashed /\ ~live'.pending
<1>1. Write(c, "published") /\ Open /\ c \in Complete /\ live' = LiveOf(doc')
  BY DEF Publish
<1>2. "published" \in Statuses
  BY DEF Statuses
<1>3. /\ doc' \in Heads /\ doc'.revision = doc.revision + 1 /\ doc'.status = "published"
      /\ doc'.content = c /\ doc'.trashed = doc.trashed
      /\ versions' \subseteq Versions
      /\ config' = config /\ target' = target /\ lives' = lives
  BY <1>1, <1>2, WriteHead
<1>4. /\ live' \in LiveHeads /\ live'.revision = doc'.revision /\ live'.content = doc'.content
      /\ live'.trashed = doc'.trashed /\ ~live'.pending
  BY <1>1, <1>3, LiveOfHead
<1>5. QED
  BY <1>1, <1>3, <1>4 DEF Typed, Rest, Open, TypeOK

\* A withdrawal: there is no live head.
LEMMA UnpublishEffect ==
  ASSUME TypeOK, NEW c \in Contents, Unpublish(c)
  PROVE  /\ Typed /\ Rest /\ lives' = lives
         /\ Stored /\ ~doc.trashed /\ doc.status = "published"
         /\ doc'.revision = doc.revision + 1 /\ doc'.content = c /\ doc'.trashed = doc.trashed
         /\ doc'.status = "draft"
         /\ live' = NoLive
<1>1. Write(c, "draft") /\ Open /\ doc.status = "published" /\ live' = NoLive
  BY DEF Unpublish
<1>2. "draft" \in Statuses
  BY DEF Statuses
<1>3. QED
  BY <1>1, <1>2, WriteHead, NoHeads DEF Typed, Rest, Open, TypeOK

\* Discarded draft changes: the document is the live head.
LEMMA DiscardEffect ==
  ASSUME TypeOK, DiscardDraft
  PROVE  /\ Typed /\ Rest /\ lives' = lives
         /\ Stored /\ ~doc.trashed /\ HasLiveHead
         /\ doc'.revision = doc.revision + 1 /\ doc'.content = live.content
         /\ doc'.trashed = doc.trashed /\ doc'.status = "published"
         /\ live'.revision = live.revision /\ live'.content = live.content
         /\ live'.trashed = live.trashed /\ ~live'.pending
<1>1. /\ Write(live.content, "published") /\ Open /\ HasLiveHead
      /\ live' = [live EXCEPT !.pending = FALSE]
  BY DEF DiscardDraft
<1>2. "published" \in Statuses /\ live \in LiveHeads /\ live.content \in Contents
  BY DEF Statuses, TypeOK, LiveHeads
<1>3. live' \in LiveHeads /\ live'.revision = live.revision /\ live'.content = live.content
  BY <1>1, <1>2 DEF LiveHeads
<1>4. live'.trashed = live.trashed /\ ~live'.pending
  BY <1>1, <1>2, Zenon DEF LiveHeads
<1>5. QED
  BY <1>1, <1>2, <1>3, <1>4, WriteHead DEF Typed, Rest, Open, TypeOK

\* A document is made, as a draft or published at once.
LEMMA CreateEffect ==
  ASSUME TypeOK, NEW c \in Contents, NEW st \in Statuses, Create(c, st)
  PROVE  /\ Typed /\ Rest
         /\ ~Stored /\ lives' = lives + 1 /\ lives < config.maxLives
         /\ doc'.revision = 1 /\ doc'.content = c /\ ~doc'.trashed /\ doc'.status = st
         /\ st = "published" =>
              /\ c \in Complete
              /\ live'.revision = 1 /\ live'.content = c
              /\ live'.trashed = doc'.trashed /\ ~live'.pending
         /\ st # "published" => live' = NoLive
<1>1. /\ ~Stored /\ lives' = lives + 1 /\ lives < config.maxLives /\ (st = "published" => c \in Complete)
      /\ doc' = [revision |-> 1, status |-> st, content |-> c, trashed |-> FALSE]
      /\ live' = IF st = "published" THEN LiveOf(doc') ELSE NoLive
      /\ versions' = Saved(doc', lives')
      /\ config' = config /\ target' = target
  BY DEF Create
<1>2. doc' \in Heads /\ doc'.revision = 1 /\ doc'.content = c /\ doc'.status = st
  BY <1>1 DEF Heads
<1>3. ~doc'.trashed
  BY <1>1, Zenon
<1>4. lives' \in Nat /\ versions' \subseteq Versions
  BY <1>1, <1>2, SavedVersions DEF TypeOK
<1>5. st = "published" => /\ live' \in LiveHeads /\ live'.revision = 1 /\ live'.content = c
                              /\ live'.trashed = doc'.trashed /\ ~live'.pending
  BY <1>1, <1>2, LiveOfHead
<1>6. st # "published" => live' = NoLive /\ live' \in LiveHeads
  BY <1>1, NoHeads
<1>7. QED
  BY <1>1, <1>2, <1>3, <1>4, <1>5, <1>6 DEF Typed, Rest, TypeOK

\* The trash takes both heads and gives both back.
LEMMA TrashEffect ==
  ASSUME TypeOK, Trash \/ RestoreDeleted
  PROVE  /\ Typed /\ Rest /\ lives' = lives
         /\ Stored /\ doc'.trashed = ~doc.trashed
         /\ doc'.revision = doc.revision /\ doc'.content = doc.content /\ doc'.status = doc.status
         /\ live'.revision = live.revision /\ live'.content = live.content
         /\ live'.pending = live.pending
         /\ HasLiveHead => live'.trashed = doc'.trashed
<1> DEFINE Moved(d, l) ==
      /\ doc' = [doc EXCEPT !.trashed = d] /\ live' = [live EXCEPT !.trashed = l]
      /\ config' = config /\ versions' = versions /\ target' = target /\ lives' = lives
<1>1. doc \in Heads /\ live \in LiveHeads
  BY DEF TypeOK
<1>2. ASSUME NEW d \in BOOLEAN, NEW l \in BOOLEAN, Moved(d, l)
      PROVE  /\ Typed /\ Rest
             /\ doc'.revision = doc.revision /\ doc'.content = doc.content /\ doc'.status = doc.status
             /\ live'.revision = live.revision /\ live'.content = live.content
             /\ live'.pending = live.pending
             /\ doc'.trashed = d /\ live'.trashed = l
  <2>1. doc' \in Heads /\ live' \in LiveHeads
    BY <1>1, <1>2 DEF Heads, LiveHeads
  <2>2. /\ doc'.revision = doc.revision /\ doc'.content = doc.content /\ doc'.status = doc.status
        /\ live'.revision = live.revision /\ live'.content = live.content
    BY <1>1, <1>2 DEF Heads, LiveHeads
  <2>3. live'.pending = live.pending /\ doc'.trashed = d /\ live'.trashed = l
    BY <1>1, <1>2, Zenon DEF Heads, LiveHeads
  <2>4. QED
    BY <1>2, <2>1, <2>2, <2>3 DEF Typed, Rest, TypeOK
<1>3. CASE Trash
  <2>1. Moved(TRUE, HasLiveHead) /\ Stored /\ ~doc.trashed
    BY <1>3 DEF Trash
  <2>2. HasLiveHead \in BOOLEAN
    BY DEF HasLiveHead
  <2>3. QED
    BY <2>1, <2>2, <1>2
<1>4. CASE RestoreDeleted
  <2>1. Moved(FALSE, FALSE) /\ Stored /\ doc.trashed
    BY <1>4 DEF RestoreDeleted
  <2>2. QED
    BY <2>1, <1>2
<1>5. QED
  BY <1>3, <1>4

\* Both heads lose the reference and nothing else.
LEMMA DeleteTargetEffect ==
  ASSUME TypeOK, DeleteTarget
  PROVE  /\ Typed /\ Rest /\ lives' = lives
         /\ doc'.revision = doc.revision /\ doc'.content = Cleared(doc.content)
         /\ doc'.status = doc.status /\ doc'.trashed = doc.trashed
         /\ live'.revision = live.revision /\ live'.content = Cleared(live.content)
         /\ live'.trashed = live.trashed /\ live'.pending = live.pending
<1>1. /\ doc' = [doc EXCEPT !.content = Cleared(@)] /\ live' = [live EXCEPT !.content = Cleared(@)]
      /\ config' = config /\ versions' = versions /\ target' = FALSE /\ lives' = lives
  BY DEF DeleteTarget
<1>2. doc \in Heads /\ live \in LiveHeads /\ doc.content \in Contents /\ live.content \in Contents
  BY DEF TypeOK, Heads, LiveHeads
<1>3. Cleared(doc.content) \in Contents /\ Cleared(live.content) \in Contents
  BY <1>2, ClearedContent
<1>4. /\ doc' \in Heads /\ live' \in LiveHeads
      /\ doc'.revision = doc.revision /\ doc'.content = Cleared(doc.content)
      /\ doc'.status = doc.status
      /\ live'.revision = live.revision /\ live'.content = Cleared(live.content)
  BY <1>1, <1>2, <1>3 DEF Heads, LiveHeads
<1>5. doc'.trashed = doc.trashed /\ live'.trashed = live.trashed /\ live'.pending = live.pending
  BY <1>1, <1>2, Zenon DEF Heads, LiveHeads
<1>6. QED
  BY <1>1, <1>4, <1>5 DEF Typed, Rest, TypeOK

\* A deletion leaves nothing.
LEMMA DeleteEffect ==
  ASSUME TypeOK, Delete
  PROVE  Typed /\ Rest /\ Stored /\ doc' = NoDoc /\ live' = NoLive /\ lives' = lives
BY NoHeads DEF Delete, Typed, Rest, TypeOK

-----------------------------------------------------------------------------
(* Types and heads.                                                          *)

\* Every operation keeps the types.
LEMMA TypeStep == TypeOK /\ [Operation]_docVars => TypeOK'
<1> SUFFICES ASSUME TypeOK, [Operation]_docVars PROVE TypeOK'
  OBVIOUS
<1>1. CASE UNCHANGED docVars
  BY <1>1 DEF docVars, TypeOK
<1>2. CASE Operation
  <2>1. Typed /\ Rest
    BY <1>2, SaveDraftEffect, PublishEffect, UnpublishEffect, DiscardEffect,
       CreateEffect, TrashEffect, DeleteTargetEffect, DeleteEffect DEF Operation
  <2>2. QED
    BY <2>1 DEF Typed, Rest, TypeOK
<1>3. QED
  BY <1>1, <1>2

\* The rows of a document have their types in every reachable state.
THEOREM TypeCorrect == Spec => []TypeOK
<1>1. Init => TypeOK
  BY NoHeads DEF Init, TypeOK
<1>2. QED
  BY <1>1, TypeStep, NextOperates, PTL DEF Spec

\* The operations keep HeadsAgree, which is inductive with the types.
LEMMA HeadsStep == TypeOK /\ HeadsAgree /\ [Operation]_docVars => HeadsAgree'
<1> SUFFICES ASSUME TypeOK, HeadsAgree, [Operation]_docVars PROVE HeadsAgree'
  OBVIOUS
<1> USE DEF HeadsAgree, HasLiveHead
<1>1. doc.revision \in Nat /\ live.revision \in Nat /\ doc.content \in Contents /\ live.content \in Contents
  BY DEF TypeOK, Heads, LiveHeads
<1>2. CASE UNCHANGED docVars
  BY <1>2 DEF docVars
<1>3. ASSUME NEW c \in Contents, SaveDraft(c) PROVE HeadsAgree'
  BY <1>1, <1>3, SaveDraftEffect
<1>4. ASSUME NEW c \in Contents, Publish(c) PROVE HeadsAgree'
  BY <1>1, <1>4, PublishEffect
<1>5. ASSUME NEW c \in Contents, Unpublish(c) PROVE HeadsAgree'
  BY <1>1, <1>5, UnpublishEffect, NoHeads
<1>6. ASSUME NEW c \in Contents, NEW s \in Statuses, Create(c, s) PROVE HeadsAgree'
  BY <1>1, <1>6, CreateEffect, NoHeads
<1>7. CASE DiscardDraft
  BY <1>1, <1>7, DiscardEffect
<1>8. CASE Trash \/ RestoreDeleted
  BY <1>1, <1>8, TrashEffect
<1>9. CASE DeleteTarget
  BY <1>1, <1>9, DeleteTargetEffect, ClearedContent
<1>10. CASE Delete
  BY <1>10, DeleteEffect, NoHeads
<1>11. QED
  BY <1>2, <1>3, <1>4, <1>5, <1>6, <1>7, <1>8, <1>9, <1>10 DEF Operation

\* However drafts, publications, withdrawals, discards, restores, trash, reference
\* deletes and deletions follow on each other, the status tells whether there
\* is a live head, the trash holds both heads or none, and only a head marked
\* as having draft changes differs from the working content.
THEOREM HeadsAlwaysAgree == Spec => []HeadsAgree
<1>1. Init => HeadsAgree
  BY NoHeads DEF Init, HeadsAgree, HasLiveHead
<1>2. QED
  BY <1>1, HeadsStep, NextOperates, TypeCorrect, PTL DEF Spec

-----------------------------------------------------------------------------
(* Publication implements PublicationContract.                               *)

\* Every operation is a step of the contract or changes nothing that it sees.
LEMMA ContractStep == TypeOK /\ HeadsAgree /\ [Operation]_docVars => [Contract!Next]_(Contract!vars)
<1> SUFFICES ASSUME TypeOK, HeadsAgree, [Operation]_docVars PROVE [Contract!Next]_(Contract!vars)
  OBVIOUS
<1>1. /\ doc.revision \in Nat /\ live.revision \in Nat
      /\ doc.content \in Contents /\ live.content \in Contents /\ doc.trashed \in BOOLEAN
  BY DEF TypeOK, Heads, LiveHeads
<1>2. /\ HasLiveHead => Stored /\ (live.pending \/ live.content = doc.content) /\ live.content \in Complete
      /\ HasLiveHead => live.trashed = doc.trashed
      /\ (doc.status = "published") = HasLiveHead
  BY <1>1 DEF HeadsAgree, HasLiveHead, Stored
<1>3. \A c \in Contents : c # None
  BY PublicationAssumption
<1>4. Operation => [Contract!Next]_(Contract!vars)
  <2> USE DEF Contract!Next, Contract!vars, Contract!Open, Stored, HasLiveHead
  <2>1. ASSUME NEW c \in Contents, SaveDraft(c) PROVE Contract!Save(c)
    BY <1>1, <1>2, <1>3, <2>1, SaveDraftEffect DEF Contract!Save
  <2>2. ASSUME NEW c \in Contents, Publish(c) PROVE Contract!Publish(c)
    BY <1>1, <1>3, <2>2, PublishEffect DEF Contract!Publish
  <2>3. ASSUME NEW c \in Contents, Unpublish(c) PROVE Contract!Withdraw(c)
    BY <1>1, <1>2, <1>3, <2>3, UnpublishEffect, NoHeads DEF Contract!Withdraw
  <2>4. ASSUME NEW c \in Contents, NEW s \in Statuses, Create(c, s) PROVE Contract!Create(c)
    BY <1>1, <1>3, <2>4, CreateEffect, NoHeads DEF Contract!Create
  <2>5. DiscardDraft => Contract!Reset
    BY <1>1, <1>2, <1>3, DiscardEffect DEF Contract!Reset
  <2>6. Trash => Contract!Hide
    BY <1>1, <1>2, <1>3, TrashEffect DEF Contract!Hide, Trash
  <2>7. RestoreDeleted => Contract!Show
    BY <1>1, <1>2, <1>3, TrashEffect DEF Contract!Show, RestoreDeleted
  <2>8. DeleteTarget => [Contract!ClearHeads]_(Contract!vars)
    BY <1>1, <1>2, <1>3, DeleteTargetEffect DEF Contract!ClearHeads
  <2>9. Delete => Contract!Remove
    BY <1>1, <1>3, DeleteEffect, NoHeads DEF Contract!Remove
  <2>10. QED
    BY <2>1, <2>2, <2>3, <2>4, <2>5, <2>6, <2>7, <2>8, <2>9 DEF Operation
<1>5. CASE UNCHANGED docVars
  BY <1>5 DEF docVars, Contract!vars, Stored, HasLiveHead
<1>6. QED
  BY <1>4, <1>5

\* Readers see what was published last: drafts, restores as drafts, discards and
\* the trash leave it alone, and a discard gives authors back what readers see.
THEOREM PublicationIsPublic == Spec => PublicIsPublished
<1>1. Init => Contract!Init
  BY NoHeads DEF Init, Contract!Init, Stored, HasLiveHead
<1>2. QED
  BY <1>1, ContractStep, NextOperates, TypeCorrect, HeadsAlwaysAgree, PTL DEF Spec, PublicIsPublished, Contract!Spec

-----------------------------------------------------------------------------
(* The history.  Every operation that writes the document adds the version of *)
(* the next revision and keeps the latest ones; what the operation made of    *)
(* the heads tells the rest.                                                  *)

\* The rows of later revisions than a row's.
Newer(rows, v) == {w \in rows : w.revision > v.revision}

\* The rows hold each revision from that of one row to the last once.
Numbered(rows, v, n) ==
  /\ \A w \in rows : w.revision \in 1 .. n
  /\ \A w, x \in rows : w.revision = x.revision => w = x
  /\ \A r \in v.revision .. n : \E w \in rows : w.revision = r

\* Of such rows, those newer than a row are as many as the revisions above its own.
LEMMA NewerRows ==
  ASSUME NEW rows, NEW n \in Nat, NEW v \in rows, Numbered(rows, v, n)
  PROVE  Cardinality(Newer(rows, v)) = n - v.revision
<1> DEFINE N == Newer(rows, v)
<1> USE DEF Newer, Numbered
<1> DEFINE I == (v.revision + 1) .. n
           f == [r \in I |-> CHOOSE w \in rows : w.revision = r]
<1>1. v.revision \in 1 .. n
  OBVIOUS
<1>2. \A r \in I : f[r] \in rows /\ f[r].revision = r
  BY <1>1
<1>3. \A r \in I : f[r] \in N
  BY <1>1, <1>2
<1>4. f \in Injection(I, N)
  <2>1. f \in [I -> N]
    BY <1>3
  <2>2. \A r, s \in I : f[r] = f[s] => r = s
    BY <1>2
  <2>3. QED
    BY <2>1, <2>2 DEF Injection, IsInjective
<1>5. f \in Surjection(I, N)
  <2>1. \A w \in N : w.revision \in I /\ f[w.revision] = w
    BY <1>1, <1>2
  <2>2. f \in [I -> N]
    BY <1>3
  <2>3. QED
    BY <2>1, <2>2 DEF Surjection
<1>6. ExistsBijection(I, N)
  BY <1>4, <1>5 DEF ExistsBijection, Bijection
<1>7. v.revision + 1 \in Int /\ n \in Int
  BY <1>1
<1>8. IsFiniteSet(I) /\ Cardinality(I) = n - v.revision
  <2>1. IsFiniteSet(I) /\ Cardinality(I) = IF v.revision + 1 > n THEN 0 ELSE n - (v.revision + 1) + 1
    BY <1>7, FS_Interval
  <2>2. QED
    BY <1>1, <2>1
<1> HIDE DEF I, N
<1>9. Cardinality(N) = n - v.revision
  BY <1>6, <1>8, FS_Bijection
<1>10. QED
  BY <1>9 DEF N

\* The history holds the last MaxPerDocument revisions, each once.
Recent ==
  /\ {v.revision : v \in versions} = {r \in 1 .. doc.revision : r + config.kept > doc.revision}
  /\ \A v, w \in versions : v.revision = w.revision => v = w

\* Authors' content holds a reference only to a document that exists.
NoDangling == ~target => ~doc.content.refers /\ ~live.content.refers

\* The bound on the history is positive.
LEMMA KeptOne == TypeOK => config.kept \in Nat \ {0}
BY PublicationAssumption DEF TypeOK, Configurations

\* A write adds its version to the history and drops the ones beyond the bound.
LEMMA WriteHistory ==
  ASSUME TypeOK, Recent, Stored, NEW c \in Contents, NEW st \in Statuses, Write(c, st)
  PROVE  /\ Recent'
         /\ \A v \in versions' :
              \/ v \in versions /\ v.revision <= doc.revision
              \/ /\ v.life = lives /\ v.revision = doc.revision + 1
                 /\ v.status = st /\ v.content = c
<1> DEFINE n == doc.revision + 1
           row == [life |-> lives, revision |-> n, status |-> st, content |-> c]
           rows == versions \cup {row}
<1>1. /\ doc.revision \in Nat \ {0} /\ n \in Nat
      /\ config.kept \in Nat \ {0} /\ config' = config
      /\ doc'.revision = n /\ doc'.status = st /\ doc'.content = c
  BY KeptOne, WriteHead DEF TypeOK, Heads, Stored
<1>2. \A v \in versions : v.revision \in {r \in 1 .. doc.revision : r + config.kept > doc.revision}
  BY DEF Recent
<1>3. \A r \in {r \in 1 .. doc.revision : r + config.kept > doc.revision} :
        \E v \in versions : v.revision = r
  BY DEF Recent
<1>4. versions' = Latest(rows)
  <2>1. versions' = Saved(doc', lives)
    BY DEF Write
  <2>2. {v \in versions : v.revision # doc'.revision /\ (doc'.revision = 1 => v.revision < 1)} = versions
    BY <1>1, <1>2
  <2>3. QED
    BY <1>1, <2>1, <2>2 DEF Saved
<1>5. row.revision = n /\ row.life = lives /\ row.status = st /\ row.content = c
  OBVIOUS
<1> HIDE DEF row
<1>6. /\ \A v \in rows : v.revision \in 1 .. n /\ v.revision + config.kept > doc.revision
      /\ \A v, w \in rows : v.revision = w.revision => v = w
      /\ \A r \in 1 .. n : r + config.kept > doc.revision => \E v \in rows : v.revision = r
  <2>1. \A v \in rows : v.revision \in 1 .. n /\ v.revision + config.kept > doc.revision
    BY <1>1, <1>2, <1>5
  <2>2. \A v, w \in rows : v.revision = w.revision => v = w
    BY <1>1, <1>2, <1>5 DEF Recent
  <2>3. ASSUME NEW r \in 1 .. n, r + config.kept > doc.revision PROVE \E v \in rows : v.revision = r
    <3>1. CASE r = n
      BY <1>5, <3>1
    <3>2. CASE r # n
      <4>1. r \in 1 .. doc.revision
        BY <1>1, <3>2
      <4>2. QED
        BY <1>3, <2>3, <4>1
    <3>3. QED
      BY <3>1, <3>2
  <2>4. QED
    BY <2>1, <2>2, <2>3
<1> HIDE DEF rows
<1>7. ASSUME NEW v \in rows PROVE Cardinality(Newer(rows, v)) = n - v.revision
  <2>1. \A r \in v.revision .. n : r \in 1 .. n /\ r + config.kept > doc.revision
    BY <1>1, <1>6
  <2>2. Numbered(rows, v, n)
    BY <1>6, <2>1 DEF Numbered
  <2>3. n \in Nat
    BY <1>1
  <2> HIDE DEF n
  <2>4. QED
    BY <2>2, <2>3, NewerRows
<1>8. versions' = {v \in rows : v.revision + config.kept > n}
  <2>1. \A v \in rows : (n - v.revision < config.kept) = (v.revision + config.kept > n)
    BY <1>1, <1>6
  <2>2. \A v \in rows : (Cardinality(Newer(rows, v)) < config.kept)
                           = (v.revision + config.kept > n)
    BY <1>7, <2>1
  <2>3. QED
    BY <1>4, <2>2 DEF Latest, Newer
<1>9. Recent'
  <2>1. {v.revision : v \in versions'} = {r \in 1 .. n : r + config.kept > n}
    <3>1. \A r \in 1 .. n : r + config.kept > n => \E v \in versions' : v.revision = r
      BY <1>1, <1>6, <1>8
    <3>2. \A v \in versions' : v.revision \in 1 .. n /\ v.revision + config.kept > n
      BY <1>6, <1>8
    <3>3. QED
      BY <3>1, <3>2
  <2>2. \A v, w \in versions' : v.revision = w.revision => v = w
    BY <1>6, <1>8
  <2>3. QED
    BY <1>1, <2>1, <2>2 DEF Recent
<1>10. QED
  BY <1>1, <1>2, <1>5, <1>8, <1>9 DEF rows

\* What readers of a content see after its reference was cleared.
Shown(c) == IF target THEN c ELSE Cleared(c)

\* The versions are those of this document, and the versions of the current
\* revisions hold what the heads hold.
Rows ==
  \A v \in versions :
    /\ v.life = lives
    /\ v.revision = doc.revision => v.status = doc.status /\ Shown(v.content) = doc.content
    /\ v.revision = live.revision => v.status = "published" /\ Shown(v.content) = live.content

\* HistoryIsRecent in the parts that the proof treats apart.
LEMMA HistoryParts == HistoryIsRecent <=> Recent /\ Rows
BY DEF HistoryIsRecent, Recent, Rows, Shown

\* HistoryInv is inductive with the types and HeadsAgree: without NoDangling a
\* draft could be discarded for a published content whose reference is gone.
HistoryInv == Recent /\ Rows /\ NoDangling

\* A content that is valid is shown as it is, and so are the heads'.
LEMMA ShownContent ==
  ASSUME NEW c \in Contents, Valid(c)
  PROVE  Shown(c) = c
<1>1. ~target => c.refers = FALSE
  BY DEF Valid, Contents
<1>2. QED
  BY <1>1, ClearedContent DEF Shown

\* An operation that writes the document and leaves the live head's revision and
\* content as they are, or takes them from the document, or withdraws it.
LEMMA WriteKeepsHistory ==
  ASSUME TypeOK, HeadsAgree, HistoryInv, Stored, live' \in LiveHeads,
         NEW c \in Contents, NEW st \in Statuses, Valid(c), Write(c, st),
         \/ live'.revision = 0
         \/ live'.revision = doc'.revision /\ live'.content = c /\ st = "published"
         \/ live'.revision = live.revision /\ live'.content = live.content,
         target \/ ~live'.content.refers
  PROVE  HistoryInv'
<1>1. /\ Recent'
      /\ \A v \in versions' : \/ v \in versions /\ v.revision <= doc.revision
                              \/ /\ v.life = lives /\ v.revision = doc.revision + 1
                                 /\ v.status = st /\ v.content = c
  BY WriteHistory DEF HistoryInv
<1>2. /\ doc'.revision = doc.revision + 1 /\ doc'.status = st /\ doc'.content = c
      /\ target' = target /\ lives' = lives
  BY WriteHead
<1>3. /\ doc.revision \in Nat \ {0} /\ live.revision \in Nat
      /\ live.revision # 0 => live.revision <= doc.revision
  BY DEF TypeOK, Heads, LiveHeads, Stored, HeadsAgree, HasLiveHead
<1>4. \A v \in versions : v.revision \in Nat \ {0}
  <2>1. \A v \in versions : v.revision \in {r \in 1 .. doc.revision : r + config.kept > doc.revision}
    BY Zenon DEF HistoryInv, Recent
  <2>2. QED
    BY <1>3, <2>1
<1>5. Shown(c) = c /\ \A d : Shown(d)' = Shown(d)
  BY <1>2, ShownContent DEF Shown
<1>6. Rows'
  <2>1. ASSUME NEW v \in versions', v \in versions, v.revision <= doc.revision
        PROVE  /\ v.life = lives' /\ v.revision # doc'.revision
               /\ v.revision = live'.revision =>
                    v.status = "published" /\ Shown(v.content) = live'.content
    BY <1>2, <1>3, <1>4, <2>1 DEF HistoryInv, Rows
  <2>2. ASSUME NEW v \in versions', v.life = lives, v.revision = doc.revision + 1,
               v.status = st, v.content = c
        PROVE  /\ v.life = lives' /\ v.status = doc'.status /\ Shown(v.content) = doc'.content
               /\ v.revision = live'.revision =>
                    v.status = "published" /\ Shown(v.content) = live'.content
    BY <1>2, <1>3, <1>5, <2>2
  <2>3. \A v \in versions' : Shown(v.content)' = Shown(v.content)
    BY <1>2 DEF Shown
  <2>4. QED
    BY <1>1, <2>1, <2>2, <2>3, <1>2 DEF Rows, Shown
<1>7. NoDangling'
  BY <1>2 DEF NoDangling, Valid
<1>8. QED
  BY <1>1, <1>6, <1>7 DEF HistoryInv

\* Every operation keeps the history.
LEMMA HistoryStep ==
  TypeOK /\ HeadsAgree /\ HistoryInv /\ [Operation]_docVars => HistoryInv'
<1> SUFFICES ASSUME TypeOK, HeadsAgree, HistoryInv, [Operation]_docVars PROVE HistoryInv'
  OBVIOUS
<1>1. /\ doc \in Heads /\ live \in LiveHeads
      /\ doc.revision \in Nat /\ live.revision \in Nat
      /\ doc.content \in Contents /\ live.content \in Contents
      /\ (target \/ ~live.content.refers) /\ Valid(live.content)
  BY DEF TypeOK, Heads, LiveHeads, HistoryInv, NoDangling, Valid
<1>2. CASE UNCHANGED docVars
  BY <1>2 DEF docVars, HistoryInv, Recent, Rows, Shown, NoDangling
<1>3. ASSUME NEW c \in Contents, SaveDraft(c) PROVE HistoryInv'
  <2>1. Valid(c) /\ Write(c, IF HasLiveHead THEN "published" ELSE "draft")
    BY <1>3 DEF SaveDraft
  <2>2. (IF HasLiveHead THEN "published" ELSE "draft") \in Statuses
    BY DEF Statuses
  <2>3. /\ Stored /\ live' \in LiveHeads
        /\ live'.revision = live.revision /\ live'.content = live.content
    BY <1>3, SaveDraftEffect DEF Typed
  <2>4. QED
    BY <1>1, <2>1, <2>2, <2>3, WriteKeepsHistory
<1>4. ASSUME NEW c \in Contents, Publish(c) PROVE HistoryInv'
  <2>1. Valid(c) /\ Write(c, "published") /\ "published" \in Statuses
    BY <1>4 DEF Publish, Statuses
  <2>2. /\ Stored /\ live' \in LiveHeads
        /\ live'.revision = doc'.revision /\ live'.content = c
    BY <1>4, PublishEffect DEF Typed
  <2>3. target \/ ~live'.content.refers
    BY <2>1, <2>2 DEF Valid
  <2>4. QED
    BY <2>1, <2>2, <2>3, WriteKeepsHistory
<1>5. ASSUME NEW c \in Contents, Unpublish(c) PROVE HistoryInv'
  <2>1. Valid(c) /\ Write(c, "draft") /\ "draft" \in Statuses
    BY <1>5 DEF Unpublish, Statuses
  <2>2. Stored /\ live' = NoLive
    BY <1>5, UnpublishEffect
  <2>3. live' \in LiveHeads /\ live'.revision = 0 /\ ~live'.content.refers
    <3>1. live' \in LiveHeads /\ live'.revision = 0 /\ live'.content = Empty
      BY <2>2, NoHeads
    <3>2. ~Empty.refers
      BY Zenon DEF Empty
    <3>3. QED
      BY <3>1, <3>2
  <2>4. QED
    BY <2>1, <2>2, <2>3, WriteKeepsHistory
<1>6. CASE DiscardDraft
  <2>1. Write(live.content, "published") /\ "published" \in Statuses
    BY <1>6 DEF DiscardDraft, Statuses
  <2>2. /\ Stored /\ live' \in LiveHeads
        /\ live'.revision = live.revision /\ live'.content = live.content
    BY <1>6, DiscardEffect DEF Typed
  <2>3. QED
    BY <1>1, <2>1, <2>2, WriteKeepsHistory
<1>7. ASSUME NEW c \in Contents, NEW s \in Statuses, Create(c, s) PROVE HistoryInv'
  <2> DEFINE row == [life |-> lives', revision |-> doc'.revision, status |-> doc'.status, content |-> doc'.content]
  <2>1. /\ doc'.revision = 1 /\ doc'.content = c /\ doc'.status = s
        /\ s = "published" => live'.revision = 1 /\ live'.content = c
        /\ s # "published" => live'.revision = 0 /\ live'.content = Empty
    BY <1>7, CreateEffect, NoHeads
  <2>2. Valid(c) /\ target' = target /\ config' = config /\ versions' = Saved(doc', lives')
    BY <1>7 DEF Create
  <2>3. versions = {}
    <3>1. doc.revision = 0
      BY <1>7 DEF Create, Stored
    <3>2. QED
      BY <3>1 DEF HistoryInv, Recent
  <2>4. config.kept \in Nat \ {0}
    BY KeptOne
  <2>5. versions' = {row}
    <3>1. Saved(doc', lives') = Latest({row})
      BY <2>3 DEF Saved
    <3>2. {w \in {row} : w.revision > row.revision} = {}
      BY <2>1
    <3>3. Latest({row}) = {row}
      BY <2>4, <3>2, FS_EmptySet DEF Latest
    <3>4. QED
      BY <2>2, <3>1, <3>3
  <2>6. row.revision = 1 /\ row.life = lives' /\ row.status = s /\ row.content = c
    BY <2>1
  <2> HIDE DEF row
  <2>7. Recent'
    <3>1. {v.revision : v \in versions'} = {1}
      BY <2>5, <2>6
    <3>2. {r \in 1 .. 1 : r + config.kept > 1} = {1}
      BY <2>4
    <3>3. QED
      BY <2>1, <2>2, <2>5, <3>1, <3>2 DEF Recent
  <2>8. \A v \in versions' : Shown(v.content)' = c
    <3>1. Shown(c) = c
      BY <2>2, ShownContent
    <3>2. \A v \in versions' : v.content = c
      BY <2>5, <2>6
    <3>3. QED
      BY <2>2, <3>1, <3>2 DEF Shown
  <2>9. Rows'
    BY <2>1, <2>5, <2>6, <2>8 DEF Rows
  <2>10. NoDangling'
    <3>1. ~Empty.refers
      BY Zenon DEF Empty
    <3>2. QED
      BY <2>1, <2>2, <3>1 DEF NoDangling, Valid
  <2>11. QED
    BY <2>7, <2>9, <2>10 DEF HistoryInv
<1>8. CASE Trash \/ RestoreDeleted
  <2>1. /\ doc'.revision = doc.revision /\ doc'.content = doc.content /\ doc'.status = doc.status
        /\ live'.revision = live.revision /\ live'.content = live.content
        /\ lives' = lives
    BY <1>8, TrashEffect
  <2>2. config' = config /\ versions' = versions /\ target' = target
    BY <1>8 DEF Trash, RestoreDeleted
  <2>3. QED
    BY <2>1, <2>2 DEF HistoryInv, Recent, Rows, Shown, NoDangling
<1>9. CASE DeleteTarget
  <2>1. /\ doc'.revision = doc.revision /\ doc'.content = Cleared(doc.content) /\ doc'.status = doc.status
        /\ live'.revision = live.revision /\ live'.content = Cleared(live.content)
        /\ lives' = lives
    BY <1>9, DeleteTargetEffect
  <2>2. config' = config /\ versions' = versions /\ target = TRUE /\ target' = FALSE
    BY <1>9 DEF DeleteTarget, TypeOK
  <2>3. Recent'
    BY <2>1, <2>2 DEF HistoryInv, Recent
  <2>4. Rows'
    BY <2>1, <2>2 DEF HistoryInv, Rows, Shown
  <2>5. NoDangling'
    <3>1. ~doc'.content.refers /\ ~live'.content.refers
      BY <1>1, <2>1, Zenon DEF Cleared, Contents
    <3>2. QED
      BY <3>1 DEF NoDangling
  <2>6. QED
    BY <2>3, <2>4, <2>5 DEF HistoryInv
<1>10. CASE Delete
  <2>1. doc' = NoDoc /\ live' = NoLive /\ versions' = {}
    BY <1>10 DEF Delete
  <2>2. doc'.revision = 0 /\ doc'.content = Empty /\ live'.content = Empty /\ ~Empty.refers
    <3>1. doc'.revision = 0 /\ doc'.content = Empty /\ live'.content = Empty
      BY <2>1, NoHeads
    <3>2. ~Empty.refers
      BY Zenon DEF Empty
    <3>3. QED
      BY <3>1, <3>2
  <2>3. QED
    BY <2>1, <2>2 DEF HistoryInv, Recent, Rows, NoDangling
<1>11. QED
  BY <1>2, <1>3, <1>4, <1>5, <1>6, <1>7, <1>8, <1>9, <1>10 DEF Operation

\* No document and no history.
LEMMA InitHistory == Init => HistoryInv
<1> SUFFICES ASSUME Init PROVE HistoryInv
  OBVIOUS
<1>1. doc.revision = 0 /\ versions = {} /\ target
  BY NoHeads DEF Init
<1>2. QED
  BY <1>1 DEF HistoryInv, Recent, Rows, NoDangling

\* The history is that of this document, not of one deleted before under its
\* ID, and holds the last MaxPerDocument revisions; the versions of the current
\* revisions are what the heads hold, up to a reference that was cleared.
THEOREM HistoryStaysRecent == Spec => []HistoryIsRecent
<1>1. HistoryInv => HistoryIsRecent
  BY HistoryParts DEF HistoryInv
<1>2. QED
  BY <1>1, InitHistory, HistoryStep, NextOperates, TypeCorrect, HeadsAlwaysAgree, PTL DEF Spec

-----------------------------------------------------------------------------
(* Every step leaves the document alone or is an operation on it.            *)

\* A handler publishes or withdraws the content that it finds.
LEMMA CommitOperates ==
  ASSUME TypeOK, NEW h \in exec, Commit(h)
  PROVE  /\ Stored /\ Fenced(h.task) /\ Typed /\ Rest /\ Operation
         /\ lives' = lives /\ doc'.revision = doc.revision + 1 /\ doc'.content = doc.content
         /\ input[h.task].action = "publish" => live'.content = doc.content
         /\ input[h.task].action # "publish" => live' = NoLive
<1> DEFINE c == doc.content
<1>1. c \in Contents
  BY DEF TypeOK, Heads
<1>2. CASE input[h.task].action = "publish"
  <2>1. Publish(c) /\ Fenced(h.task)
    BY <1>2 DEF Commit
  <2>2. QED
    BY <1>1, <1>2, <2>1, PublishEffect DEF Operation
<1>3. CASE input[h.task].action # "publish"
  <2>1. Unpublish(c) /\ Fenced(h.task)
    BY <1>3 DEF Commit
  <2>2. QED
    BY <1>1, <1>3, <2>1, UnpublishEffect DEF Operation
<1>4. QED
  BY <1>2, <1>3

\* The steps that do not touch the document.
Aside ==
  \/ \E t \in Task : \/ \E a \in Action, given \in Given : Schedule(t, a, given)
                     \/ Enqueue(t) \/ Dismiss(t) \/ Claim(t) \/ Expire(t)
  \/ \E h \in exec : \/ Reject(h) \/ Break(h) \/ Conflict(h) \/ Succeed(h)
                     \/ Requeue(h) \/ Fail(h) \/ Release(h) \/ Drop(h)

\* Only authors, deletions and commits are not aside, and asides change neither
\* the document nor what was done to it.
LEMMA StepKinds ==
  /\ ScheduleNext => Aside \/ Write_(Author) \/ DeleteAll \/ \E h \in exec : Commit(h)
  /\ Aside => UNCHANGED <<docVars, done>>
<1>1. ScheduleNext => Aside \/ Write_(Author) \/ DeleteAll \/ \E h \in exec : Commit(h)
  BY DEF ScheduleNext, Aside
<1>2. ASSUME NEW t \in Task, \/ \E a \in Action, given \in Given : Schedule(t, a, given)
                             \/ Enqueue(t) \/ Dismiss(t) \/ Claim(t) \/ Expire(t)
      PROVE  UNCHANGED <<docVars, done>>
  BY <1>2 DEF Schedule, Enqueue, Dismiss, Claim, Expire
<1>3. ASSUME NEW h \in exec, Reject(h) \/ Break(h) \/ Conflict(h) \/ Succeed(h)
                             \/ Requeue(h) \/ Fail(h) \/ Release(h) \/ Drop(h)
      PROVE  UNCHANGED <<docVars, done>>
  BY <1>3 DEF Reject, Break, Conflict, Succeed, Requeue, Fail, Release, Drop, Return
<1>4. QED
  BY <1>1, <1>2, <1>3 DEF Aside

\* What the scheduler, its workers and the authors do is operations.
LEMMA ScheduleOperates == TypeOK /\ [ScheduleNext]_vars => [Operation]_docVars
<1> SUFFICES ASSUME TypeOK, [ScheduleNext]_vars PROVE [Operation]_docVars
  OBVIOUS
<1>1. CASE UNCHANGED vars
  BY <1>1 DEF vars
<1>2. CASE Aside
  BY <1>2, StepKinds
<1>3. CASE Write_(Author)
  BY <1>3, AuthorOperates DEF Write_
<1>4. CASE DeleteAll
  BY <1>4 DEF DeleteAll, Operation
<1>5. CASE \E h \in exec : Commit(h)
  BY <1>5, CommitOperates
<1>6. QED
  BY <1>1, <1>2, <1>3, <1>4, <1>5, StepKinds

-----------------------------------------------------------------------------
(* Heads and readers, whoever operates.                                      *)

\* The rows of the document have their types.
LEMMA RowsTyped == ScheduleSpec => []TypeOK
<1>1. ScheduleInit => TypeOK
  BY NoHeads DEF ScheduleInit, Init, TypeOK
<1>2. TypeOK /\ [ScheduleNext]_vars => TypeOK'
  BY ScheduleOperates, TypeStep
<1>3. QED
  BY <1>1, <1>2, PTL DEF ScheduleSpec

\* The status, the live head and the working head agree, also between the
\* publications of tasks, their retries and the operations of authors.
THEOREM HeadsAgreeUnderSchedules == ScheduleSpec => []HeadsAgree
<1>1. ScheduleInit => HeadsAgree
  BY NoHeads DEF ScheduleInit, Init, HeadsAgree, HasLiveHead
<1>2. TypeOK /\ HeadsAgree /\ [ScheduleNext]_vars => HeadsAgree'
  BY ScheduleOperates, HeadsStep
<1>3. QED
  BY <1>1, <1>2, RowsTyped, PTL DEF ScheduleSpec

\* The history holds the last revisions and agrees with the heads, also when
\* tasks publish and withdraw between the operations of authors.
THEOREM HistoryUnderSchedules == ScheduleSpec => []HistoryIsRecent
<1>1. ScheduleInit => HistoryInv
  BY InitHistory DEF ScheduleInit
<1>2. TypeOK /\ HeadsAgree /\ HistoryInv /\ [ScheduleNext]_vars => HistoryInv'
  BY ScheduleOperates, HistoryStep
<1>3. HistoryInv => HistoryIsRecent
  BY HistoryParts DEF HistoryInv
<1>4. QED
  BY <1>1, <1>2, <1>3, RowsTyped, HeadsAgreeUnderSchedules, PTL DEF ScheduleSpec

\* Readers see what was published last, by an author or by a task.
THEOREM PublicUnderSchedules == ScheduleSpec => PublicIsPublished
<1>1. ScheduleInit => Contract!Init
  BY NoHeads DEF ScheduleInit, Init, Contract!Init, Stored, HasLiveHead
<1>2. TypeOK /\ HeadsAgree /\ [ScheduleNext]_vars => [Contract!Next]_(Contract!vars)
  BY ScheduleOperates, ContractStep
<1>3. QED
  BY <1>1, <1>2, RowsTyped, HeadsAgreeUnderSchedules, PTL
     DEF ScheduleSpec, PublicIsPublished, Contract!Spec

-----------------------------------------------------------------------------
(* Revisions: within the life of a document they grow, and a step that keeps *)
(* the revision keeps the content but for a cleared reference.               *)

Grows ==
  /\ Stored' => Stored /\ doc.revision <= doc'.revision
  /\ Stored' /\ doc'.revision = doc.revision => doc'.content \in {doc.content, Cleared(doc.content)}

\* What an operation does to the revision.
LEMMA OperationGrows ==
  ASSUME TypeOK, [Operation]_docVars
  PROVE  /\ config' = config
         /\ \/ lives' = lives + 1 /\ lives < config.maxLives /\ ~Stored /\ Stored'
            \/ lives' = lives /\ Grows
<1> DEFINE Goal == /\ config' = config
                   /\ \/ lives' = lives + 1 /\ lives < config.maxLives /\ ~Stored /\ Stored'
                      \/ lives' = lives /\ Grows
<1> USE DEF Stored, Grows
<1>1. doc.revision \in Nat
  BY DEF TypeOK, Heads
<1>2. CASE UNCHANGED docVars
  BY <1>1, <1>2 DEF docVars
<1>3. ASSUME NEW c \in Contents, SaveDraft(c) PROVE Goal
  BY <1>1, <1>3, SaveDraftEffect DEF Rest
<1>4. ASSUME NEW c \in Contents, Publish(c) PROVE Goal
  BY <1>1, <1>4, PublishEffect DEF Rest
<1>5. ASSUME NEW c \in Contents, Unpublish(c) PROVE Goal
  BY <1>1, <1>5, UnpublishEffect DEF Rest
<1>6. ASSUME NEW c \in Contents, NEW s \in Statuses, Create(c, s) PROVE Goal
  BY <1>1, <1>6, CreateEffect DEF Rest
<1>7. CASE DiscardDraft
  BY <1>1, <1>7, DiscardEffect DEF Rest
<1>8. CASE Trash \/ RestoreDeleted
  BY <1>1, <1>8, TrashEffect DEF Rest
<1>9. CASE DeleteTarget
  BY <1>1, <1>9, DeleteTargetEffect DEF Rest
<1>10. CASE Delete
  BY <1>1, <1>10, DeleteEffect, NoHeads DEF Rest
<1>11. QED
  BY <1>2, <1>3, <1>4, <1>5, <1>6, <1>7, <1>8, <1>9, <1>10 DEF Operation

-----------------------------------------------------------------------------
(* Types of the schedule.                                                    *)

QueueTyped ==
  /\ status \in [Task -> {"absent", "open", "succeeded", "failed", "gone"}]
  /\ attempts \in [Task -> Nat]
  /\ owner \in [Task -> Nat]
  /\ result \in [Task -> Nat]

Lives == 1 .. config.maxLives

\* A row of the queue moves as the contract lets it.
LEMMA QueueMoves ==
  ASSUME QueueTyped,
         \/ \E t \in Task : Queue!Submit(t) \/ Queue!Succeed(t) \/ Queue!Fail(t)
         \/ \E S \in SUBSET Task : Queue!Grant(S) \/ Queue!Lapse(S) \/ Queue!Remove(S)
         \/ UNCHANGED queueVars
  PROVE  QueueTyped'
<1>1. CASE \E t \in Task : Queue!Submit(t) \/ Queue!Succeed(t) \/ Queue!Fail(t)
  BY <1>1 DEF QueueTyped, Queue!Submit, Queue!Succeed, Queue!Fail, Queue!Disown
<1>2. CASE \E S \in SUBSET Task : Queue!Grant(S)
  BY <1>2 DEF QueueTyped, Queue!Grant
<1>3. CASE \E S \in SUBSET Task : Queue!Lapse(S)
  BY <1>3 DEF QueueTyped, Queue!Lapse
<1>4. CASE \E S \in SUBSET Task : Queue!Remove(S)
  BY <1>4 DEF QueueTyped, Queue!Remove
<1>5. CASE UNCHANGED queueVars
  BY <1>5 DEF QueueTyped, queueVars
<1>6. QED
  BY <1>1, <1>2, <1>3, <1>4, <1>5

\* Every step moves the queue as its contract lets it.
LEMMA QueueStep == QueueTyped /\ exec \subseteq Handlers /\ [ScheduleNext]_vars => QueueTyped'
<1> SUFFICES ASSUME QueueTyped, exec \subseteq Handlers, [ScheduleNext]_vars PROVE QueueTyped'
  OBVIOUS
<1>1. CASE UNCHANGED vars
  BY <1>1, QueueMoves DEF vars
<1>2. CASE Write_(Author) \/ \E h \in exec : Commit(h)
  BY <1>2, QueueMoves DEF Write_, Commit
<1>3. CASE DeleteAll
  BY <1>3, QueueMoves DEF DeleteAll
<1>4. ASSUME NEW t \in Task, \/ \E a \in Action, given \in Given : Schedule(t, a, given)
                             \/ Enqueue(t) \/ Dismiss(t) \/ Claim(t) \/ Expire(t)
      PROVE  QueueTyped'
  <2>1. {t} \in SUBSET Task
    OBVIOUS
  <2>2. QED
    BY <1>4, <2>1, QueueMoves DEF Schedule, Enqueue, Dismiss, Claim, Expire
<1>5. ASSUME NEW h \in exec, Reject(h) \/ Break(h) \/ Conflict(h) \/ Succeed(h)
                             \/ Requeue(h) \/ Fail(h) \/ Release(h) \/ Drop(h)
      PROVE  QueueTyped'
  <2>1. h.task \in Task /\ {h.task} \in SUBSET Task
    BY DEF Handlers
  <2>2. QED
    BY <1>5, <2>1, QueueMoves
       DEF Reject, Break, Conflict, Succeed, Requeue, Fail, Release, Drop
<1>6. QED
  BY <1>1, <1>2, <1>3, <1>4, <1>5, StepKinds DEF Aside

\* A schedule records the document as it is, once for each task.
LEMMA InputMoves ==
  ASSUME ScheduleTypeOK, [ScheduleNext]_vars
  PROVE  /\ input' \in [Task -> Inputs \cup {NoInput}]
         /\ \A t \in Task : input'[t] # input[t] =>
              /\ input[t] = NoInput /\ input'[t] \in Inputs
              /\ input'[t].revision = doc.revision /\ input'[t].content = doc.content
              /\ input'[t].life = lives
              /\ Stored /\ UNCHANGED <<docVars, done>>
<1>1. input \in [Task -> Inputs \cup {NoInput}] /\ doc.revision \in Nat /\ doc.content \in Contents /\ lives \in Nat
  BY DEF ScheduleTypeOK, TypeOK, Heads
<1>2. ASSUME NEW u \in Task, NEW a \in Action, NEW given \in Given, Schedule(u, a, given)
      PROVE  /\ input' \in [Task -> Inputs \cup {NoInput}]
             /\ \A t \in Task : input'[t] # input[t] =>
                  /\ input[t] = NoInput /\ input'[t] \in Inputs
                  /\ input'[t].revision = doc.revision /\ input'[t].content = doc.content
                  /\ input'[t].life = lives
                  /\ Stored /\ UNCHANGED <<docVars, done>>
  <2> DEFINE expected == IF given = 0 THEN doc.revision ELSE given
             new == [action |-> a, expected |-> expected,
                     revision |-> doc.revision, content |-> doc.content, life |-> lives]
  <2>0. expected \in Nat
    BY <1>1, SchedulingAssumption
  <2>1. new \in Inputs
    BY <1>1, <2>0 DEF Inputs
  <2>2. input' = [input EXCEPT ![u] = new] /\ input[u] = NoInput /\ Stored /\ UNCHANGED <<docVars, done>>
    BY <1>2 DEF Schedule
  <2>3. QED
    BY <1>1, <2>1, <2>2
<1>3. \/ \E u \in Task, a \in Action, given \in Given : Schedule(u, a, given)
      \/ input' = input
  BY DEF ScheduleNext, vars, Write_, DeleteAll, Schedule, Enqueue, Dismiss, Claim, Expire,
         Reject, Break, Commit, Conflict, Succeed, Requeue, Fail, Release, Drop, Return
<1>4. QED
  BY <1>1, <1>2, <1>3

\* A handler keeps its task and its attempt.
LEMMA ExecMoves ==
  ASSUME ScheduleTypeOK, QueueTyped, [ScheduleNext]_vars
  PROVE  /\ exec' \subseteq Handlers
         /\ \A g \in exec' : g.outcome = "ok" =>
              g \in exec \/ \E h \in exec : g.task = h.task /\ Commit(h)
<1>1. exec \subseteq Handlers
  BY DEF ScheduleTypeOK
<1>2. ASSUME NEW h \in exec, NEW o \in Outcomes
      PROVE  /\ Returned(h, o) \subseteq Handlers
             /\ \A g \in Returned(h, o) : g \in exec \/ (g.task = h.task /\ g.outcome = o)
  BY <1>1 DEF Returned, Handlers
<1>3. {"ok", "abort", "retry"} \subseteq Outcomes
  BY DEF Outcomes
<1>4. ASSUME NEW t \in Task, Claim(t)
      PROVE  exec' \subseteq Handlers /\ \A g \in exec' : g.outcome = "ok" => g \in exec
  <2> DEFINE new == [task |-> t, attempt |-> attempts[t] + 1,
                     outcome |-> IF attempts[t] < MaxAttempts THEN "running" ELSE "abort"]
  <2>1. new \in Handlers /\ new.outcome # "ok"
    BY DEF Handlers, Outcomes, QueueTyped
  <2>2. exec' = exec \cup {new}
    BY <1>4 DEF Claim
  <2>3. QED
    BY <1>1, <2>1, <2>2
<1>5. ASSUME NEW h \in exec, Commit(h)
      PROVE  /\ exec' \subseteq Handlers
             /\ \A g \in exec' : g \in exec \/ g.task = h.task
  <2>1. exec' = Returned(h, "ok") \/ exec' = Returned(h, "retry")
    BY <1>5 DEF Commit
  <2>2. QED
    BY <1>2, <1>3, <2>1
<1>6. ASSUME NEW h \in exec, Reject(h) \/ Break(h) \/ Conflict(h)
      PROVE  exec' \subseteq Handlers /\ \A g \in exec' : g.outcome = "ok" => g \in exec
  <2>1. exec' = Returned(h, "abort") \/ exec' = Returned(h, "retry")
    BY <1>6 DEF Reject, Break, Conflict
  <2>2. QED
    BY <1>2, <1>3, <2>1
<1>7. \/ exec' \subseteq exec \/ \E t \in Task : Claim(t)
      \/ \E h \in exec : Commit(h) \/ Reject(h) \/ Break(h) \/ Conflict(h)
  BY DEF ScheduleNext, vars, Write_, DeleteAll, Schedule, Enqueue, Dismiss, Expire,
         Succeed, Requeue, Fail, Release, Drop, Return
<1>8. QED
  BY <1>1, <1>4, <1>5, <1>6, <1>7

\* Only a commit counts, in the life of the document that it finds.
LEMMA DoneMoves ==
  ASSUME ScheduleTypeOK, NEW h \in exec, Commit(h), lives \in Lives
  PROVE  /\ done' \in [Task -> [Lives -> Nat]]
         /\ done'[h.task][lives] = done[h.task][lives] + 1
         /\ \A l \in Lives : l # lives => done'[h.task][l] = done[h.task][l]
         /\ \A t \in Task : t # h.task => done'[t] = done[t]
<1>1. h.task \in Task /\ done \in [Task -> [Lives -> Nat]]
  BY DEF ScheduleTypeOK, Handlers, Lives
<1>2. done' = [done EXCEPT ![h.task][lives] = @ + 1]
  BY DEF Commit
<1>3. QED
  BY <1>1, <1>2

-----------------------------------------------------------------------------
(* The invariant.  FenceInv: as long as a document has not moved past the     *)
(* revision that a task was scheduled at, it is the document that was         *)
(* scheduled.  OnceInv: a task has published at most once in each life of the *)
(* document, and then the document has moved past its revision, or is gone.   *)

LifeInv == lives <= config.maxLives /\ (Stored => lives # 0)

FenceInv ==
  \A t \in Task : input[t] # NoInput =>
    /\ input[t].life <= lives
    /\ input[t].life = lives /\ Stored =>
         /\ input[t].revision <= doc.revision
         /\ doc.revision = input[t].revision =>
              doc.content \in {input[t].content, Cleared(input[t].content)}

Published(t) == \E l \in Lives : done[t][l] = 1

Past(t, l) == l < lives \/ (l = lives /\ (Stored => input[t].expected < doc.revision))

OnceInv ==
  /\ \A t \in Task, l \in Lives : done[t][l] = 0 \/ (done[t][l] = 1 /\ input[t] # NoInput /\ Past(t, l))
  /\ \A h \in exec : h.outcome = "ok" => Published(h.task)
  /\ \A t \in Task : status[t] = "succeeded" => Published(t)

TypeInv == ScheduleTypeOK /\ QueueTyped /\ LifeInv

\* What a task is asked to do is typed also before it is asked.
LEMMA InputFields ==
  ASSUME ScheduleTypeOK, NEW t \in Task
  PROVE  /\ input[t].expected \in Nat /\ input[t].revision \in Nat
         /\ input[t].content \in Contents /\ input[t].life \in Nat
BY NoHeads DEF ScheduleTypeOK, Inputs, NoInput

\* The document exists in one of its lives.
LEMMA LifeOfDocument == TypeInv => config.maxLives \in Nat /\ lives \in Nat /\ (Stored => lives \in Lives)
<1>1. ScheduleTypeOK => config.maxLives \in Nat /\ lives \in Nat
  BY PublicationAssumption DEF ScheduleTypeOK, TypeOK, Configurations
<1>2. QED
  BY <1>1 DEF TypeInv, LifeInv, Lives

\* A commit fences the task for the rest of the life of the document.
LEMMA CommitStep ==
  ASSUME TypeInv, NEW h \in exec, Commit(h)
  PROVE  /\ lives \in Lives /\ h.task \in Task /\ input[h.task] # NoInput
         /\ input[h.task].expected = doc.revision
         /\ done' \in [Task -> [Lives -> Nat]]
         /\ done'[h.task][lives] = done[h.task][lives] + 1
         /\ \A l \in Lives : l # lives => done'[h.task][l] = done[h.task][l]
         /\ \A t \in Task : t # h.task => done'[t] = done[t]
<1>1. TypeOK /\ h.task \in Task
  BY DEF TypeInv, ScheduleTypeOK, Handlers
<1>2. Stored /\ Fenced(h.task)
  BY <1>1, CommitOperates
<1>3. lives \in Lives
  BY <1>2, LifeOfDocument
<1>4. input[h.task].expected = doc.revision /\ doc.revision # 0
  BY <1>2 DEF Fenced, Stored
<1>5. input[h.task] # NoInput
  BY <1>4 DEF NoInput
<1>6. QED
  BY <1>1, <1>3, <1>4, <1>5, DoneMoves DEF TypeInv

\* Steps other than a commit do not count.
LEMMA DoneStays ==
  ASSUME [ScheduleNext]_vars, ~ \E h \in exec : Commit(h)
  PROVE  done' = done
BY StepKinds DEF vars, Write_, DeleteAll

\* The types, and the bound on lives.
LEMMA TypeInvStep == TypeInv /\ [ScheduleNext]_vars => TypeInv'
<1> SUFFICES ASSUME TypeInv, [ScheduleNext]_vars PROVE TypeInv'
  OBVIOUS
<1>1. ScheduleTypeOK /\ TypeOK /\ QueueTyped
  BY DEF TypeInv, ScheduleTypeOK
<1>2. [Operation]_docVars
  BY <1>1, ScheduleOperates
<1>3. TypeOK' /\ config' = config
  BY <1>1, <1>2, TypeStep, OperationGrows
<1>4. input' \in [Task -> Inputs \cup {NoInput}]
  BY <1>1, InputMoves
<1>5. exec' \subseteq Handlers
  BY <1>1, ExecMoves
<1>6. QueueTyped'
  BY <1>1, QueueStep DEF ScheduleTypeOK
<1>7. claimed' \subseteq Task
  BY <1>1 DEF ScheduleTypeOK, Handlers, ScheduleNext, vars, Write_, DeleteAll, Schedule, Enqueue,
              Dismiss, Claim, Expire, Reject, Break, Commit, Conflict, Succeed, Requeue, Fail,
              Release, Drop, Return
<1>8. done' \in [Task -> [Lives -> Nat]]
  <2>1. CASE \E h \in exec : Commit(h)
    BY <2>1, CommitStep
  <2>2. CASE ~ \E h \in exec : Commit(h)
    BY <1>1, <2>2, DoneStays DEF ScheduleTypeOK, Lives
  <2>3. QED
    BY <2>1, <2>2
<1>9. LifeInv'
  BY <1>1, <1>2, OperationGrows, LifeOfDocument DEF TypeInv, LifeInv, Grows, Lives
<1>10. QED
  BY <1>3, <1>4, <1>5, <1>6, <1>7, <1>8, <1>9 DEF TypeInv, ScheduleTypeOK, Lives

\* A document that stays at the revision it was scheduled at stays what it was.
LEMMA FenceStep == TypeInv /\ FenceInv /\ [ScheduleNext]_vars => FenceInv'
<1> SUFFICES ASSUME TypeInv, FenceInv, [ScheduleNext]_vars, NEW t \in Task, input'[t] # NoInput
             PROVE  /\ input'[t].life <= lives'
                    /\ input'[t].life = lives' /\ Stored' =>
                         /\ input'[t].revision <= doc'.revision
                         /\ doc'.revision = input'[t].revision =>
                              doc'.content \in {input'[t].content, Cleared(input'[t].content)}
  BY DEF FenceInv
<1>1. ScheduleTypeOK /\ TypeOK /\ lives \in Nat
  BY LifeOfDocument DEF TypeInv, ScheduleTypeOK
<1>2. doc.revision \in Nat /\ doc'.revision \in Nat
  BY <1>1, ScheduleOperates, TypeStep DEF TypeOK, Heads
<1>3. CASE input'[t] # input[t]
  <2>1. /\ input'[t].revision = doc.revision /\ input'[t].content = doc.content
        /\ input'[t].life = lives /\ doc' = doc /\ lives' = lives
    BY <1>1, <1>3, InputMoves DEF docVars
  <2>2. QED
    BY <1>1, <1>2, <2>1
<1>4. CASE input'[t] = input[t]
  <2>1. /\ input[t].life <= lives
        /\ input[t].life = lives /\ Stored =>
             /\ input[t].revision <= doc.revision
             /\ doc.revision = input[t].revision =>
                  doc.content \in {input[t].content, Cleared(input[t].content)}
    BY <1>4 DEF FenceInv
  <2>2. input[t].revision \in Nat /\ input[t].content \in Contents /\ input[t].life \in Nat
    BY <1>1, InputFields
  <2>3. Cleared(Cleared(input[t].content)) = Cleared(input[t].content)
    BY <2>2, ClearedContent
  <2>4. CASE lives' = lives + 1
    BY <1>1, <1>4, <2>1, <2>2, <2>4
  <2>5. CASE lives' = lives /\ Grows
    BY <1>1, <1>2, <1>4, <2>1, <2>2, <2>3, <2>5 DEF Grows
  <2>6. QED
    BY <1>1, <2>4, <2>5, ScheduleOperates, OperationGrows
<1>5. QED
  BY <1>3, <1>4

\* What was past stays past.
LEMMA PastStays ==
  ASSUME TypeInv, [ScheduleNext]_vars, NEW t \in Task, NEW l \in Lives, input[t] # NoInput, Past(t, l)
  PROVE  Past(t, l)' /\ input'[t] = input[t]
<1>1. ScheduleTypeOK /\ TypeOK /\ lives \in Nat /\ l \in Nat
  BY LifeOfDocument DEF TypeInv, ScheduleTypeOK, Lives
<1>2. doc.revision \in Nat /\ doc'.revision \in Nat
  BY <1>1, ScheduleOperates, TypeStep DEF TypeOK, Heads
<1>3. input'[t] = input[t] /\ input[t].expected \in Nat
  BY <1>1, InputMoves, InputFields
<1>4. \/ lives' = lives + 1
      \/ lives' = lives /\ (Stored' => Stored /\ doc.revision <= doc'.revision)
  BY <1>1, ScheduleOperates, OperationGrows DEF Grows
<1>5. QED
  BY <1>1, <1>2, <1>3, <1>4 DEF Past

\* A task that has published finds the document past its revision.
LEMMA OnceStep == TypeInv /\ OnceInv /\ [ScheduleNext]_vars => OnceInv'
<1> SUFFICES ASSUME TypeInv, OnceInv, [ScheduleNext]_vars PROVE OnceInv'
  OBVIOUS
<1>1. ScheduleTypeOK /\ TypeOK /\ QueueTyped /\ lives \in Nat /\ config' = config /\ exec \subseteq Handlers
  BY LifeOfDocument, ScheduleOperates, OperationGrows DEF TypeInv, ScheduleTypeOK
<1>2. Lives' = Lives
  BY <1>1 DEF Lives
<1>3. \A t \in Task, l \in Lives :
        done'[t][l] = 0 \/ (done'[t][l] = 1 /\ input'[t] # NoInput /\ Past(t, l)')
  <2> TAKE t \in Task, l \in Lives
  <2>1. CASE done'[t][l] = done[t][l]
    BY <2>1, PastStays DEF OnceInv
  <2>2. CASE done'[t][l] # done[t][l]
    <3>1. PICK h \in exec : Commit(h)
      BY <2>2, DoneStays
    <3>2. /\ t = h.task /\ l = lives /\ input[t] # NoInput /\ input[t].expected = doc.revision
          /\ done'[t][l] = done[t][l] + 1
      BY <2>2, <3>1, CommitStep
    <3>3. lives' = lives /\ doc'.revision = doc.revision + 1 /\ Stored /\ doc.revision \in Nat
      BY <1>1, <3>1, CommitOperates DEF TypeOK, Heads
    <3>4. done[t][l] = 0
      BY <1>1, <3>2, <3>3 DEF OnceInv, Past
    <3>5. input' = input
      BY <3>1 DEF Commit
    <3>6. QED
      BY <1>1, <3>2, <3>3, <3>4, <3>5 DEF Past
  <2>3. QED
    BY <2>1, <2>2
<1>4. \A t \in Task : Published(t) => Published(t)'
  <2> TAKE t \in Task
  <2>1. ASSUME NEW l \in Lives, done[t][l] = 1 PROVE done'[t][l] = 1
    <3>1. done'[t][l] \in {0, 1}
      BY <1>3
    <3>2. CASE \E h \in exec : Commit(h)
      BY <2>1, <3>1, <3>2, CommitStep
    <3>3. QED
      BY <2>1, <3>2, DoneStays
  <2>2. QED
    BY <1>2, <2>1 DEF Published
<1>5. \A h \in exec : Commit(h) => Published(h.task)'
  <2> SUFFICES ASSUME NEW h \in exec, Commit(h) PROVE Published(h.task)'
    OBVIOUS
  <2>1. /\ lives \in Lives /\ h.task \in Task /\ done'[h.task][lives] = done[h.task][lives] + 1
    BY CommitStep
  <2>2. done[h.task][lives] \in {0, 1} /\ done'[h.task][lives] \in {0, 1}
    BY <1>3, <2>1 DEF OnceInv
  <2>3. QED
    BY <1>2, <2>1, <2>2 DEF Published
<1>6. \A g \in exec' : g.outcome = "ok" => Published(g.task)'
  <2> SUFFICES ASSUME NEW g \in exec', g.outcome = "ok" PROVE Published(g.task)'
    OBVIOUS
  <2>1. g \in exec \/ \E h \in exec : g.task = h.task /\ Commit(h)
    BY <1>1, ExecMoves
  <2>2. CASE g \in exec
    BY <1>1, <1>4, <2>2 DEF OnceInv, Handlers
  <2>3. QED
    BY <1>5, <2>1, <2>2
<1>7. \A t \in Task : status'[t] = "succeeded" => Published(t)'
  <2>1. \/ \E h \in exec : Succeed(h)
        \/ \A t \in Task : status'[t] = "succeeded" => status[t] = "succeeded"
    BY <1>1 DEF QueueTyped, ScheduleNext, vars, queueVars, Write_, DeleteAll, Schedule, Enqueue, Dismiss, Claim,
         Expire, Reject, Break, Commit, Conflict, Requeue, Fail, Release, Drop,
         Queue!Submit, Queue!Fail, Queue!Grant, Queue!Lapse, Queue!Remove
  <2>2. ASSUME NEW h \in exec, Succeed(h)
        PROVE  \A t \in Task : status'[t] = "succeeded" => Published(t)
    <3>1. h.outcome = "ok" /\ status' = [status EXCEPT ![h.task] = "succeeded"] /\ h.task \in Task
      BY <1>1, <2>2 DEF Succeed, Queue!Succeed, Handlers
    <3>2. QED
      BY <1>1, <3>1 DEF OnceInv, QueueTyped
  <2>3. QED
    BY <1>4, <2>1, <2>2 DEF OnceInv
<1>8. QED
  BY <1>1, <1>2, <1>3, <1>6, <1>7 DEF OnceInv

\* The first state.
LEMMA ScheduleStart == ScheduleInit => TypeInv /\ FenceInv /\ OnceInv
<1> SUFFICES ASSUME ScheduleInit PROVE TypeInv /\ FenceInv /\ OnceInv
  OBVIOUS
<1>1. TypeOK /\ ~Stored /\ lives = 0
  BY NoHeads DEF ScheduleInit, Init, TypeOK, Stored
<1>2. config.maxLives \in Nat
  BY <1>1, PublicationAssumption DEF TypeOK, Configurations
<1>3. ScheduleTypeOK /\ QueueTyped
  BY <1>1 DEF ScheduleInit, ScheduleTypeOK, QueueTyped, Queue!Init, Queue!Zero
<1>4. LifeInv /\ FenceInv
  BY <1>1, <1>2 DEF LifeInv, FenceInv, ScheduleInit
<1>5. OnceInv
  BY DEF OnceInv, ScheduleInit, Lives, Queue!Init
<1>6. QED
  BY <1>3, <1>4, <1>5 DEF TypeInv

-----------------------------------------------------------------------------
(* The theorems.                                                             *)

\* The invariant holds in every reachable state.
LEMMA ScheduleInvariant == ScheduleSpec => [](TypeInv /\ FenceInv /\ OnceInv)
BY ScheduleStart, TypeInvStep, FenceStep, OnceStep, PTL DEF ScheduleSpec

\* The document, the schedule and the handlers have their types.
THEOREM ScheduleTypeCorrect == ScheduleSpec => []ScheduleTypeOK
<1>1. TypeInv => ScheduleTypeOK
  BY DEF TypeInv
<1>2. QED
  BY <1>1, ScheduleInvariant, PTL

\* However often the queue redelivers a task and wherever its handlers crash,
\* it publishes at most once in a life of the document, and a task that is
\* reported to have succeeded did publish.
THEOREM PublishedOnce == ScheduleSpec => []PublicationHappensOnce
<1>1. OnceInv => PublicationHappensOnce
  BY DEF OnceInv, PublicationHappensOnce, Published, Lives
<1>2. QED
  BY <1>1, ScheduleInvariant, PTL

\* Whatever authors did between the scheduling of a task and its publication, and
\* whichever revision its caller gave, it publishes or withdraws the version of
\* that revision: not at all if the document was past it when it was scheduled,
\* and what the document was then if it was at it.
THEOREM PublishedAsScheduled == ScheduleSpec => PublishesWhatWasScheduled
<1> DEFINE Names(t) == \E v \in versions :
             v.revision = input[t].expected /\ doc'.content \in {v.content, Cleared(v.content)}
           Kept(t) == input[t].life = lives =>
             /\ input[t].expected >= input[t].revision
             /\ input[t].expected = input[t].revision =>
                  doc'.content \in {input[t].content, Cleared(input[t].content)}
           Goal == \A t \in Task : done'[t] # done[t] =>
                     /\ Names(t)
                     /\ input[t].action = "publish" => live'.content = doc'.content
                     /\ input[t].action = "unpublish" => live' = NoLive
                     /\ Kept(t)
<1>1. TypeInv /\ FenceInv /\ HistoryIsRecent /\ [ScheduleNext]_vars => [Goal]_vars
  <2> SUFFICES ASSUME TypeInv, FenceInv, HistoryIsRecent, [ScheduleNext]_vars,
                      NEW t \in Task, done'[t] # done[t]
               PROVE  /\ Names(t)
                      /\ input[t].action = "publish" => live'.content = doc'.content
                      /\ input[t].action = "unpublish" => live' = NoLive
                      /\ Kept(t)
    OBVIOUS
  <2>1. PICK h \in exec : Commit(h)
    BY DoneStays
  <2>2. t = h.task /\ input[t] # NoInput /\ input[t].expected = doc.revision
    BY <2>1, CommitStep
  <2>3. /\ Stored /\ doc'.content = doc.content
        /\ input[t].action = "publish" => live'.content = doc.content
        /\ input[t].action # "publish" => live' = NoLive
    BY <2>1, <2>2, CommitOperates DEF TypeInv, ScheduleTypeOK
  <2>4. Names(t)
    <3>1. doc.revision \in Nat \ {0} /\ config.kept \in Nat \ {0}
      BY <2>3, PublicationAssumption
         DEF TypeInv, ScheduleTypeOK, TypeOK, Heads, Stored, Configurations
    <3>2. doc.revision \in {r \in 1 .. doc.revision : r + config.kept > doc.revision}
      BY <3>1
    <3>3. doc.revision \in {v.revision : v \in versions}
      BY <3>2 DEF HistoryIsRecent
    <3>4. PICK v \in versions : v.revision = doc.revision
      BY <3>3
    <3>5. (IF target THEN v.content ELSE Cleared(v.content)) = doc.content
      BY <3>4 DEF HistoryIsRecent
    <3>6. QED
      BY <2>2, <2>3, <3>4, <3>5
  <2>5. Kept(t)
    <3> SUFFICES ASSUME input[t].life = lives
                 PROVE  /\ input[t].expected >= input[t].revision
                        /\ input[t].expected = input[t].revision =>
                             doc'.content \in {input[t].content, Cleared(input[t].content)}
      OBVIOUS
    <3>1. /\ input[t].revision <= doc.revision
          /\ doc.revision = input[t].revision =>
               doc.content \in {input[t].content, Cleared(input[t].content)}
      BY <2>2, <2>3 DEF FenceInv
    <3>2. input[t].revision \in Nat /\ doc.revision \in Nat
      BY InputFields DEF TypeInv, ScheduleTypeOK, TypeOK, Heads
    <3>3. QED
      BY <2>2, <2>3, <3>1, <3>2
  <2>6. QED
    BY <2>3, <2>4, <2>5
<1>2. QED
  BY <1>1, ScheduleInvariant, HistoryUnderSchedules, PTL DEF ScheduleSpec, PublishesWhatWasScheduled
=============================================================================
