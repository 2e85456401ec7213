----------------------------- MODULE Publication -----------------------------
(***************************************************************************)
(* The working head, the live head and the versions of one document of a   *)
(* collection with drafts: adapters/sqlite/documents.go (Create, Update,    *)
(* Trash, Restore, Delete, SaveVersion) as internal/operation/engine.go     *)
(* calls it.                                                                *)
(*                                                                         *)
(* Every operation is one immediate transaction that has locked the row it *)
(* reads, hence one action.  A patch is merged into the working content by *)
(* the operation, so what it may save is any content: Contents.            *)
(***************************************************************************)
EXTENDS Naturals, FiniteSets

CONSTANTS
  Text,     \* values of the required field
  Missing,  \* the value of the required field in an incomplete draft
  None,     \* no content
  Configs   \* configurations of the collection, with the bounds of the model

\* refers: whether the optional relationship field, which a deletion of its
\* target clears, is set.
Contents == [text : Text \cup {Missing}, refers : BOOLEAN]

\* kept: VersionConfig.MaxPerDocument.  contents: what authors write.  The other
\* two are bounds: the revisions of a document and how often it is created.
Configurations ==
  [kept : Nat \ {0}, contents : SUBSET Contents, maxRevision : Nat, maxLives : Nat]

ASSUME PublicationAssumption ==
  /\ Missing \notin Text
  /\ None \notin Contents
  /\ Configs \subseteq Configurations

VARIABLES
  config,   \* the configuration
  doc,      \* the row of ridu_documents
  live,     \* the row of ridu_published_documents, of revision 0 if there is none
  versions, \* the rows of ridu_versions
  target,   \* whether the document that the content may refer to exists
  lives     \* history: how often the document was created

docVars == <<config, doc, live, versions, target, lives>>

Empty == [text |-> Missing, refers |-> FALSE]
Complete == {c \in Contents : c.text # Missing}
Cleared(c) == [c EXCEPT !.refers = FALSE]

Statuses == {"draft", "published"}
Heads == [revision : Nat, status : Statuses, content : Contents, trashed : BOOLEAN]
NoDoc == [revision |-> 0, status |-> "draft", content |-> Empty, trashed |-> FALSE]
LiveHeads == [revision : Nat, content : Contents, trashed : BOOLEAN, pending : BOOLEAN]
NoLive == [revision |-> 0, content |-> Empty, trashed |-> FALSE, pending |-> FALSE]
Versions == [life : Nat, revision : Nat, status : Statuses, content : Contents]

Stored == doc.revision # 0
HasLiveHead == live.revision # 0

Init ==
  /\ config \in Configs
  /\ doc = NoDoc
  /\ live = NoLive
  /\ versions = {}
  /\ target = TRUE
  /\ lives = 0

-----------------------------------------------------------------------------
(* What the operations have in common. *)

\* A reference must exist when it is saved.
Valid(c) == c.refers => target

\* The row that the operation has locked.
Open == Stored /\ ~doc.trashed /\ doc.revision < config.maxRevision

\* putPublishedHead.
LiveOf(d) == [revision |-> d.revision, content |-> d.content, trashed |-> d.trashed, pending |-> FALSE]

\* Mutant of Latest: a row too many is kept.
LatestAndOne(rows) == {v \in rows : Cardinality({w \in rows : w.revision > v.revision}) <= config.kept}

\* The rows that the limit leaves.
Latest(rows) == {v \in rows : Cardinality({w \in rows : w.revision > v.revision}) < config.kept}

\* SaveVersion.
Saved(d, life) ==
  Latest({v \in versions : v.revision # d.revision /\ (d.revision = 1 => v.revision < 1)}
           \cup {[life |-> life, revision |-> d.revision, status |-> d.status, content |-> d.content]})

\* Update: the row is written with the next revision, and a version saved.
Write(c, status) ==
  /\ doc' = [doc EXCEPT !.revision = @ + 1, !.status = status, !.content = c]
  /\ versions' = Saved(doc', lives)
  /\ UNCHANGED <<config, target, lives>>

-----------------------------------------------------------------------------
(* The operations. *)

Create(c, status) ==
  /\ ~Stored /\ lives < config.maxLives
  /\ Valid(c) /\ (status = "published" => c \in Complete)
  /\ lives' = lives + 1
  /\ doc' = [revision |-> 1, status |-> status, content |-> c, trashed |-> FALSE]
  /\ live' = IF status = "published" THEN LiveOf(doc') ELSE NoLive
  /\ versions' = Saved(doc', lives')
  /\ UNCHANGED <<config, target>>

\* Mutant of SaveDraft: a draft of a published document is published.
SaveDraftLive(c) ==
  /\ Open /\ Valid(c)
  /\ Write(c, IF HasLiveHead THEN "published" ELSE "draft")
  /\ live' = IF HasLiveHead THEN [LiveOf(doc') EXCEPT !.pending = TRUE] ELSE live

\* Mutant of SaveDraft: the live head is not marked.
SaveDraftUnmarked(c) ==
  /\ Open /\ Valid(c)
  /\ Write(c, IF HasLiveHead THEN "published" ELSE "draft")
  /\ UNCHANGED live

\* Update of a collection with drafts: the live head stays as it is.
SaveDraft(c) ==
  /\ Open /\ Valid(c)
  /\ Write(c, IF HasLiveHead THEN "published" ELSE "draft")
  /\ live' = IF HasLiveHead THEN [live EXCEPT !.pending = TRUE] ELSE live

Publish(c) ==
  /\ Open /\ Valid(c) /\ c \in Complete
  /\ Write(c, "published")
  /\ live' = LiveOf(doc')

Unpublish(c) ==
  /\ Open /\ Valid(c) /\ doc.status = "published"
  /\ Write(c, "draft")
  /\ live' = NoLive

DiscardDraft ==
  /\ Open /\ HasLiveHead /\ live.pending
  /\ Write(live.content, "published")
  /\ live' = [live EXCEPT !.pending = FALSE]

\* Restore of a version: its content goes through the operation that its status
\* calls for.
RestoreVersion(v) ==
  \/ v.status = "published" /\ Publish(v.content)
  \/ v.status = "draft" /\ doc.status = "published" /\ Unpublish(v.content)
  \/ v.status = "draft" /\ doc.status = "draft" /\ SaveDraft(v.content)

RestoreAsDraft(v) == SaveDraft(v.content)

Trash ==
  /\ Stored /\ ~doc.trashed
  /\ doc' = [doc EXCEPT !.trashed = TRUE]
  /\ live' = [live EXCEPT !.trashed = HasLiveHead]
  /\ UNCHANGED <<config, versions, target, lives>>

RestoreDeleted ==
  /\ Stored /\ doc.trashed
  /\ doc' = [doc EXCEPT !.trashed = FALSE]
  /\ live' = [live EXCEPT !.trashed = FALSE]
  /\ UNCHANGED <<config, versions, target, lives>>

\* Delete, DeletePermanent or a cascade, with DeleteDocumentState.
Delete ==
  /\ Stored
  /\ doc' = NoDoc
  /\ live' = NoLive
  /\ versions' = {}
  /\ UNCHANGED <<config, target, lives>>

\* ApplyReferenceDelete for the document that the content refers to: both heads
\* lose the reference, and keep revision and flags.
DeleteTarget ==
  /\ target /\ target' = FALSE
  /\ doc' = [doc EXCEPT !.content = Cleared(@)]
  /\ live' = [live EXCEPT !.content = Cleared(@)]
  /\ UNCHANGED <<config, versions, lives>>

Author ==
  \/ \E c \in config.contents :
       SaveDraft(c) \/ Publish(c) \/ Unpublish(c) \/ \E s \in Statuses : Create(c, s)
  \/ \E v \in versions : RestoreVersion(v) \/ RestoreAsDraft(v)
  \/ DiscardDraft \/ Trash \/ RestoreDeleted \/ DeleteTarget

Next == Author \/ Delete

Spec == Init /\ [][Next]_docVars

-----------------------------------------------------------------------------

TypeOK ==
  /\ config \in Configs
  /\ doc \in Heads
  /\ live \in LiveHeads
  /\ versions \subseteq Versions
  /\ target \in BOOLEAN
  /\ lives \in Nat

\* store/store.go, HasLiveHead, and documents.go, Update.  However drafts,
\* publications, discards, restores, trash and reference deletes follow on each
\* other, the status tells whether there is a live head, the trash holds both
\* heads or none, and only a head marked as having draft changes differs from
\* the working content.
HeadsAgree ==
  /\ (doc.status = "published") = HasLiveHead
  /\ HasLiveHead =>
       /\ live.trashed = doc.trashed
       /\ live.revision <= doc.revision
       /\ IF live.pending THEN live.revision < doc.revision ELSE live.content = doc.content
       /\ live.content \in Complete

\* SaveVersion and DeleteDocumentState.  The history is that of this document,
\* not of one deleted before under its ID, and holds the last MaxPerDocument
\* revisions; the rows of the current revisions are what the heads hold, up to
\* a reference that was cleared.
HistoryIsRecent ==
  LET shown(c) == IF target THEN c ELSE Cleared(c) IN
  /\ {v.revision : v \in versions} =
       {r \in 1 .. doc.revision : r + config.kept > doc.revision}
  /\ \A v, w \in versions : v.revision = w.revision => v = w
  /\ \A v \in versions :
       /\ v.life = lives
       /\ v.revision = doc.revision => v.status = doc.status /\ shown(v.content) = doc.content
       /\ v.revision = live.revision => v.status = "published" /\ shown(v.content) = live.content

Contract == INSTANCE PublicationContract WITH
  Content <- Contents,
  Clear <- Cleared,
  working <- IF Stored THEN doc.content ELSE None,
  public <- IF HasLiveHead THEN live.content ELSE None,
  hidden <- doc.trashed

\* drafts-and-versions.md, "Publish atomically replaces the live snapshot from
\* the final working candidate; unpublish removes live content while retaining
\* working values": readers see what was published last, and drafts, restores
\* as drafts, discards and the trash leave it alone.
PublicIsPublished == Contract!Spec
=============================================================================
