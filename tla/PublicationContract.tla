------------------------- MODULE PublicationContract -------------------------
(***************************************************************************)
(* What drafts and publication promise to authors and readers of one       *)
(* document (website/src/content/docs/drafts-and-versions.md), without     *)
(* revisions, flags and version rows: readers see the content that was     *)
(* published last and nothing else, and a reset gives authors back what    *)
(* readers see.  Module Publication implements it.                         *)
(***************************************************************************)

CONSTANTS
  Content,     \* what a document may hold
  Complete,    \* content that may be published
  None,        \* no content
  Clear(_)     \* content without its reference

VARIABLES
  working,  \* the content authors edit, None if there is no document
  public,   \* the content readers see, None if nothing is published
  hidden    \* whether the document is in the trash

vars == <<working, public, hidden>>

Init == working = None /\ public = None /\ ~hidden

Open == working # None /\ ~hidden

Create(c) ==
  /\ working = None
  /\ working' = c
  /\ public' = None \/ (c \in Complete /\ public' = c)
  /\ ~hidden'

Save(c) == Open /\ working' = c /\ UNCHANGED <<public, hidden>>

Publish(c) == Open /\ c \in Complete /\ working' = c /\ public' = c /\ UNCHANGED hidden

Withdraw(c) == Open /\ public # None /\ working' = c /\ public' = None /\ UNCHANGED hidden

\* The draft changes are discarded.
Reset == Open /\ public # None /\ working' = public /\ UNCHANGED <<public, hidden>>

Hide == Open /\ hidden' /\ UNCHANGED <<working, public>>
Show == hidden /\ ~hidden' /\ UNCHANGED <<working, public>>

\* The document that the content refers to is deleted.
ClearHeads ==
  /\ working # None
  /\ working' = Clear(working)
  /\ public' = IF public = None THEN None ELSE Clear(public)
  /\ UNCHANGED hidden

Remove == working # None /\ working' = None /\ public' = None /\ ~hidden'

Next ==
  \/ \E c \in Content : Create(c) \/ Save(c) \/ Publish(c) \/ Withdraw(c)
  \/ Reset \/ Hide \/ Show \/ ClearHeads \/ Remove

Spec == Init /\ [][Next]_vars
=============================================================================
