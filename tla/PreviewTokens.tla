---------------------------- MODULE PreviewTokens ----------------------------
(***************************************************************************)
(* Preview tokens of one process: core/preview.go, with the fence that     *)
(* internal/operation/engine.go puts around the commit of a permanent      *)
(* deletion and the transport's use in internal/httpapi/http.go.           *)
(*                                                                         *)
(* A token lets its bearer read one draft as one account.  Document and    *)
(* account IDs can be used again after a permanent deletion, so a grant    *)
(* must not outlive the incarnation of either.  Two guards see to it: the  *)
(* creation times stored with the grant, and an epoch which the fence      *)
(* advances while it removes the grants of what it deletes.                *)
(*                                                                         *)
(* One action is one critical section of the registry's mutex or one read  *)
(* of the database.  Several creations may share one reading of the clock. *)
(* A global is a target that is never deleted.                             *)
(***************************************************************************)
EXTENDS Naturals, FiniteSets

CONSTANTS
  Target,       \* documents with a live preview
  Actor,        \* accounts
  Request,      \* concurrent requests of the process
  Duration,     \* previewTokenDuration
  MaxPerActor,  \* maxPreviewTokensPerActor
  MaxTokens,    \* maxPreviewTokens
  Elsewhere,    \* what another process may delete, which has its own registry
  MaxTime,      \* bound: the clock
  MaxLives,     \* bound: incarnations of one ID
  MaxIssued,    \* bound: tokens issued
  MaxFences     \* bound: fenced commits

Entity == Target \cup Actor

ASSUME PreviewAssumption ==
  /\ Target \cap Actor = {}
  /\ Elsewhere \subseteq Entity
  /\ {Duration, MaxPerActor, MaxTokens, MaxTime, MaxLives, MaxIssued, MaxFences} \subseteq Nat
  /\ MaxLives # 0

VARIABLES
  now,       \* the clock
  life,      \* per ID: its incarnation, whether it is stored, and createdAt
  mu,        \* previewTokenRegistry.mu: free, or held by a deletion's fence
  deleting,  \* the permanent deletions of the transaction under the fence
  epoch,     \* previewTokenRegistry.epoch
  issued,    \* tokens issued so far: the digest of the next one
  grants,    \* previewTokenRegistry.grants: token to grant
  req        \* per request: the call it is in

vars == <<now, life, mu, deleting, epoch, issued, grants, req>>
registry == <<mu, deleting, epoch, issued, grants>>

Life == [inc : 1 .. MaxLives, stored : BOOLEAN, created : 0 .. MaxTime]

\* A grant; the incarnations are history, the code has the creation times.
Grant == [target : Target, targetCreated : 0 .. MaxTime, targetInc : 1 .. MaxLives,
          actor : Actor, actorCreated : 0 .. MaxTime, actorInc : 1 .. MaxLives,
          http : BOOLEAN, authInc : 1 .. MaxLives, expires : 0 .. MaxTime + Duration]

\* What a call has read; "told" is what it was asked for or authenticated as.
Idle == [pc |-> "idle"]

Init ==
  /\ now = 0
  /\ life = [e \in Entity |-> [inc |-> 1, stored |-> TRUE, created |-> 0]]
  /\ mu = "free" /\ deleting = {}
  /\ epoch = 0
  /\ issued = 0
  /\ grants = [k \in {} |-> 0]
  /\ req = [r \in Request |-> Idle]

-----------------------------------------------------------------------------
(* The registry. *)

Tokens == DOMAIN grants
Kept(K) == [k \in K |-> grants[k]]
Without(k) == Kept(Tokens \ {k})
Live(g, time) == time < g.expires

At(r, pc) == req[r].pc = pc
Leave(r) == req' = [req EXCEPT ![r] = Idle]

\* A failed lookup or a changed identity removes the token it was found by.
Revoke(r) ==
  /\ mu = "free"
  /\ grants' = Without(req[r].token)
  /\ Leave(r)
  /\ UNCHANGED <<now, life, mu, deleting, epoch, issued>>

\* beginPermanentDeleteFence: taken before the commit.
BeginFence(S) ==
  /\ mu = "free" /\ deleting = {} /\ epoch < MaxFences
  /\ \A e \in S : life[e].stored
  /\ mu' = "fence"
  /\ deleting' = S
  /\ UNCHANGED <<now, life, epoch, issued, grants, req>>

\* Transaction.Commit: it may fail, or succeed without the process knowing.
CommitDelete ==
  /\ mu = "fence"
  /\ mu' = "committed"
  /\ \/ UNCHANGED life
     \/ /\ \A e \in deleting : life[e].stored
        /\ life' = [e \in Entity |-> IF e \in deleting THEN [life[e] EXCEPT !.stored = FALSE] ELSE life[e]]
  /\ UNCHANGED <<now, deleting, epoch, issued, grants, req>>

Named(g) == {g.target, g.actor}

\* Mutant of EndFence: only the epoch is advanced.
EndFenceEpoch ==
  /\ mu = "committed"
  /\ mu' = "free" /\ deleting' = {} /\ epoch' = epoch + 1
  /\ UNCHANGED <<now, life, issued, grants, req>>

\* Mutant of EndFence: only the grants are removed.
EndFenceGrants ==
  /\ mu = "committed"
  /\ mu' = "free" /\ deleting' = {}
  /\ grants' = Kept({k \in Tokens : Named(grants[k]) \cap deleting = {}})
  /\ UNCHANGED <<now, life, epoch, issued, req>>

\* The fence is released once the commit was attempted, whatever came of it.
EndFence ==
  /\ mu = "committed"
  /\ mu' = "free" /\ deleting' = {}
  /\ epoch' = epoch + 1
  /\ grants' = Kept({k \in Tokens : Named(grants[k]) \cap deleting = {}})
  /\ UNCHANGED <<now, life, issued, req>>

-----------------------------------------------------------------------------
(* Minting: the transport's authentication, then createPreviewToken. *)

\* The transport captures the epoch before it authenticates.
CaptureEpoch(r) ==
  /\ At(r, "idle") /\ mu = "free"
  /\ req' = [req EXCEPT ![r] = [pc |-> "authenticate", identityEpoch |-> epoch + 1]]
  /\ UNCHANGED <<now, life, registry>>

Authenticate(r, a) ==
  /\ At(r, "authenticate")
  /\ IF life[a].stored
     THEN \E d \in Target :
            req' = [req EXCEPT ![r] = [pc |-> "mint", identityEpoch |-> @.identityEpoch,
                                       http |-> TRUE, target |-> d, actor |-> a, authInc |-> life[a].inc]]
     ELSE Leave(r)
  /\ UNCHANGED <<now, life, registry>>

\* A direct caller has an identity and no epoch.
CallDirectly(r, a) ==
  /\ At(r, "idle")
  /\ \E d \in Target :
       req' = [req EXCEPT ![r] = [pc |-> "mint", identityEpoch |-> 0,
                                  http |-> FALSE, target |-> d, actor |-> a, authInc |-> life[a].inc]]
  /\ UNCHANGED <<now, life, registry>>

\* Mutant of StartMint: the epoch of the identity is not compared.
StartMintAnyEpoch(r) ==
  /\ At(r, "mint") /\ mu = "free"
  /\ req' = [req EXCEPT ![r] = [pc |-> "resolve", start |-> epoch + 1, http |-> @.http,
                                target |-> @.target, actor |-> @.actor, authInc |-> @.authInc]]
  /\ UNCHANGED <<now, life, registry>>

StartMint(r) ==
  /\ At(r, "mint") /\ mu = "free"
  /\ IF req[r].identityEpoch \in {0, epoch + 1}
     THEN req' = [req EXCEPT ![r] = [pc |-> "resolve", start |-> epoch + 1, http |-> @.http,
                                     target |-> @.target, actor |-> @.actor, authInc |-> @.authInc]]
     ELSE Leave(r)
  /\ UNCHANGED <<now, life, registry>>

\* resolveAuthIdentity reloads the account by its ID.
ResolveIdentity(r) ==
  /\ At(r, "resolve")
  /\ LET a == life[req[r].actor] IN
     IF a.stored
     THEN req' = [req EXCEPT ![r] = [pc |-> "target", start |-> @.start, http |-> @.http,
                                     target |-> @.target, actor |-> @.actor, authInc |-> @.authInc,
                                     actorInc |-> a.inc, actorCreated |-> a.created]]
     ELSE Leave(r)
  /\ UNCHANGED <<now, life, registry>>

\* local.Find of the target as that account; then the clock is read.
FindTarget(r) ==
  /\ At(r, "target")
  /\ LET d == life[req[r].target] IN
     \/ /\ d.stored
        /\ req' = [req EXCEPT ![r] = [pc |-> "store", start |-> @.start, time |-> now,
             grant |-> [target |-> @.target, targetCreated |-> d.created, targetInc |-> d.inc,
                        actor |-> @.actor, actorCreated |-> @.actorCreated, actorInc |-> @.actorInc,
                        http |-> @.http, authInc |-> @.authInc, expires |-> now + Duration]]]
     \/ Leave(r)
  /\ UNCHANGED <<now, life, registry>>

\* Mutant of StoreGrant: the limits are not looked at.
StoreGrantNoRoom(r) ==
  LET kept == {k \in Tokens : Live(grants[k], req[r].time)} IN
  /\ At(r, "store") /\ mu = "free" /\ issued < MaxIssued
  /\ Leave(r)
  /\ IF epoch + 1 # req[r].start THEN UNCHANGED <<issued, grants>>
     ELSE /\ grants' = [k \in kept \cup {issued} |-> IF k = issued THEN req[r].grant ELSE grants[k]]
          /\ issued' = issued + 1
  /\ UNCHANGED <<now, life, mu, deleting, epoch>>

\* The grant is stored, with expired ones removed, unless a deletion was
\* fenced meanwhile or a limit is met.
StoreGrant(r) ==
  LET g == req[r].grant
      kept == {k \in Tokens : Live(grants[k], req[r].time)}
      room == /\ Cardinality({k \in kept : grants[k].actor = g.actor}) < MaxPerActor
              /\ Cardinality(kept) < MaxTokens
  IN  /\ At(r, "store") /\ mu = "free" /\ issued < MaxIssued
      /\ Leave(r)
      /\ IF epoch + 1 # req[r].start THEN UNCHANGED <<issued, grants>>
         ELSE IF room
         THEN /\ grants' = [k \in kept \cup {issued} |-> IF k = issued THEN g ELSE grants[k]]
              /\ issued' = issued + 1
         ELSE grants' = Kept(kept) /\ UNCHANGED issued
      /\ UNCHANGED <<now, life, mu, deleting, epoch>>

\* RevokePreviewToken by the account a token was minted for; it was read
\* before the lock was taken and may be gone by now.
RevokeOwn(k) ==
  /\ mu = "free" /\ k \in Tokens
  /\ grants' = Without(k)
  /\ UNCHANGED <<now, life, mu, deleting, epoch, issued, req>>

-----------------------------------------------------------------------------
(* Reading: resolvePreviewGrant, local.Find and revalidatePreviewGrant. *)

LookUp(r, k) ==
  /\ At(r, "idle") /\ mu = "free" /\ k \in Tokens
  /\ IF Live(grants[k], now)
     THEN /\ req' = [req EXCEPT ![r] = [pc |-> "actor", token |-> k, grant |-> grants[k]]]
          /\ UNCHANGED grants
     ELSE grants' = Without(k) /\ UNCHANGED req
  /\ UNCHANGED <<now, life, mu, deleting, epoch, issued>>

\* Mutant of SameActor: the creation time is not compared.
AnyActor(r) == life[req[r].grant.actor].stored

\* authUser by the grant's ID: its account must be the one of the grant.
SameActor(r) ==
  LET a == life[req[r].grant.actor] IN a.stored /\ a.created = req[r].grant.actorCreated

LoadActor(r) ==
  /\ At(r, "actor") /\ SameActor(r)
  /\ req' = [req EXCEPT ![r] = [pc |-> "find", token |-> @.token, grant |-> @.grant,
                                actorInc |-> life[@.grant.actor].inc]]
  /\ UNCHANGED <<now, life, registry>>

\* The document as that account may read it; a refusal leaves the token.
FindDocument(r) ==
  /\ At(r, "find")
  /\ LET d == life[req[r].grant.target] IN
     \/ /\ d.stored
        /\ req' = [req EXCEPT ![r] = [pc |-> IF d.created = @.grant.targetCreated THEN "recheck" ELSE "revoke",
                                      token |-> @.token, grant |-> @.grant,
                                      actorInc |-> @.actorInc, targetInc |-> d.inc]]
     \/ Leave(r)
  /\ UNCHANGED <<now, life, registry>>

RecheckActor(r) ==
  /\ At(r, "recheck") /\ SameActor(r)
  /\ req' = [req EXCEPT ![r].pc = "revalidate"]
  /\ UNCHANGED <<now, life, registry>>

ActorGone(r) ==
  /\ req[r].pc \in {"actor", "recheck"} /\ ~SameActor(r)
  /\ req' = [req EXCEPT ![r].pc = "revoke"]
  /\ UNCHANGED <<now, life, registry>>

RevokeFound(r) == At(r, "revoke") /\ Revoke(r)

\* Mutant of Answer: the grant is not looked up again.
AnswerAtOnce(r) ==
  /\ At(r, "revalidate") /\ mu = "free"
  /\ req' = [req EXCEPT ![r].pc = "answered"]
  /\ UNCHANGED <<now, life, mu, deleting, epoch, issued, grants>>

\* The read is answered if the token still has its grant.
Answer(r) ==
  LET k == req[r].token IN
  /\ At(r, "revalidate") /\ mu = "free"
  /\ IF k \in Tokens /\ Live(grants[k], now) /\ grants[k] = req[r].grant
     THEN req' = [req EXCEPT ![r].pc = "answered"] /\ UNCHANGED grants
     ELSE /\ Leave(r)
          /\ grants' = Kept({j \in Tokens : j = k => Live(grants[k], now)})
  /\ UNCHANGED <<now, life, mu, deleting, epoch, issued>>

Done(r) == At(r, "answered") /\ Leave(r) /\ UNCHANGED <<now, life, registry>>

-----------------------------------------------------------------------------
(* The database and the clock. *)

DeleteElsewhere(e) ==
  /\ e \in Elsewhere /\ life[e].stored /\ e \notin deleting
  /\ life' = [life EXCEPT ![e].stored = FALSE]
  /\ UNCHANGED <<now, registry, req>>

\* An ID is used again; at a later time if no fence knew of the deletion.
Create(e) ==
  /\ ~life[e].stored /\ life[e].inc < MaxLives
  /\ e \in Elsewhere => life[e].created < now
  /\ life' = [life EXCEPT ![e] = [inc |-> @.inc + 1, stored |-> TRUE, created |-> now]]
  /\ UNCHANGED <<now, registry, req>>

Tick == now < MaxTime /\ now' = now + 1 /\ UNCHANGED <<life, registry, req>>

Mint(r) ==
  \/ CaptureEpoch(r) \/ StartMint(r) \/ ResolveIdentity(r) \/ FindTarget(r) \/ StoreGrant(r)
  \/ \E a \in Actor : Authenticate(r, a) \/ CallDirectly(r, a)

Read(r) ==
  \/ \E k \in 0 .. MaxIssued - 1 : LookUp(r, k)
  \/ LoadActor(r) \/ FindDocument(r) \/ RecheckActor(r) \/ ActorGone(r)
  \/ RevokeFound(r) \/ Answer(r) \/ Done(r)

Next ==
  \/ \E r \in Request : Mint(r) \/ Read(r)
  \/ \E k \in 0 .. MaxIssued - 1 : RevokeOwn(k)
  \/ \E S \in SUBSET Entity \ {{}} : BeginFence(S)
  \/ CommitDelete \/ EndFence
  \/ \E e \in Entity : DeleteElsewhere(e) \/ Create(e)
  \/ Tick

Spec == Init /\ [][Next]_vars

-----------------------------------------------------------------------------

\* The types of the state; the limits of the registry are among them.
TypeOK ==
  /\ now \in 0 .. MaxTime
  /\ life \in [Entity -> Life]
  /\ mu \in {"free", "fence", "committed"}
  /\ deleting \subseteq Entity
  /\ epoch \in 0 .. MaxFences
  /\ issued \in 0 .. MaxIssued
  /\ Tokens \subseteq 0 .. issued - 1
  /\ \A k \in Tokens : grants[k] \in Grant
  /\ Cardinality(Tokens) <= MaxTokens
  /\ \A a \in Actor : Cardinality({k \in Tokens : grants[k].actor = a}) <= MaxPerActor

\* The incarnation still stands, as far as this process can know.
Stands(e, inc) == e \notin Elsewhere => life[e].stored /\ life[e].inc = inc

\* beginPermanentDeleteFence, createPreviewToken: once a deletion's fence is
\* released no token names what it deleted, also none that was being minted
\* when the deletion was committed.
GrantsOfTheLiving ==
  mu = "free" =>
    \A k \in Tokens : /\ Stands(grants[k].target, grants[k].targetInc)
                      /\ Stands(grants[k].actor, grants[k].actorInc)

\* AuthIdentity.PreviewEpoch: a token minted over HTTP belongs to the account
\* that authenticated, not to a later one of the same ID, as far as this process
\* can know.
GrantsOfTheAuthenticated ==
  \A k \in Tokens :
    grants[k].http /\ grants[k].actor \notin Elsewhere => grants[k].actorInc = grants[k].authInc

\* FindCollectionPreview: a preview shows the document its token was minted
\* for, read as the account it was minted for, never a successor of either.
AnswersAreOfTheGrant ==
  \A r \in Request : At(r, "answered") =>
    /\ req[r].targetInc = req[r].grant.targetInc
    /\ req[r].actorInc = req[r].grant.actorInc

\* revalidatePreviewGrant: no read is answered after the deletion of its
\* document or account took effect, however long ago it was started.
NoAnswerAfterDelete ==
  [][\A r \in Request :
       At(r, "revalidate") /\ req'[r].pc = "answered" =>
         /\ Stands(req[r].grant.target, req[r].targetInc)
         /\ Stands(req[r].grant.actor, req[r].actorInc)]_vars

=============================================================================
