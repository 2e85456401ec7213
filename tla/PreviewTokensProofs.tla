------------------------- MODULE PreviewTokensProofs -------------------------
(* Theorems about PreviewTokens, for every set of documents, accounts and     *)
(* requests and every value of the limits.                                    *)
EXTENDS PreviewTokens, FiniteSetTheorems, TLAPS

-----------------------------------------------------------------------------
(* What a call holds in each of its phases.                                  *)

Incs == 1 .. MaxLives
Times == 0 .. MaxTime

AuthReq == [pc : {"authenticate"}, identityEpoch : Nat]
MintReq == [pc : {"mint"}, identityEpoch : Nat, http : BOOLEAN, target : Target, actor : Actor, authInc : Incs]
ResolveReq == [pc : {"resolve"}, start : Nat, http : BOOLEAN, target : Target, actor : Actor, authInc : Incs]
TargetReq == [pc : {"target"}, start : Nat, http : BOOLEAN, target : Target, actor : Actor, authInc : Incs,
              actorInc : Incs, actorCreated : Times]
StoreReq == [pc : {"store"}, start : Nat, time : Times, grant : Grant]
ActorReq == [pc : {"actor"}, token : Nat, grant : Grant]
FindReq == [pc : {"find"}, token : Nat, grant : Grant, actorInc : Incs]
ReadReq == [pc : {"recheck", "revalidate", "answered"}, token : Nat, grant : Grant, actorInc : Incs, targetInc : Incs]

Reading == {"actor", "find", "recheck", "revalidate", "answered"}

ReqTyped(q) ==
  /\ q.pc = "authenticate" => q \in AuthReq
  /\ q.pc = "mint" => q \in MintReq
  /\ q.pc = "resolve" => q \in ResolveReq
  /\ q.pc = "target" => q \in TargetReq
  /\ q.pc = "store" => q \in StoreReq
  /\ q.pc = "actor" => q \in ActorReq
  /\ q.pc = "find" => q \in FindReq
  /\ q.pc \in {"recheck", "revalidate", "answered"} => q \in ReadReq

-----------------------------------------------------------------------------
(* What is known of the documents and accounts that a grant or a call names. *)

\* The fence of e's deletion is not released and e may be gone.
Doomed(e) == mu = "committed" /\ e \in deleting

\* An incarnation that was read is still there, unless e is doomed.
Standing(e, inc) == e \notin Elsewhere => Doomed(e) \/ (life[e].stored /\ life[e].inc = inc)

\* Of what another process may delete, the creation time tells the incarnation.
Recorded(e, inc, created) ==
  e \in Elsewhere => created <= life[e].created /\ (created = life[e].created => inc = life[e].inc)

GrantRecorded(g) ==
  Recorded(g.target, g.targetInc, g.targetCreated) /\ Recorded(g.actor, g.actorInc, g.actorCreated)

GrantStanding(g) == Standing(g.target, g.targetInc) /\ Standing(g.actor, g.actorInc)

\* The grants of the registry.
TokenInv ==
  \A k \in Tokens : GrantRecorded(grants[k]) /\ GrantStanding(grants[k])

\* A call that mints, as long as no fence was released since it started.
MintInv(q) ==
  /\ q.pc = "authenticate" => q.identityEpoch <= epoch + 1 /\ q.identityEpoch # 0
  /\ q.pc = "mint" =>
       /\ q.identityEpoch <= epoch + 1
       /\ q.http => q.identityEpoch # 0 /\ (q.identityEpoch = epoch + 1 => Standing(q.actor, q.authInc))
  /\ q.pc \in {"resolve", "target"} =>
       q.start <= epoch + 1 /\ (q.http /\ q.start = epoch + 1 => Standing(q.actor, q.authInc))
  /\ q.pc = "target" =>
       /\ q.start = epoch + 1 => Standing(q.actor, q.actorInc)
       /\ Recorded(q.actor, q.actorInc, q.actorCreated)
  /\ q.pc = "store" =>
       /\ q.start <= epoch + 1
       /\ q.start = epoch + 1 => GrantStanding(q.grant)
       /\ q.start = epoch + 1 /\ q.grant.http => Standing(q.grant.actor, q.grant.authInc)
       /\ GrantRecorded(q.grant)

\* What was read of e is what the token was minted for, unless the token is gone
\* or will be.
Agreed(k, e, read, inc) == k \in Tokens => Doomed(e) \/ read = inc

\* A call that reads.
ReadInv(q) ==
  /\ q.pc \in Reading =>
       /\ GrantRecorded(q.grant)
       /\ q.token < issued
       /\ q.token \in Tokens => grants[q.token] = q.grant
  /\ q.pc \in {"find", "recheck", "revalidate"} => Agreed(q.token, q.grant.actor, q.actorInc, q.grant.actorInc)
  /\ q.pc \in {"recheck", "revalidate"} => Agreed(q.token, q.grant.target, q.targetInc, q.grant.targetInc)
  /\ q.pc = "answered" => q.targetInc = q.grant.targetInc /\ q.actorInc = q.grant.actorInc

ReqInv(q) == ReqTyped(q) /\ MintInv(q) /\ ReadInv(q)

Requests == req = [r \in Request |-> req[r]] /\ \A r \in Request : ReqInv(req[r])

\* A fence is begun below the bound on epochs.
FenceInv == mu # "free" => epoch < MaxFences

Inv == TypeOK /\ FenceInv /\ TokenInv /\ GrantsOfTheAuthenticated /\ Requests

-----------------------------------------------------------------------------
(* Deletions, creations and the clock.                                       *)

\* The steps that are not a call's.
World ==
  \/ \E S \in SUBSET Entity \ {{}} : BeginFence(S)
  \/ CommitDelete \/ EndFence
  \/ \E e \in Entity : DeleteElsewhere(e) \/ Create(e)
  \/ Tick

\* The fields of a life.
LEMMA LifeFields ==
  ASSUME TypeOK, NEW e \in Entity
  PROVE  life[e] \in Life /\ life[e].inc \in Incs /\ life[e].created \in Times /\ life[e].created \in Nat
BY PreviewAssumption DEF TypeOK, Life, Incs, Times

\* A step leaves an incarnation standing unless it releases its fence.
LEMMA StandingStays ==
  ASSUME TypeOK, World \/ UNCHANGED <<life, mu, deleting>>,
         NEW e \in Entity, NEW inc \in Incs, Standing(e, inc),
         mu # "committed" \/ mu' = "committed" \/ e \notin deleting
  PROVE  Standing(e, inc)'
<1> USE DEF Standing, Doomed
<1>1. life \in [Entity -> Life]
  BY DEF TypeOK
<1>2. CASE UNCHANGED <<life, mu, deleting>> \/ Tick
  BY <1>2 DEF Tick, registry
<1>3. CASE \E S \in SUBSET Entity \ {{}} : BeginFence(S)
  BY <1>3 DEF BeginFence
<1>4. CASE CommitDelete
  BY <1>1, <1>4 DEF CommitDelete
<1>5. CASE EndFence
  BY <1>5 DEF EndFence
<1>6. ASSUME NEW d \in Entity, DeleteElsewhere(d) PROVE Standing(e, inc)'
  BY <1>1, <1>6 DEF DeleteElsewhere, registry
<1>7. ASSUME NEW d \in Entity, Create(d) PROVE Standing(e, inc)'
  BY <1>1, <1>7 DEF Create, registry
<1>8. QED
  BY <1>2, <1>3, <1>4, <1>5, <1>6, <1>7 DEF World

\* Creation times of what another process may delete grow with the incarnation.
LEMMA RecordedStays ==
  ASSUME TypeOK, World \/ UNCHANGED life,
         NEW e \in Entity, NEW inc \in Incs, NEW created \in Times, Recorded(e, inc, created)
  PROVE  Recorded(e, inc, created)'
<1> USE DEF Recorded
<1>1. life \in [Entity -> Life] /\ life[e].created \in Nat /\ now \in Nat /\ created \in Nat
  BY LifeFields DEF TypeOK, Times
<1>2. CASE UNCHANGED life
  BY <1>2
<1>3. CASE CommitDelete
  <2>1. life'[e].inc = life[e].inc /\ life'[e].created = life[e].created
    BY <1>1, <1>3 DEF CommitDelete, Life
  <2>2. QED
    BY <2>1
<1>4. ASSUME NEW d \in Entity, DeleteElsewhere(d) PROVE Recorded(e, inc, created)'
  <2>1. life'[e].inc = life[e].inc /\ life'[e].created = life[e].created
    BY <1>1, <1>4 DEF DeleteElsewhere, Life
  <2>2. QED
    BY <2>1
<1>5. ASSUME NEW d \in Entity, Create(d) PROVE Recorded(e, inc, created)'
  <2>1. CASE d = e
    BY <1>1, <1>5, <2>1 DEF Create
  <2>2. CASE d # e
    BY <1>1, <1>5, <2>2 DEF Create
  <2>3. QED
    BY <2>1, <2>2
<1>6. CASE World
  BY <1>2, <1>3, <1>4, <1>5, <1>6 DEF World, BeginFence, EndFence, Tick
<1>7. QED
  BY <1>2, <1>6

\* A fence is released by its end alone, which starts another epoch.
LEMMA FenceOrEpoch ==
  ASSUME TypeOK, World \/ UNCHANGED <<mu, deleting, epoch>>
  PROVE  /\ epoch' = epoch => \A e : Doomed(e) => Doomed(e)'
         /\ epoch' = epoch => (mu # "committed" \/ mu' = "committed")
         /\ epoch \in Nat /\ epoch' \in Nat /\ epoch <= epoch'
<1>1. epoch \in Nat
  BY PreviewAssumption DEF TypeOK
<1>2. CASE UNCHANGED <<mu, deleting, epoch>> \/ Tick
  BY <1>1, <1>2 DEF Tick, registry, Doomed
<1>3. CASE \E S \in SUBSET Entity \ {{}} : BeginFence(S)
  BY <1>1, <1>3 DEF BeginFence, Doomed
<1>4. CASE CommitDelete
  BY <1>1, <1>4 DEF CommitDelete, Doomed
<1>5. CASE EndFence
  BY <1>1, <1>5 DEF EndFence
<1>6. CASE \E e \in Entity : DeleteElsewhere(e) \/ Create(e)
  BY <1>1, <1>6 DEF DeleteElsewhere, Create, registry, Doomed
<1>7. QED
  BY <1>2, <1>3, <1>4, <1>5, <1>6 DEF World

\* Fields of a grant.
LEMMA GrantFields ==
  ASSUME NEW g \in Grant
  PROVE  /\ g.target \in Entity /\ g.actor \in Entity /\ g.target \in Target /\ g.actor \in Actor
         /\ g.targetInc \in Incs /\ g.actorInc \in Incs /\ g.authInc \in Incs
         /\ g.targetCreated \in Times /\ g.actorCreated \in Times
         /\ g.http \in BOOLEAN
BY DEF Grant, Entity, Incs, Times

\* Grants stay recorded, and standing unless the fence of what they name is
\* released.
LEMMA GrantStays ==
  ASSUME TypeOK, World \/ UNCHANGED <<life, mu, deleting>>, NEW g \in Grant
  PROVE  /\ GrantRecorded(g) => GrantRecorded(g)'
         /\ GrantStanding(g) /\ (mu # "committed" \/ mu' = "committed" \/ Named(g) \cap deleting = {})
              => GrantStanding(g)'
<1>1. GrantRecorded(g) => GrantRecorded(g)'
  BY GrantFields, RecordedStays DEF GrantRecorded
<1>2. GrantStanding(g) /\ (mu # "committed" \/ mu' = "committed" \/ Named(g) \cap deleting = {})
        => GrantStanding(g)'
  BY GrantFields, StandingStays DEF GrantStanding, Named
<1>3. QED
  BY <1>1, <1>2

-----------------------------------------------------------------------------
(* Calls.                                                                    *)

\* The registry moves by new tokens and by lost ones.
RegistryMoves ==
  /\ issued' \in Nat /\ issued <= issued'
  /\ \A k \in Tokens' : k < issued => k \in Tokens /\ grants'[k] = grants[k]
  /\ mu = "committed" /\ mu' # "committed" =>
       /\ epoch' # epoch
       /\ \A k \in Tokens' : Named(grants[k]) \cap deleting = {}

\* A call that does nothing keeps what holds of it, whatever else happens.
LEMMA ReqStays ==
  ASSUME TypeOK, World \/ UNCHANGED <<life, mu, deleting, epoch>>, RegistryMoves,
         NEW q, ReqInv(q)
  PROVE  ReqInv(q)'
<1>1. /\ epoch \in Nat /\ epoch' \in Nat /\ epoch <= epoch'
      /\ epoch' = epoch => mu # "committed" \/ mu' = "committed"
      /\ epoch' = epoch => \A e : Doomed(e) => Doomed(e)'
  BY FenceOrEpoch
<1>2. ReqTyped(q) /\ MintInv(q) /\ ReadInv(q)
  BY DEF ReqInv
<1>3. MintInv(q)'
  <2>1. CASE q.pc = "authenticate"
    <3>1. q.identityEpoch \in Nat
      BY <1>2, <2>1 DEF ReqTyped, AuthReq
    <3>2. QED
      BY <1>1, <1>2, <2>1, <3>1 DEF MintInv
  <2>2. CASE q.pc = "mint"
    <3>1. q.identityEpoch \in Nat /\ q.actor \in Entity /\ q.authInc \in Incs
      BY <1>2, <2>2 DEF ReqTyped, MintReq, Entity
    <3>2. epoch' = epoch /\ Standing(q.actor, q.authInc) => Standing(q.actor, q.authInc)'
      BY <1>1, <3>1, StandingStays
    <3>3. QED
      BY <1>1, <1>2, <2>2, <3>1, <3>2 DEF MintInv
  <2>3. CASE q.pc = "resolve"
    <3>1. q.start \in Nat /\ q.actor \in Entity /\ q.authInc \in Incs
      BY <1>2, <2>3 DEF ReqTyped, ResolveReq, Entity
    <3>2. epoch' = epoch /\ Standing(q.actor, q.authInc) => Standing(q.actor, q.authInc)'
      BY <1>1, <3>1, StandingStays
    <3>3. QED
      BY <1>1, <1>2, <2>3, <3>1, <3>2 DEF MintInv
  <2>4. CASE q.pc = "target"
    <3>1. /\ q.start \in Nat /\ q.actor \in Entity /\ q.authInc \in Incs
          /\ q.actorInc \in Incs /\ q.actorCreated \in Times
      BY <1>2, <2>4 DEF ReqTyped, TargetReq, Entity
    <3>2. epoch' = epoch => /\ Standing(q.actor, q.authInc) => Standing(q.actor, q.authInc)'
                            /\ Standing(q.actor, q.actorInc) => Standing(q.actor, q.actorInc)'
      BY <1>1, <3>1, StandingStays
    <3>3. Recorded(q.actor, q.actorInc, q.actorCreated) => Recorded(q.actor, q.actorInc, q.actorCreated)'
      BY <3>1, RecordedStays
    <3>4. QED
      BY <1>1, <1>2, <2>4, <3>1, <3>2, <3>3 DEF MintInv
  <2>5. CASE q.pc = "store"
    <3>1. q.start \in Nat /\ q.grant \in Grant
      BY <1>2, <2>5 DEF ReqTyped, StoreReq
    <3>2. /\ GrantRecorded(q.grant) => GrantRecorded(q.grant)'
          /\ epoch' = epoch /\ GrantStanding(q.grant) => GrantStanding(q.grant)'
      BY <1>1, <3>1, GrantStays
    <3>3. epoch' = epoch /\ Standing(q.grant.actor, q.grant.authInc) => Standing(q.grant.actor, q.grant.authInc)'
      BY <1>1, <3>1, GrantFields, StandingStays
    <3>4. QED
      BY <1>1, <1>2, <2>5, <3>1, <3>2, <3>3 DEF MintInv
  <2>6. CASE q.pc \notin {"authenticate", "mint", "resolve", "target", "store"}
    BY <2>6 DEF MintInv
  <2>7. QED
    BY <2>1, <2>2, <2>3, <2>4, <2>5, <2>6
<1>4. ReadInv(q)'
  <2>1. CASE q.pc \in Reading
    <3> DEFINE g == q.grant
               k == q.token
    <3>2. g \in Grant /\ k \in Nat
      BY <1>2, <2>1 DEF ReqTyped, Reading, ActorReq, FindReq, ReadReq
    <3>3. GrantRecorded(g)' /\ k < issued /\ k < issued'
      <4>1. GrantRecorded(g) /\ k < issued /\ issued \in Int
        BY <1>2, <2>1, PreviewAssumption DEF ReadInv, TypeOK
      <4>2. k < issued'
        BY <3>2, <4>1 DEF RegistryMoves
      <4>3. QED
        BY <3>2, <4>1, <4>2, GrantStays
    <3>4. k \in Tokens' => k \in Tokens /\ grants'[k] = grants[k] /\ grants[k] = g
      BY <1>2, <2>1, <3>3 DEF RegistryMoves, ReadInv
    <3>5. ASSUME NEW e \in {g.target, g.actor}, NEW read, NEW inc, Agreed(k, e, read, inc)
          PROVE  Agreed(k, e, read, inc)'
      <4>1. CASE mu = "committed" /\ mu' # "committed"
        BY <3>4, <3>5, <4>1 DEF RegistryMoves, Agreed, Named, Doomed
      <4>2. CASE ~(mu = "committed" /\ mu' # "committed")
        <5>1. Doomed(e) => Doomed(e)'
          BY <4>2 DEF World, Doomed, BeginFence, CommitDelete, EndFence, DeleteElsewhere, Create, Tick, registry
        <5>2. QED
          BY <3>4, <3>5, <5>1 DEF Agreed
      <4>3. QED
        BY <4>1, <4>2
    <3> HIDE DEF g, k
    <3>6. QED
      BY <1>2, <2>1, <3>3, <3>4, <3>5 DEF ReadInv, g, k
  <2>2. CASE q.pc \notin Reading
    BY <2>2 DEF ReadInv, Reading
  <2>3. QED
    BY <2>1, <2>2
<1>5. QED
  BY <1>2, <1>3, <1>4 DEF ReqInv, ReqTyped

\* A call that mints goes on with what it has just read, or stops.
LEMMA MintGoesOn ==
  ASSUME TypeOK, NEW r \in Request, DOMAIN req = Request, ReqInv(req[r]),
         \/ CaptureEpoch(r) \/ StartMint(r) \/ ResolveIdentity(r) \/ FindTarget(r)
         \/ \E a \in Actor : Authenticate(r, a) \/ CallDirectly(r, a)
  PROVE  /\ UNCHANGED <<now, life, registry>>
         /\ \E q : ReqInv(q) /\ req' = [req EXCEPT ![r] = q]
<1> DEFINE Goal == /\ UNCHANGED <<now, life, registry>>
                   /\ \E q : ReqInv(q) /\ req' = [req EXCEPT ![r] = q]
           old == req[r]
<1>1. ReqInv(Idle)
  BY DEF ReqInv, ReqTyped, MintInv, ReadInv, Reading, Idle
<1>2. /\ epoch \in Nat /\ now \in Times /\ MaxTime \in Nat /\ Duration \in Nat
      /\ \A e \in Entity : life[e].inc \in Incs /\ life[e].created \in Times /\ life[e].created \in Nat
  BY LifeFields, PreviewAssumption DEF TypeOK, Times
<1>3. ReqTyped(old) /\ MintInv(old)
  BY DEF ReqInv
<1>4. ASSUME Leave(r), UNCHANGED <<now, life, registry>> PROVE Goal
  BY <1>1, <1>4 DEF Leave
<1>5. CASE CaptureEpoch(r)
  <2> DEFINE q == [pc |-> "authenticate", identityEpoch |-> epoch + 1]
  <2>1. ReqInv(q)
    BY <1>2 DEF ReqInv, ReqTyped, MintInv, ReadInv, Reading, AuthReq
  <2>2. QED
    BY <1>5, <2>1 DEF CaptureEpoch
<1>6. ASSUME NEW a \in Actor, Authenticate(r, a) PROVE Goal
  <2>1. CASE life[a].stored
    <3>1. PICK d \in Target :
            req' = [req EXCEPT ![r] = [pc |-> "mint", identityEpoch |-> old.identityEpoch,
                                       http |-> TRUE, target |-> d, actor |-> a, authInc |-> life[a].inc]]
      BY <1>6, <2>1 DEF Authenticate
    <3> DEFINE q == [pc |-> "mint", identityEpoch |-> old.identityEpoch,
                     http |-> TRUE, target |-> d, actor |-> a, authInc |-> life[a].inc]
    <3>2. old.identityEpoch \in Nat /\ old.identityEpoch <= epoch + 1 /\ old.identityEpoch # 0
      BY <1>3, <1>6 DEF Authenticate, At, ReqTyped, AuthReq, MintInv
    <3>3. Standing(a, life[a].inc) /\ life[a].inc \in Incs
      BY <1>2, <2>1 DEF Standing, Entity
    <3>4. q \in MintReq
      BY <3>2, <3>3 DEF MintReq
    <3>5. ReqInv(q)
      BY <3>2, <3>3, <3>4 DEF ReqInv, ReqTyped, MintInv, ReadInv, Reading
    <3>6. QED
      BY <1>6, <3>1, <3>5 DEF Authenticate
  <2>2. CASE ~life[a].stored
    BY <1>4, <1>6, <2>2 DEF Authenticate
  <2>3. QED
    BY <2>1, <2>2
<1>7. ASSUME NEW a \in Actor, CallDirectly(r, a) PROVE Goal
  <2>1. PICK d \in Target :
          req' = [req EXCEPT ![r] = [pc |-> "mint", identityEpoch |-> 0,
                                     http |-> FALSE, target |-> d, actor |-> a, authInc |-> life[a].inc]]
    BY <1>7 DEF CallDirectly
  <2> DEFINE q == [pc |-> "mint", identityEpoch |-> 0,
                   http |-> FALSE, target |-> d, actor |-> a, authInc |-> life[a].inc]
  <2>2. q \in MintReq
    BY <1>2 DEF MintReq, Entity
  <2>3. ReqInv(q)
    BY <1>2, <2>2 DEF ReqInv, ReqTyped, MintInv, ReadInv, Reading
  <2>4. QED
    BY <1>7, <2>1, <2>3 DEF CallDirectly
<1>8. CASE StartMint(r)
  <2>1. CASE old.identityEpoch \in {0, epoch + 1}
    <3> DEFINE q == [pc |-> "resolve", start |-> epoch + 1, http |-> old.http,
                     target |-> old.target, actor |-> old.actor, authInc |-> old.authInc]
    <3>1. old \in MintReq /\ (old.http => old.identityEpoch # 0 /\ (old.identityEpoch = epoch + 1 => Standing(old.actor, old.authInc)))
      BY <1>3, <1>8 DEF StartMint, At, ReqTyped, MintInv
    <3>2. q \in ResolveReq
      BY <1>2, <3>1 DEF MintReq, ResolveReq
    <3>3. old.http => Standing(old.actor, old.authInc)
      BY <2>1, <3>1
    <3>4. ReqInv(q)
      BY <1>2, <3>2, <3>3 DEF ReqInv, ReqTyped, MintInv, ReadInv, Reading
    <3>5. QED
      BY <1>8, <2>1, <3>4 DEF StartMint
  <2>2. CASE old.identityEpoch \notin {0, epoch + 1}
    BY <1>4, <1>8, <2>2 DEF StartMint
  <2>3. QED
    BY <2>1, <2>2
<1>9. CASE ResolveIdentity(r)
  <2> DEFINE a == life[old.actor]
  <2>1. CASE a.stored
    <3> DEFINE q == [pc |-> "target", start |-> old.start, http |-> old.http,
                     target |-> old.target, actor |-> old.actor, authInc |-> old.authInc,
                     actorInc |-> a.inc, actorCreated |-> a.created]
    <3>1. /\ old \in ResolveReq /\ old.start <= epoch + 1
          /\ old.http /\ old.start = epoch + 1 => Standing(old.actor, old.authInc)
      BY <1>3, <1>9 DEF ResolveIdentity, At, ReqTyped, MintInv
    <3>2. old.actor \in Entity /\ a.inc \in Incs /\ a.created \in Times /\ a.created \in Nat
      BY <1>2, <3>1 DEF ResolveReq, Entity
    <3>3. q \in TargetReq
      BY <3>1, <3>2 DEF ResolveReq, TargetReq
    <3>4. Standing(old.actor, a.inc) /\ Recorded(old.actor, a.inc, a.created)
      BY <2>1, <3>2 DEF Standing, Recorded
    <3> HIDE DEF a
    <3>5. ReqInv(q)
      BY <3>1, <3>3, <3>4 DEF ReqInv, ReqTyped, MintInv, ReadInv, Reading
    <3>6. QED
      BY <1>9, <2>1, <3>5 DEF ResolveIdentity, a
  <2>2. CASE ~a.stored
    BY <1>4, <1>9, <2>2 DEF ResolveIdentity
  <2>3. QED
    BY <2>1, <2>2
<1>10. CASE FindTarget(r)
  <2> DEFINE d == life[old.target]
             g == [target |-> old.target, targetCreated |-> d.created, targetInc |-> d.inc,
                   actor |-> old.actor, actorCreated |-> old.actorCreated, actorInc |-> old.actorInc,
                   http |-> old.http, authInc |-> old.authInc, expires |-> now + Duration]
             q == [pc |-> "store", start |-> old.start, time |-> now, grant |-> g]
  <2>1. CASE d.stored /\ req' = [req EXCEPT ![r] = q]
    <3>1. /\ old \in TargetReq /\ old.start <= epoch + 1
          /\ old.http /\ old.start = epoch + 1 => Standing(old.actor, old.authInc)
          /\ old.start = epoch + 1 => Standing(old.actor, old.actorInc)
          /\ Recorded(old.actor, old.actorInc, old.actorCreated)
      BY <1>3, <1>10 DEF FindTarget, At, ReqTyped, MintInv
    <3>2. old.target \in Entity /\ d.inc \in Incs /\ d.created \in Times /\ d.created \in Nat
      BY <1>2, <3>1 DEF TargetReq, Entity
    <3>3. g \in Grant
      <4>1. now + Duration \in 0 .. MaxTime + Duration
        BY <1>2 DEF Times
      <4>2. QED
        BY <3>1, <3>2, <4>1 DEF TargetReq, Grant, Incs, Times
    <3>4. q \in StoreReq
      BY <1>2, <3>1, <3>3 DEF TargetReq, StoreReq
    <3>5. Standing(old.target, d.inc) /\ Recorded(old.target, d.inc, d.created)
      BY <2>1, <3>2 DEF Standing, Recorded
    <3>6. GrantRecorded(g) /\ (old.start = epoch + 1 => GrantStanding(g))
      BY <3>1, <3>5 DEF GrantRecorded, GrantStanding
    <3>7. g.http = old.http /\ g.actor = old.actor /\ g.authInc = old.authInc
      BY Zenon
    <3> HIDE DEF g
    <3>8. ReqInv(q)
      BY <3>1, <3>4, <3>6, <3>7 DEF ReqInv, ReqTyped, MintInv, ReadInv, Reading
    <3>9. QED
      BY <1>10, <2>1, <3>8 DEF FindTarget
  <2>2. CASE Leave(r)
    BY <1>4, <1>10, <2>2 DEF FindTarget
  <2>3. QED
    BY <1>10, <2>1, <2>2 DEF FindTarget
<1>11. QED
  BY <1>5, <1>6, <1>7, <1>8, <1>9, <1>10

\* The registry loses tokens, and no call of it is under way in this step.
Shrinks == UNCHANGED issued /\ Tokens' \subseteq Tokens /\ \A k \in Tokens' : grants'[k] = grants[k]

\* The tokens that are kept keep their grants.
LEMMA KeptTokens ==
  ASSUME NEW K \in SUBSET Tokens, grants' = Kept(K), UNCHANGED issued
  PROVE  Shrinks /\ Tokens' = K
BY DEF Kept, Tokens, Shrinks

\* What is read of something that a standing grant names agrees with the grant.
LEMMA ReadAgrees ==
  ASSUME NEW e \in Entity, NEW inc \in Incs, NEW created \in Times, life[e].stored,
         Recorded(e, inc, created), created = life[e].created, NEW k,
         k \in Tokens => Standing(e, inc)
  PROVE  Agreed(k, e, life[e].inc, inc)
BY DEF Recorded, Standing, Agreed

\* A call that reads goes on with what it has just read, or stops.
LEMMA ReadGoesOn ==
  ASSUME TypeOK, TokenInv, NEW r \in Request, req = [x \in Request |-> req[x]], ReqInv(req[r]), Read(r)
  PROVE  /\ UNCHANGED <<now, life, mu, deleting, epoch, issued>> /\ Shrinks
         /\ \E q : ReqInv(q) /\ req' = [req EXCEPT ![r] = q]
<1> DEFINE Goal == /\ UNCHANGED <<now, life, mu, deleting, epoch, issued>> /\ Shrinks
                   /\ \E q : ReqInv(q) /\ req' = [req EXCEPT ![r] = q]
           old == req[r]
<1>1. ReqInv(Idle)
  BY DEF ReqInv, ReqTyped, MintInv, ReadInv, Reading, Idle
<1>2. UNCHANGED <<grants, issued>> => Shrinks
  BY DEF Shrinks, Tokens
<1>3. ReqTyped(old) /\ ReadInv(old)
  BY DEF ReqInv
<1>4. ASSUME NEW g \in Grant
      PROVE  /\ g.target \in Entity /\ g.actor \in Entity
             /\ g.targetInc \in Incs /\ g.actorInc \in Incs
             /\ g.targetCreated \in Times /\ g.actorCreated \in Times
             /\ life[g.target].inc \in Incs /\ life[g.actor].inc \in Incs
  BY GrantFields, LifeFields
<1>5. ASSUME NEW k \in 0 .. MaxIssued - 1, LookUp(r, k) PROVE Goal
  <2>1. CASE Live(grants[k], now)
    <3> DEFINE q == [pc |-> "actor", token |-> k, grant |-> grants[k]]
    <3>1. k \in Tokens /\ req' = [req EXCEPT ![r] = q] /\ UNCHANGED <<grants, issued>>
      BY <1>5, <2>1 DEF LookUp
    <3>2. k \in Nat /\ k < issued /\ grants[k] \in Grant /\ GrantRecorded(grants[k])
      BY <3>1, PreviewAssumption DEF TypeOK, TokenInv
    <3>3. ReqInv(q)
      BY <3>2 DEF ReqInv, ReqTyped, MintInv, ReadInv, Reading, ActorReq
    <3>4. QED
      BY <1>2, <1>5, <3>1, <3>3 DEF LookUp
  <2>2. CASE ~Live(grants[k], now)
    <3>1. grants' = Kept(Tokens \ {k}) /\ req' = req
      BY <1>5, <2>2 DEF LookUp, Without
    <3>2. Shrinks
      BY <1>5, <3>1, KeptTokens DEF LookUp
    <3>3. req' = [req EXCEPT ![r] = old]
      BY <3>1
    <3>4. QED
      BY <1>5, <3>2, <3>3 DEF LookUp
  <2>3. QED
    BY <2>1, <2>2
<1>6. CASE LoadActor(r)
  <2> DEFINE g == old.grant
             q == [pc |-> "find", token |-> old.token, grant |-> g, actorInc |-> life[g.actor].inc]
  <2>1. /\ old \in ActorReq /\ g \in Grant /\ GrantRecorded(g) /\ old.token < issued
        /\ old.token \in Tokens => grants[old.token] = g
    BY <1>3, <1>6 DEF LoadActor, At, ReqTyped, ReadInv, Reading, ActorReq
  <2>2. life[g.actor].stored /\ life[g.actor].created = g.actorCreated
    BY <1>6 DEF LoadActor, SameActor
  <2>3. old.token \in Tokens => Standing(g.actor, g.actorInc)
    BY <2>1 DEF TokenInv, GrantStanding
  <2>4. Recorded(g.actor, g.actorInc, g.actorCreated)
    BY <2>1 DEF GrantRecorded
  <2>5. Agreed(old.token, g.actor, life[g.actor].inc, g.actorInc)
    BY <1>4, <2>1, <2>2, <2>3, <2>4, ReadAgrees
  <2>6. q \in FindReq
    BY <1>4, <2>1 DEF ActorReq, FindReq
  <2>7. ReqInv(q)
    BY <2>1, <2>5, <2>6 DEF ReqInv, ReqTyped, MintInv, ReadInv, Reading
  <2>8. req' = [req EXCEPT ![r] = q] /\ UNCHANGED <<now, life, registry>>
    BY <1>6 DEF LoadActor
  <2>9. QED
    BY <1>2, <2>7, <2>8 DEF registry
<1>7. CASE FindDocument(r)
  <2> DEFINE g == old.grant
             d == life[g.target]
             pc == IF d.created = g.targetCreated THEN "recheck" ELSE "revoke"
             q == [pc |-> pc, token |-> old.token, grant |-> g, actorInc |-> old.actorInc, targetInc |-> d.inc]
  <2>1. CASE d.stored /\ req' = [req EXCEPT ![r] = q]
    <3>1. /\ old \in FindReq /\ g \in Grant /\ GrantRecorded(g) /\ old.token < issued
          /\ old.token \in Tokens => grants[old.token] = g
          /\ Agreed(old.token, g.actor, old.actorInc, g.actorInc)
      BY <1>3, <1>7 DEF FindDocument, At, ReqTyped, ReadInv, Reading, FindReq
    <3>2. old.token \in Tokens => Standing(g.target, g.targetInc)
      BY <3>1 DEF TokenInv, GrantStanding
    <3>3. Recorded(g.target, g.targetInc, g.targetCreated)
      BY <3>1 DEF GrantRecorded
    <3>4. d.created = g.targetCreated => Agreed(old.token, g.target, d.inc, g.targetInc)
      BY <1>4, <2>1, <3>1, <3>2, <3>3, ReadAgrees
    <3>5. d.created = g.targetCreated => q \in ReadReq
      BY <1>4, <3>1 DEF FindReq, ReadReq
    <3> HIDE DEF d
    <3>6. CASE d.created = g.targetCreated
      <4>1. q.pc = "recheck" /\ q.token = old.token /\ q.grant = g /\ q.actorInc = old.actorInc /\ q.targetInc = d.inc
        BY <3>6
      <4> HIDE DEF q, g
      <4>2. ReqInv(q)
        BY <3>1, <3>4, <3>5, <3>6, <4>1 DEF ReqInv, ReqTyped, MintInv, ReadInv, Reading
      <4>3. QED
        BY <1>2, <1>7, <2>1, <4>2 DEF FindDocument, registry
    <3>7. CASE d.created # g.targetCreated
      <4>1. q.pc = "revoke"
        BY <3>7
      <4> HIDE DEF q
      <4>2. ReqInv(q)
        BY <4>1 DEF ReqInv, ReqTyped, MintInv, ReadInv, Reading
      <4>3. QED
        BY <1>2, <1>7, <2>1, <4>2 DEF FindDocument, registry
    <3>8. QED
      BY <3>6, <3>7
  <2>2. CASE Leave(r)
    BY <1>1, <1>2, <1>7, <2>2 DEF FindDocument, Leave, registry
  <2>3. QED
    BY <1>7, <2>1, <2>2 DEF FindDocument
<1>8. ASSUME NEW pc, \/ RecheckActor(r) /\ pc = "revalidate"
                     \/ ActorGone(r) /\ pc = "revoke"
      PROVE  Goal
  <2> DEFINE q == [old EXCEPT !.pc = pc]
  <2>1. req' = [req EXCEPT ![r] = q] /\ UNCHANGED <<now, life, registry>>
    BY <1>8 DEF RecheckActor, ActorGone
  <2>2. ReqInv(q)
    <3>1. CASE pc = "revalidate"
      <4>1. old \in ReadReq /\ old.pc = "recheck"
        BY <1>3, <1>8, <3>1 DEF RecheckActor, At, ReqTyped
      <4>2. /\ q \in ReadReq /\ q.pc = "revalidate" /\ q.token = old.token /\ q.grant = old.grant
            /\ q.actorInc = old.actorInc /\ q.targetInc = old.targetInc
        BY <3>1, <4>1 DEF ReadReq
      <4> HIDE DEF q
      <4>3. QED
        BY <1>3, <4>1, <4>2 DEF ReqInv, ReqTyped, MintInv, ReadInv, Reading
    <3>2. CASE pc = "revoke"
      <4>1. q.pc = "revoke"
        <5>1. old \in ActorReq \/ old \in ReadReq
          BY <1>3, <1>8, <3>2 DEF ActorGone, ReqTyped
        <5>2. QED
          BY <3>2, <5>1 DEF ActorReq, ReadReq
      <4> HIDE DEF q
      <4>2. QED
        BY <4>1 DEF ReqInv, ReqTyped, MintInv, ReadInv, Reading
    <3>3. QED
      BY <1>8, <3>1, <3>2
  <2> HIDE DEF q
  <2>3. QED
    BY <1>2, <2>1, <2>2 DEF registry
<1>9. CASE RevokeFound(r)
  <2>1. grants' = Kept(Tokens \ {old.token}) /\ Leave(r) /\ UNCHANGED <<now, life, mu, deleting, epoch, issued>>
    BY <1>9 DEF RevokeFound, Revoke, Without
  <2>2. QED
    BY <1>1, <2>1, KeptTokens DEF Leave
<1>10. CASE Answer(r)
  <2> DEFINE k == old.token
  <2>1. mu = "free" /\ old.pc = "revalidate" /\ UNCHANGED <<now, life, mu, deleting, epoch, issued>>
    BY <1>10 DEF Answer, At
  <2>2. CASE k \in Tokens /\ Live(grants[k], now) /\ grants[k] = old.grant
    <3> DEFINE q == [old EXCEPT !.pc = "answered"]
    <3>1. req' = [req EXCEPT ![r] = q] /\ UNCHANGED grants
      BY <1>10, <2>2 DEF Answer
    <3>2. /\ old \in ReadReq
          /\ old.actorInc = old.grant.actorInc /\ old.targetInc = old.grant.targetInc
      BY <1>3, <2>1, <2>2 DEF ReqTyped, ReadInv, Agreed, Doomed
    <3>3. /\ q \in ReadReq /\ q.pc = "answered" /\ q.token = old.token /\ q.grant = old.grant
          /\ q.actorInc = old.actorInc /\ q.targetInc = old.targetInc
      BY <3>2 DEF ReadReq
    <3> HIDE DEF q
    <3>4. ReqInv(q)
      BY <1>3, <2>1, <3>2, <3>3 DEF ReqInv, ReqTyped, MintInv, ReadInv, Reading
    <3>5. QED
      BY <1>2, <2>1, <3>1, <3>4
  <2>3. CASE ~(k \in Tokens /\ Live(grants[k], now) /\ grants[k] = old.grant)
    <3>1. Leave(r) /\ grants' = Kept({j \in Tokens : j = k => Live(grants[k], now)})
      BY <1>10, <2>3 DEF Answer
    <3>2. QED
      BY <1>1, <2>1, <3>1, KeptTokens DEF Leave
  <2>4. QED
    BY <2>2, <2>3
<1>11. CASE Done(r)
  BY <1>1, <1>2, <1>11 DEF Done, Leave, registry
<1>12. (RecheckActor(r) => Goal) /\ (ActorGone(r) => Goal)
  BY <1>8
<1>13. QED
  BY <1>5, <1>6, <1>7, <1>9, <1>10, <1>11, <1>12 DEF Read

-----------------------------------------------------------------------------
(* The registry and its limits.                                              *)

OfActor(K, a) == {k \in K : grants[k].actor = a}

\* What is kept of the registry is typed and within its limits.
RegistryTyped ==
  /\ issued \in 0 .. MaxIssued
  /\ Tokens \subseteq 0 .. issued - 1
  /\ \A k \in Tokens : grants[k] \in Grant
  /\ Cardinality(Tokens) <= MaxTokens
  /\ \A a \in Actor : Cardinality({k \in Tokens : grants[k].actor = a}) <= MaxPerActor

\* Tokens are numbers below the next one, so there are finitely many.
LEMMA FiniteTokens == TypeOK => IsFiniteSet(Tokens)
<1> SUFFICES ASSUME TypeOK PROVE IsFiniteSet(Tokens)
  OBVIOUS
<1>1. Tokens \subseteq 0 .. issued - 1 /\ issued - 1 \in Int
  BY PreviewAssumption DEF TypeOK
<1>2. IsFiniteSet(0 .. issued - 1)
  BY <1>1, FS_Interval
<1>3. QED
  BY <1>1, <1>2, FS_Subset

\* A registry that loses tokens stays within its limits.
LEMMA ShrunkRegistry ==
  ASSUME TypeOK, Shrinks
  PROVE  RegistryTyped'
<1>1. /\ issued' = issued /\ Tokens' \subseteq Tokens /\ \A k \in Tokens' : grants'[k] = grants[k]
  BY DEF Shrinks
<1>2. Cardinality(Tokens') <= Cardinality(Tokens) /\ Cardinality(Tokens') \in Nat /\ Cardinality(Tokens) \in Nat
  BY <1>1, FiniteTokens, FS_Subset, FS_CardinalityType
<1>3. ASSUME NEW a \in Actor
      PROVE  Cardinality({k \in Tokens' : grants'[k].actor = a}) <= MaxPerActor
  <2> DEFINE new == {k \in Tokens' : grants'[k].actor = a}
             old == {k \in Tokens : grants[k].actor = a}
  <2>1. new \subseteq old /\ old \subseteq Tokens
    BY <1>1
  <2>2. IsFiniteSet(old)
    BY <2>1, FiniteTokens, FS_Subset
  <2>3. Cardinality(new) <= Cardinality(old) /\ Cardinality(new) \in Nat /\ Cardinality(old) \in Nat
    BY <2>1, <2>2, FS_Subset, FS_CardinalityType
  <2>4. Cardinality(old) <= MaxPerActor /\ MaxPerActor \in Nat
    BY PreviewAssumption DEF TypeOK
  <2>5. QED
    BY <2>3, <2>4
<1>4. Cardinality(Tokens') <= MaxTokens
  BY <1>2, PreviewAssumption DEF TypeOK
<1>5. QED
  BY <1>1, <1>3, <1>4 DEF RegistryTyped, TypeOK

\* A grant that is stored is the one its call made, no fence was released since,
\* and the limits have room for it.
LEMMA StoreStep ==
  ASSUME TypeOK, NEW r \in Request, ReqInv(req[r]), StoreGrant(r)
  PROVE  /\ Leave(r) /\ UNCHANGED <<now, life, mu, deleting, epoch>> /\ mu = "free"
         /\ RegistryTyped'
         /\ \/ Shrinks
            \/ /\ issued' = issued + 1 /\ Tokens' \subseteq Tokens \cup {issued}
               /\ \A k \in Tokens' : k # issued => grants'[k] = grants[k]
               /\ grants'[issued] = req[r].grant /\ req[r].grant \in Grant
               /\ GrantRecorded(req[r].grant) /\ GrantStanding(req[r].grant)
               /\ req[r].grant.http => Standing(req[r].grant.actor, req[r].grant.authInc)
<1> DEFINE g == req[r].grant
           kept == {k \in Tokens : Live(grants[k], req[r].time)}
           mine == {k \in kept : grants[k].actor = g.actor}
<1>1. Leave(r) /\ UNCHANGED <<now, life, mu, deleting, epoch>> /\ mu = "free" /\ issued < MaxIssued
  BY DEF StoreGrant
<1>2. g \in Grant /\ MintInv(req[r]) /\ req[r].pc = "store"
  BY DEF StoreGrant, At, ReqInv, ReqTyped, StoreReq
<1>3. CASE epoch + 1 # req[r].start
  <2>1. UNCHANGED <<issued, grants>>
    BY <1>3 DEF StoreGrant
  <2>2. Shrinks
    BY <2>1 DEF Shrinks, Tokens
  <2>3. QED
    BY <1>1, <2>2, ShrunkRegistry
<1>4. CASE /\ epoch + 1 = req[r].start
           /\ ~(Cardinality(mine) < MaxPerActor /\ Cardinality(kept) < MaxTokens)
  <2>1. grants' = Kept(kept) /\ UNCHANGED issued
    BY <1>4 DEF StoreGrant
  <2>2. Shrinks
    BY <2>1, KeptTokens
  <2>3. QED
    BY <1>1, <2>2, ShrunkRegistry
<1>5. CASE /\ epoch + 1 = req[r].start
           /\ Cardinality(mine) < MaxPerActor /\ Cardinality(kept) < MaxTokens
  <2>1. /\ grants' = [k \in kept \cup {issued} |-> IF k = issued THEN g ELSE grants[k]]
        /\ issued' = issued + 1
    BY <1>5 DEF StoreGrant
  <2>2. Tokens' = kept \cup {issued}
    BY <2>1 DEF Tokens
  <2>3. grants'[issued] = g /\ \A k \in kept : k # issued => grants'[k] = grants[k]
    BY <2>1
  <2>4. /\ issued \in Nat /\ kept \subseteq 0 .. issued - 1 /\ issued \notin kept
        /\ issued' \in 0 .. MaxIssued /\ Tokens' \subseteq 0 .. issued' - 1
    <3>1. issued \in Nat /\ MaxIssued \in Nat
      BY PreviewAssumption DEF TypeOK
    <3>2. Tokens \subseteq 0 .. issued - 1 /\ kept \subseteq Tokens
      BY DEF TypeOK
    <3> HIDE DEF kept
    <3>3. kept \subseteq 0 .. issued - 1 /\ issued \notin kept
      BY <3>1, <3>2
    <3>4. QED
      BY <1>1, <2>1, <2>2, <3>1, <3>3
  <2>5. IsFiniteSet(kept)
    BY FiniteTokens, FS_Subset
  <2>6. Cardinality(Tokens') <= MaxTokens
    <3>1. Cardinality(Tokens') = Cardinality(kept) + 1 /\ Cardinality(kept) \in Nat
      BY <2>2, <2>4, <2>5, FS_AddElement, FS_CardinalityType
    <3>2. QED
      BY <1>5, <3>1, PreviewAssumption
  <2>7. ASSUME NEW a \in Actor PROVE Cardinality({k \in Tokens' : grants'[k].actor = a}) <= MaxPerActor
    <3> DEFINE new == {k \in Tokens' : grants'[k].actor = a}
               old == {k \in kept : grants[k].actor = a}
               all == {k \in Tokens : grants[k].actor = a}
    <3>1. new = IF a = g.actor THEN old \cup {issued} ELSE old
      BY <2>2, <2>3, <2>4
    <3>2. IsFiniteSet(old) /\ Cardinality(old) \in Nat /\ issued \notin old
      BY <2>4, <2>5, FS_Subset, FS_CardinalityType
    <3>3. CASE a = g.actor
      <4>1. new = old \cup {issued} /\ old = mine
        BY <3>1, <3>3
      <4>2. Cardinality(mine) < MaxPerActor /\ MaxPerActor \in Nat
        BY <1>5, PreviewAssumption
      <4> HIDE DEF new, old, mine
      <4>3. Cardinality(new) = Cardinality(old) + 1
        BY <3>2, <4>1, FS_AddElement
      <4>4. Cardinality(new) <= MaxPerActor
        BY <3>2, <4>1, <4>2, <4>3
      <4>5. QED
        BY <4>4 DEF new
    <3>4. CASE a # g.actor
      <4>1. new = old /\ old \subseteq all /\ all \subseteq Tokens
        BY <3>1, <3>4
      <4>2. IsFiniteSet(all) /\ Cardinality(all) \in Nat
        BY <4>1, FiniteTokens, FS_Subset, FS_CardinalityType
      <4>3. Cardinality(old) <= Cardinality(all)
        BY <4>1, <4>2, FS_Subset
      <4>4. Cardinality(all) <= MaxPerActor /\ MaxPerActor \in Nat
        BY PreviewAssumption DEF TypeOK
      <4> HIDE DEF new, old, all
      <4>5. Cardinality(new) <= MaxPerActor
        BY <3>2, <4>1, <4>2, <4>3, <4>4
      <4>6. QED
        BY <4>5 DEF new
    <3>5. QED
      BY <3>3, <3>4
  <2>8. \A k \in Tokens' : grants'[k] \in Grant
    BY <1>2, <2>2, <2>3, <2>4 DEF TypeOK
  <2>9. RegistryTyped'
    BY <2>4, <2>6, <2>7, <2>8 DEF RegistryTyped
  <2>10. GrantRecorded(g) /\ GrantStanding(g) /\ (g.http => Standing(g.actor, g.authInc))
    BY <1>2, <1>5 DEF MintInv
  <2>11. Tokens' \subseteq Tokens \cup {issued} /\ \A k \in Tokens' : k # issued => grants'[k] = grants[k]
    BY <2>2, <2>3
  <2>12. QED
    BY <1>1, <1>2, <2>1, <2>3, <2>9, <2>10, <2>11
<1>6. QED
  BY <1>3, <1>4, <1>5

\* The world keeps the types.
LEMMA WorldType ==
  ASSUME TypeOK, FenceInv, World
  PROVE  /\ FenceInv' /\ now' \in Times /\ life' \in [Entity -> Life]
         /\ mu' \in {"free", "fence", "committed"} /\ deleting' \subseteq Entity /\ epoch' \in 0 .. MaxFences
<1>1. /\ now \in Times /\ life \in [Entity -> Life] /\ mu \in {"free", "fence", "committed"}
      /\ deleting \subseteq Entity /\ epoch \in 0 .. MaxFences /\ MaxFences \in Nat
      /\ MaxTime \in Nat /\ MaxLives \in Nat
  BY PreviewAssumption DEF TypeOK, Times
<1> DEFINE Goal == /\ now' \in Times /\ life' \in [Entity -> Life]
                   /\ mu' \in {"free", "fence", "committed"} /\ deleting' \subseteq Entity /\ epoch' \in 0 .. MaxFences
<1>2. ASSUME \E S \in SUBSET Entity \ {{}} : BeginFence(S) PROVE Goal
  BY <1>1, <1>2 DEF BeginFence
<1>3. ASSUME CommitDelete PROVE Goal
  BY <1>1, <1>3 DEF CommitDelete, Life
<1>4. ASSUME NEW e \in Entity, DeleteElsewhere(e) PROVE life' \in [Entity -> Life]
  BY <1>1, <1>4 DEF DeleteElsewhere, Life
<1>5. ASSUME NEW e \in Entity, Create(e) PROVE life' \in [Entity -> Life]
  <2>1. [inc |-> life[e].inc + 1, stored |-> TRUE, created |-> now] \in Life
    BY <1>1, <1>5 DEF Create, Life, Times
  <2>2. life' = [life EXCEPT ![e] = [inc |-> life[e].inc + 1, stored |-> TRUE, created |-> now]]
    BY <1>5 DEF Create
  <2>3. QED
    BY <1>1, <2>1, <2>2
<1>6. ASSUME Tick PROVE Goal
  BY <1>1, <1>6 DEF Tick, registry, Times
<1>7. ASSUME EndFence PROVE Goal
  <2>1. mu = "committed" /\ epoch' = epoch + 1 /\ UNCHANGED <<now, life>> /\ mu' = "free" /\ deleting' = {}
    BY <1>7 DEF EndFence
  <2>2. QED
    BY <1>1, <2>1 DEF FenceInv
<1>8. FenceInv'
  BY DEF FenceInv, World, BeginFence, CommitDelete, EndFence, DeleteElsewhere, Create, Tick, registry
<1>9. QED
  BY <1>1, <1>2, <1>3, <1>4, <1>5, <1>6, <1>7, <1>8 DEF World, DeleteElsewhere, Create, registry

-----------------------------------------------------------------------------
(* The invariant.                                                            *)

\* A call changes no other call.
LEMMA OnlyCaller ==
  ASSUME req = [x \in Request |-> req[x]], NEW r \in Request, [Next]_vars, req'[r] # req[r]
  PROVE  Mint(r) \/ Read(r)
<1>1. ASSUME NEW x \in Request, Mint(x) \/ Read(x) PROVE \A y \in Request : y # x => req'[y] = req[y]
  BY <1>1 DEF Mint, Read, CaptureEpoch, StartMint, ResolveIdentity, FindTarget, StoreGrant,
     Authenticate, CallDirectly, LookUp, LoadActor, FindDocument, RecheckActor, ActorGone,
     RevokeFound, Revoke, Answer, Done, Leave
<1>2. QED
  BY <1>1 DEF Next, vars, RevokeOwn, BeginFence, CommitDelete, EndFence, DeleteElsewhere, Create, Tick

\* A call's step is one that mints, stores, reads or is of the world.
LEMMA StepKinds ==
  Next => \/ \E r \in Request :
               \/ CaptureEpoch(r) \/ StartMint(r) \/ ResolveIdentity(r) \/ FindTarget(r)
               \/ \E a \in Actor : Authenticate(r, a) \/ CallDirectly(r, a)
          \/ \E r \in Request : StoreGrant(r) \/ Read(r)
          \/ \E k \in 0 .. MaxIssued - 1 : RevokeOwn(k)
          \/ World
BY DEF Next, Mint, World

\* Calls: the one that makes the step holds what it read, the others what they
\* held.
LEMMA CallStep ==
  ASSUME Inv, NEW r \in Request, NEW q, req' = [req EXCEPT ![r] = q], ReqInv(q),
         UNCHANGED <<life, mu, deleting, epoch>>, RegistryMoves
  PROVE  Requests'
<1>1. TypeOK /\ req = [x \in Request |-> req[x]] /\ \A x \in Request : ReqInv(req[x])
  BY DEF Inv, Requests
<1>2. ReqInv(q)'
  BY <1>1, ReqStays
<1>3. ASSUME NEW x \in Request PROVE ReqInv(req[x])'
  <2>1. CASE x = r
    <3>1. req'[x] = q
      BY <1>1, <2>1
    <3>2. QED
      BY <1>2, <3>1 DEF ReqInv, ReqTyped, MintInv, ReadInv
  <2>2. CASE x # r
    <3>1. req'[x] = req[x]
      BY <1>1, <2>2
    <3>2. \A p : p = req[x] => ReqInv(p)'
      BY <1>1, ReqStays
    <3>3. QED
      BY <3>1, <3>2 DEF ReqInv, ReqTyped, MintInv, ReadInv
  <2>3. QED
    BY <2>1, <2>2
<1>4. req' = [x \in Request |-> req'[x]]
  BY <1>1
<1>5. QED
  BY <1>3, <1>4 DEF Requests

\* Calls that all hold what they held.
LEMMA CallsStay ==
  ASSUME Inv, UNCHANGED req, World \/ UNCHANGED <<life, mu, deleting, epoch>>, RegistryMoves
  PROVE  Requests'
<1>1. TypeOK /\ req = [x \in Request |-> req[x]] /\ \A x \in Request : ReqInv(req[x])
  BY DEF Inv, Requests
<1>2. ASSUME NEW x \in Request PROVE ReqInv(req[x])'
  <2>1. \A p : p = req[x] => ReqInv(p)'
    BY <1>1, ReqStays
  <2>2. QED
    BY <2>1 DEF ReqInv, ReqTyped, MintInv, ReadInv
<1>3. QED
  BY <1>1, <1>2 DEF Requests

\* Tokens that a registry keeps stay good while no fence is released.
LEMMA TokensStay ==
  ASSUME TypeOK, TokenInv, GrantsOfTheAuthenticated, World \/ UNCHANGED <<life, mu, deleting>>,
         NEW k \in Tokens, k \in Tokens', grants'[k] = grants[k],
         mu # "committed" \/ mu' = "committed" \/ Named(grants[k]) \cap deleting = {}
  PROVE  /\ GrantRecorded(grants[k])' /\ GrantStanding(grants[k])'
         /\ grants'[k].http /\ grants'[k].actor \notin Elsewhere => grants'[k].actorInc = grants'[k].authInc
<1> DEFINE g == grants[k]
<1>1. g \in Grant /\ GrantRecorded(g) /\ GrantStanding(g)
  BY DEF TypeOK, TokenInv
<1>2. GrantRecorded(grants[k])' /\ GrantStanding(grants[k])'
  <2>1. \A h \in Grant : /\ GrantRecorded(h) => GrantRecorded(h)'
                         /\ GrantStanding(h) /\ (mu # "committed" \/ mu' = "committed" \/ Named(h) \cap deleting = {})
                              => GrantStanding(h)'
    BY GrantStays
  <2>2. \A h : h = grants'[k] => GrantRecorded(h)' /\ GrantStanding(h)'
    BY <1>1, <2>1
  <2>3. QED
    BY <2>2 DEF GrantRecorded, GrantStanding
<1>3. QED
  BY <1>2 DEF GrantsOfTheAuthenticated

\* A registry that loses tokens, among them those that a released fence names.
LEMMA ShrinkStep ==
  ASSUME Inv, Shrinks, World \/ UNCHANGED <<life, mu, deleting>>,
         \A k \in Tokens' : mu # "committed" \/ mu' = "committed" \/ Named(grants[k]) \cap deleting = {}
  PROVE  TokenInv' /\ GrantsOfTheAuthenticated' /\ RegistryTyped'
<1>1. TypeOK /\ TokenInv /\ GrantsOfTheAuthenticated
  BY DEF Inv
<1>2. RegistryTyped'
  BY <1>1, ShrunkRegistry
<1>3. ASSUME NEW k \in Tokens'
      PROVE  /\ GrantRecorded(grants[k])' /\ GrantStanding(grants[k])'
             /\ grants'[k].http /\ grants'[k].actor \notin Elsewhere => grants'[k].actorInc = grants'[k].authInc
  <2>1. k \in Tokens /\ grants'[k] = grants[k]
    BY DEF Shrinks
  <2>2. QED
    BY <1>1, <2>1, TokensStay
<1>4. QED
  BY <1>2, <1>3 DEF TokenInv, GrantsOfTheAuthenticated

\* A grant that is stored beside those of the registry.
LEMMA GrowStep ==
  ASSUME Inv, UNCHANGED <<life, mu, deleting>>, mu = "free", NEW g \in Grant,
         Tokens' \subseteq Tokens \cup {issued},
         \A k \in Tokens' : k # issued => grants'[k] = grants[k],
         grants'[issued] = g,
         GrantRecorded(g), GrantStanding(g), g.http => Standing(g.actor, g.authInc)
  PROVE  TokenInv' /\ GrantsOfTheAuthenticated'
<1>1. TypeOK /\ TokenInv /\ GrantsOfTheAuthenticated
  BY DEF Inv
<1>2. ASSUME NEW k \in Tokens', k # issued
      PROVE  /\ GrantRecorded(grants[k])' /\ GrantStanding(grants[k])'
             /\ grants'[k].http /\ grants'[k].actor \notin Elsewhere => grants'[k].actorInc = grants'[k].authInc
  <2>1. k \in Tokens /\ grants'[k] = grants[k]
    BY <1>2
  <2>2. QED
    BY <1>1, <2>1, TokensStay
<1>3. ASSUME NEW k \in Tokens', k = issued
      PROVE  /\ GrantRecorded(grants[k])' /\ GrantStanding(grants[k])'
             /\ grants'[k].http /\ grants'[k].actor \notin Elsewhere => grants'[k].actorInc = grants'[k].authInc
  <2>1. \A h : h = g => GrantRecorded(h)' /\ GrantStanding(h)'
    BY DEF GrantRecorded, GrantStanding, Recorded, Standing, Doomed
  <2>2. g.http /\ g.actor \notin Elsewhere => g.actorInc = g.authInc
    BY DEF GrantStanding, Standing, Doomed
  <2>3. grants'[k] = g
    BY <1>3
  <2>4. \A h : h = grants'[k] => GrantRecorded(h)' /\ GrantStanding(h)'
    BY <2>1, <2>3
  <2>5. GrantRecorded(grants[k])' /\ GrantStanding(grants[k])'
    BY <2>4 DEF GrantRecorded, GrantStanding
  <2>6. QED
    BY <2>2, <2>3, <2>5
<1>4. ASSUME NEW k \in Tokens'
      PROVE  /\ GrantRecorded(grants[k])' /\ GrantStanding(grants[k])'
             /\ grants'[k].http /\ grants'[k].actor \notin Elsewhere => grants'[k].actorInc = grants'[k].authInc
  <2>1. CASE k = issued
    BY <1>3, <2>1
  <2>2. CASE k # issued
    BY <1>2, <2>2
  <2>3. QED
    BY <2>1, <2>2
<1>5. QED
  BY <1>4 DEF TokenInv, GrantsOfTheAuthenticated

\* Every step keeps the invariant.
LEMMA InvStep == Inv /\ [Next]_vars => Inv'
<1> SUFFICES ASSUME Inv, [Next]_vars PROVE Inv'
  OBVIOUS
<1>1. /\ TypeOK /\ FenceInv /\ TokenInv /\ GrantsOfTheAuthenticated /\ issued \in Nat
      /\ req = [x \in Request |-> req[x]] /\ DOMAIN req = Request /\ \A x \in Request : ReqInv(req[x])
  <2>1. TypeOK /\ FenceInv /\ TokenInv /\ GrantsOfTheAuthenticated
        /\ req = [x \in Request |-> req[x]] /\ \A x \in Request : ReqInv(req[x])
    BY DEF Inv, Requests
  <2>2. issued \in Nat
    BY <2>1, PreviewAssumption DEF TypeOK
  <2>3. QED
    BY <2>1, <2>2
<1>2. ASSUME UNCHANGED <<now, life, mu, deleting, epoch>>, Shrinks, Requests' PROVE Inv'
  <2>1. TokenInv' /\ GrantsOfTheAuthenticated' /\ RegistryTyped'
    BY <1>2, ShrinkStep
  <2>2. TypeOK'
    BY <1>1, <1>2, <2>1 DEF TypeOK, RegistryTyped
  <2>3. QED
    BY <1>1, <1>2, <2>1, <2>2 DEF Inv, FenceInv
<1>3. Shrinks /\ UNCHANGED <<mu, deleting, epoch>> => RegistryMoves
  BY <1>1 DEF Shrinks, RegistryMoves
<1>4. UNCHANGED <<issued, grants>> => Shrinks
  BY DEF Shrinks, Tokens
<1>5. CASE UNCHANGED vars
  <2>1. Requests'
    BY <1>3, <1>4, <1>5, CallsStay DEF vars
  <2>2. QED
    BY <1>2, <1>4, <1>5, <2>1 DEF vars
<1>6. ASSUME NEW r \in Request,
             \/ CaptureEpoch(r) \/ StartMint(r) \/ ResolveIdentity(r) \/ FindTarget(r)
             \/ \E a \in Actor : Authenticate(r, a) \/ CallDirectly(r, a)
      PROVE  Inv'
  <2>1. /\ UNCHANGED <<now, life, registry>>
        /\ \E q : ReqInv(q) /\ req' = [req EXCEPT ![r] = q]
    BY <1>1, <1>6, MintGoesOn
  <2>2. Requests'
    BY <1>3, <1>4, <2>1, CallStep DEF registry
  <2>3. QED
    BY <1>2, <1>4, <2>1, <2>2 DEF registry
<1>7. ASSUME NEW r \in Request, Read(r) PROVE Inv'
  <2>1. /\ UNCHANGED <<now, life, mu, deleting, epoch, issued>> /\ Shrinks
        /\ \E q : ReqInv(q) /\ req' = [req EXCEPT ![r] = q]
    BY <1>1, <1>7, ReadGoesOn
  <2>2. Requests'
    BY <1>3, <2>1, CallStep
  <2>3. QED
    BY <1>2, <2>1, <2>2
<1>8. ASSUME NEW r \in Request, StoreGrant(r) PROVE Inv'
  <2>1. /\ Leave(r) /\ UNCHANGED <<now, life, mu, deleting, epoch>> /\ mu = "free"
        /\ RegistryTyped'
        /\ \/ Shrinks
           \/ /\ issued' = issued + 1 /\ Tokens' \subseteq Tokens \cup {issued}
              /\ \A k \in Tokens' : k # issued => grants'[k] = grants[k]
              /\ grants'[issued] = req[r].grant /\ req[r].grant \in Grant
              /\ GrantRecorded(req[r].grant) /\ GrantStanding(req[r].grant)
              /\ req[r].grant.http => Standing(req[r].grant.actor, req[r].grant.authInc)
    BY <1>1, <1>8, StoreStep
  <2>2. ReqInv(Idle) /\ req' = [req EXCEPT ![r] = Idle]
    BY <2>1 DEF ReqInv, ReqTyped, MintInv, ReadInv, Reading, Idle, Leave
  <2>3. CASE Shrinks
    BY <1>2, <1>3, <2>1, <2>2, <2>3, CallStep
  <2>4. CASE ~Shrinks
    <3>1. RegistryMoves
      BY <1>1, <2>1, <2>4 DEF RegistryMoves
    <3>2. Requests'
      BY <2>1, <2>2, <3>1, CallStep
    <3>3. TokenInv' /\ GrantsOfTheAuthenticated'
      BY <2>1, <2>4, GrowStep
    <3>4. TypeOK'
      BY <1>1, <2>1 DEF TypeOK, RegistryTyped
    <3>5. QED
      BY <1>1, <2>1, <3>2, <3>3, <3>4 DEF Inv, FenceInv
  <2>5. QED
    BY <2>3, <2>4
<1>9. ASSUME NEW k \in 0 .. MaxIssued - 1, RevokeOwn(k) PROVE Inv'
  <2>1. Shrinks /\ UNCHANGED <<now, life, mu, deleting, epoch, req>>
    BY <1>9, KeptTokens DEF RevokeOwn, Without
  <2>2. Requests'
    BY <1>3, <2>1, CallsStay
  <2>3. QED
    BY <1>2, <2>1, <2>2
<1>10. CASE World
  <2>1. /\ UNCHANGED req /\ Shrinks
        /\ mu = "committed" /\ mu' # "committed" =>
             epoch' # epoch /\ \A k \in Tokens' : Named(grants[k]) \cap deleting = {}
    <3>1. CASE EndFence
      <4>1. /\ grants' = Kept({k \in Tokens : Named(grants[k]) \cap deleting = {}})
            /\ UNCHANGED <<issued, req>> /\ epoch' = epoch + 1
        BY <3>1 DEF EndFence
      <4>2. Shrinks /\ Tokens' = {k \in Tokens : Named(grants[k]) \cap deleting = {}}
        BY <4>1, KeptTokens
      <4>3. epoch' # epoch
        BY <1>1, <4>1, PreviewAssumption DEF TypeOK
      <4>4. QED
        BY <4>1, <4>2, <4>3
    <3>2. CASE ~EndFence
      <4>1. UNCHANGED <<issued, grants, req>> /\ (mu = "committed" => mu' = "committed")
        BY <1>10, <3>2 DEF World, BeginFence, CommitDelete, DeleteElsewhere, Create, Tick, registry
      <4>2. QED
        BY <1>4, <4>1
    <3>3. QED
      BY <3>1, <3>2
  <2>2. RegistryMoves
    BY <1>1, <2>1 DEF RegistryMoves, Shrinks
  <2>3. Requests'
    BY <1>10, <2>1, <2>2, CallsStay
  <2>4. TokenInv' /\ GrantsOfTheAuthenticated' /\ RegistryTyped'
    BY <1>10, <2>1, ShrinkStep
  <2>5. /\ FenceInv' /\ now' \in Times /\ life' \in [Entity -> Life]
        /\ mu' \in {"free", "fence", "committed"} /\ deleting' \subseteq Entity /\ epoch' \in 0 .. MaxFences
    BY <1>1, <1>10, WorldType
  <2>6. TypeOK'
    BY <2>4, <2>5 DEF TypeOK, RegistryTyped, Times
  <2>7. QED
    BY <2>3, <2>4, <2>5, <2>6 DEF Inv
<1>11. QED
  BY <1>5, <1>6, <1>7, <1>8, <1>9, <1>10, StepKinds

\* The first state.
LEMMA InvInit == Init => Inv
<1> SUFFICES ASSUME Init PROVE Inv
  OBVIOUS
<1>1. Tokens = {} /\ issued = 0 /\ epoch = 0 /\ now = 0 /\ mu = "free" /\ deleting = {}
  BY DEF Init, Tokens
<1>2. Cardinality(Tokens) = 0 /\ \A a \in Actor : Cardinality({k \in Tokens : grants[k].actor = a}) = 0
  <2>1. \A a \in Actor : {k \in Tokens : grants[k].actor = a} = {}
    BY <1>1
  <2>2. QED
    BY <1>1, <2>1, FS_EmptySet
<1>3. life \in [Entity -> Life]
  <2>1. [inc |-> 1, stored |-> TRUE, created |-> 0] \in Life
    BY PreviewAssumption DEF Life
  <2>2. QED
    BY <2>1 DEF Init
<1>4. TypeOK
  BY <1>1, <1>2, <1>3, PreviewAssumption DEF TypeOK
<1>5. Requests
  <2>1. req = [r \in Request |-> Idle] /\ ReqInv(Idle)
    BY DEF Init, ReqInv, ReqTyped, MintInv, ReadInv, Reading, Idle
  <2>2. QED
    BY <2>1 DEF Requests
<1>6. FenceInv /\ TokenInv /\ GrantsOfTheAuthenticated
  BY <1>1 DEF FenceInv, TokenInv, GrantsOfTheAuthenticated
<1>7. QED
  BY <1>4, <1>5, <1>6 DEF Inv

-----------------------------------------------------------------------------
(* The theorems.                                                             *)

\* The invariant holds in every reachable state.
LEMMA PreviewInvariant == Spec => []Inv
BY InvInit, InvStep, PTL DEF Spec

\* The state has its types, and the registry stays within its limits per
\* process and per account.
THEOREM TypeCorrect == Spec => []TypeOK
<1>1. Inv => TypeOK
  BY DEF Inv
<1>2. QED
  BY <1>1, PreviewInvariant, PTL

\* No token outlives, in this process, the document or the account that it
\* names, whatever was being minted when they were deleted.
THEOREM GrantsLive == Spec => []GrantsOfTheLiving
<1>1. Inv => GrantsOfTheLiving
  BY DEF Inv, TokenInv, GrantStanding, Standing, Doomed, GrantsOfTheLiving, Stands
<1>2. QED
  BY <1>1, PreviewInvariant, PTL

\* A token minted over HTTP belongs to the account that authenticated.
THEOREM GrantsAuthenticated == Spec => []GrantsOfTheAuthenticated
<1>1. Inv => GrantsOfTheAuthenticated
  BY DEF Inv
<1>2. QED
  BY <1>1, PreviewInvariant, PTL

\* A preview shows the document its token was minted for, read as the account
\* it was minted for, never a successor of either under its ID.
THEOREM AnswersFaithful == Spec => []AnswersAreOfTheGrant
<1>1. Inv => AnswersAreOfTheGrant
  BY DEF Inv, Requests, ReqInv, ReadInv, At, AnswersAreOfTheGrant
<1>2. QED
  BY <1>1, PreviewInvariant, PTL

\* No read is answered after the deletion of its document or account took effect.
THEOREM DeletedIsNotAnswered == Spec => NoAnswerAfterDelete
<1> DEFINE Goal == \A r \in Request :
                     At(r, "revalidate") /\ req'[r].pc = "answered" =>
                       /\ Stands(req[r].grant.target, req[r].targetInc)
                       /\ Stands(req[r].grant.actor, req[r].actorInc)
<1>1. Inv /\ [Next]_vars => [Goal]_vars
  <2> SUFFICES ASSUME Inv, [Next]_vars, NEW r \in Request, At(r, "revalidate"), req'[r].pc = "answered"
               PROVE  /\ Stands(req[r].grant.target, req[r].targetInc)
                      /\ Stands(req[r].grant.actor, req[r].actorInc)
    OBVIOUS
  <2> DEFINE g == req[r].grant
             k == req[r].token
  <2>1. req = [x \in Request |-> req[x]] /\ ReqInv(req[r]) /\ TypeOK
    BY DEF Inv, Requests
  <2>2. Answer(r)
    <3>1. req'[r] # req[r]
      BY DEF At
    <3>2. Mint(r) \/ Read(r)
      BY <2>1, <3>1, OnlyCaller
    <3>3. QED
      BY <3>2 DEF Mint, Read, CaptureEpoch, StartMint, ResolveIdentity, FindTarget, StoreGrant,
         Authenticate, CallDirectly, LookUp, LoadActor, FindDocument, RecheckActor, ActorGone,
         RevokeFound, Done, At
  <2>3. mu = "free" /\ k \in Tokens /\ grants[k] = g
    BY <2>1, <2>2 DEF Answer, Leave, Idle
  <2>4. GrantStanding(g)
    BY <2>3 DEF Inv, TokenInv
  <2>5. req[r].targetInc = g.targetInc /\ req[r].actorInc = g.actorInc
    BY <2>1, <2>3 DEF ReqInv, ReadInv, Agreed, Doomed, At
  <2>6. QED
    BY <2>3, <2>4, <2>5 DEF GrantStanding, Standing, Doomed, Stands
<1>2. QED
  BY <1>1, PreviewInvariant, PTL DEF Spec, NoAnswerAfterDelete
=============================================================================
