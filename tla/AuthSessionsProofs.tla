------------------------- MODULE AuthSessionsProofs -------------------------
(* Theorems about AuthSessions, for every number of requests and passwords   *)
(* and every value of the durations and the bounds.                          *)
EXTENDS AuthSessions, TLAPS

-----------------------------------------------------------------------------
(* Types.                                                                   *)

\* An account that is not locked has not used up its failures.
LockoutInv == lockedUntil = 0 => failed < MaxLoginAttempts

\* The request that a slot holds when it is free is one.
LEMMA IdleType == Idle \in Req /\ NoHash \in Hash /\ NoSession \in Session
BY AuthAssumption DEF Idle, Req, NoHash, Hash, NoSession, Session, Time

\* A request that returns, and one that has stored what it made, are typed.
LEMMA AnswerType ==
  ASSUME TypeOK, NEW r \in Request
  PROVE  /\ Return(r) => request' \in [Request -> Req]
         /\ \A n \in 0 .. MaxIssued :
              Answer(r, n) => request' \in [Request -> Req]
<1>1. Return(r) => request' \in [Request -> Req]
  BY IdleType DEF Return, TypeOK
<1>2. ASSUME NEW n \in 0 .. MaxIssued, Answer(r, n)
      PROVE  request' \in [Request -> Req]
  <2> DEFINE s == IF request[r].does = "rotate" THEN request[r].session
                  ELSE NoSession
             new == [Idle EXCEPT !.does = request[r].does, !.phase = "answered",
                                 !.session = s, !.issued = n]
  <2>1. request[r] \in Req /\ Idle \in Req /\ s \in Session
    BY IdleType DEF TypeOK, Req
  <2>2. new \in Req
    BY <2>1 DEF Req
  <2>3. request' = [request EXCEPT ![r] = new]
    BY <1>2 DEF Answer
  <2>4. QED
    BY <2>2, <2>3 DEF TypeOK
<1>3. QED
  BY <1>1, <1>2

\* A failure counts at most up to the lock.
LEMMA CountFailureType ==
  ASSUME TypeOK, LockoutInv, NEW at \in Time, CountFailure(at)
  PROVE  /\ failed' \in 0 .. MaxLoginAttempts
         /\ lockedUntil' \in 0 .. MaxTime + LockDuration
         /\ LockoutInv'
BY AuthAssumption DEF TypeOK, LockoutInv, CountFailure, Time

\* Every step of a login keeps the types.
LEMMA LoginType ==
  ASSUME TypeOK, LockoutInv, NEW r \in Request, Login(r)
  PROVE  TypeOK' /\ LockoutInv'
<1>0. request[r] \in Req
  BY DEF TypeOK
<1>1. ASSUME NEW p \in Password, FindAuthCredential(r, p)
      PROVE  TypeOK' /\ LockoutInv'
  <2> DEFINE new == [Idle EXCEPT !.does = "login", !.phase = "read", !.at = now,
                       !.guess = p,
                       !.hash = IF p = hash.password THEN hash ELSE NoHash,
                       !.locked = (p = hash.password /\ lockedUntil > now)]
  <2>1. new \in Req
    <3>1. NoHash \in Hash /\ hash \in Hash
      BY IdleType DEF TypeOK
    <3>2. \A b \in BOOLEAN, h \in Hash :
            [Idle EXCEPT !.does = "login", !.phase = "read", !.at = now,
                         !.guess = p, !.hash = h, !.locked = b] \in Req
      BY IdleType DEF TypeOK, Req
    <3>3. CASE p = hash.password /\ lockedUntil > now
      <4>1. (p = hash.password /\ lockedUntil > now) = TRUE
        BY <3>3
      <4>2. QED
        BY <3>1, <3>2, <3>3, <4>1
    <3>4. CASE ~(p = hash.password /\ lockedUntil > now)
      <4>1. (p = hash.password /\ lockedUntil > now) = FALSE
        BY <3>4
      <4>2. (IF p = hash.password THEN hash ELSE NoHash) \in Hash
        BY <3>1
      <4>3. QED
        BY <3>2, <4>1, <4>2
    <3>5. QED
      BY <3>3, <3>4
  <2>2. request' = [request EXCEPT ![r] = new]
    BY <1>1 DEF FindAuthCredential
  <2>3. request' \in [Request -> Req]
    BY <2>1, <2>2 DEF TypeOK
  <2>4. QED
    BY <1>1, <2>3 DEF FindAuthCredential, TypeOK, LockoutInv, credential
<1>2. CASE RecordFailedLogin(r)
  <2>1. request' \in [Request -> Req]
    BY <1>2, AnswerType DEF RecordFailedLogin
  <2>2. request[r].at \in Time
    BY <1>0 DEF Req
  <2>3. /\ failed' \in 0 .. MaxLoginAttempts
        /\ lockedUntil' \in 0 .. MaxTime + LockDuration
        /\ LockoutInv'
    BY <1>2, <2>2, CountFailureType DEF RecordFailedLogin, TypeOK, LockoutInv
  <2>4. QED
    BY <1>2, <2>1, <2>3 DEF RecordFailedLogin, TypeOK
<1>3. CASE ResetLoginAttempts(r)
  <2>1. ASSUME request' = [request EXCEPT ![r].phase = "admitted",
                                          ![r].guess = NoPassword]
        PROVE  request' \in [Request -> Req]
    BY <1>0, <2>1 DEF TypeOK, Req
  <2>2. request' \in [Request -> Req]
    BY <1>3, <2>1, AnswerType DEF ResetLoginAttempts
  <2>3. /\ failed' \in 0 .. MaxLoginAttempts
        /\ lockedUntil' \in 0 .. MaxTime + LockDuration
        /\ LockoutInv'
    BY <1>3, AuthAssumption DEF ResetLoginAttempts, TypeOK, LockoutInv
  <2>4. QED
    BY <1>3, <2>2, <2>3 DEF ResetLoginAttempts, TypeOK
<1>4. CASE UpgradePasswordHash(r)
  <2> DEFINE h == [request[r].hash EXCEPT !.salt = hashes + 1, !.strong = TRUE]
  <2>1. CASE SameHash(r)
    <3>1. hashes + 1 \in 0 .. MaxHashes /\ request[r].hash \in Hash
      BY <1>0, <1>4, AuthAssumption DEF UpgradePasswordHash, TypeOK, Req
    <3>2. h \in Hash
      BY <3>1 DEF Hash
    <3>3. hash' = h /\ request' = [request EXCEPT ![r].hash = h]
      BY <1>4, <2>1 DEF UpgradePasswordHash
    <3>4. [request[r] EXCEPT !.hash = h] \in Req
      BY <1>0, <3>2 DEF Req
    <3>5. request' \in [Request -> Req]
      BY <3>3, <3>4 DEF TypeOK
    <3>6. QED
      BY <1>4, <2>1, <3>1, <3>2, <3>3, <3>5
         DEF UpgradePasswordHash, TypeOK, LockoutInv
  <2>2. CASE ~SameHash(r)
    BY <1>4, <2>2, AnswerType DEF UpgradePasswordHash, TypeOK, LockoutInv
  <2>3. QED
    BY <2>1, <2>2
<1>5. CASE CreateSession(r)
  <2>1. CASE Active /\ SameHash(r)
    <3> DEFINE s == [id |-> issued + 1, token |-> issued + 1,
                     epoch |-> request[r].hash.epoch,
                     expires |-> request[r].at + SessionDuration]
    <3>1. issued + 1 \in 0 .. MaxIssued
      BY <1>5, AuthAssumption DEF CreateSession, TypeOK
    <3>2. /\ request[r].hash.epoch \in 0 .. MaxHashes
          /\ request[r].at + SessionDuration \in 0 .. MaxTime + SessionDuration
      BY <1>0, AuthAssumption DEF Req, Hash, Time
    <3>3. s \in Session
      BY <3>1, <3>2 DEF Session
    <3>4. sessions' = sessions \cup {s} /\ issued' = issued + 1
          /\ Answer(r, issued + 1)
      BY <1>5, <2>1 DEF CreateSession
    <3>5. request' \in [Request -> Req]
      BY <3>1, <3>4, AnswerType
    <3>6. QED
      BY <1>5, <3>1, <3>3, <3>4, <3>5 DEF CreateSession, TypeOK, LockoutInv, credential
  <2>2. CASE ~(Active /\ SameHash(r))
    BY <1>5, <2>2, AnswerType DEF CreateSession, TypeOK, LockoutInv, credential
  <2>3. QED
    BY <2>1, <2>2
<1>6. QED
  BY <1>1, <1>2, <1>3, <1>4, <1>5 DEF Login

\* A replacement of the password keeps the types.
LEMMA ReplaceType ==
  ASSUME TypeOK, NEW p \in Password, Replace(p)
  PROVE  /\ hash' \in Hash /\ hashes' \in 0 .. MaxHashes
         /\ failed' \in 0 .. MaxLoginAttempts
         /\ lockedUntil' \in 0 .. MaxTime + LockDuration
         /\ sessions' \subseteq Session /\ keys' \subseteq APIKey
         /\ LockoutInv'
<1>1. hashes + 1 \in 0 .. MaxHashes
  BY AuthAssumption DEF Replace, TypeOK
<1>2. hash' \in Hash
  BY <1>1 DEF Replace, Hash
<1>3. QED
  BY <1>1, <1>2, AuthAssumption DEF Replace, LockoutInv


\* Every step of a request that a session authorizes keeps the types.
LEMMA AuthorizedType ==
  ASSUME TypeOK, LockoutInv, NEW r \in Request, Authorized(r)
  PROVE  TypeOK' /\ LockoutInv'
<1>0. request[r] \in Req
  BY DEF TypeOK
<1>1. ASSUME NEW does \in {"rotate", "mint", "change", "revoke"},
             FindSession(r, does)
      PROVE  TypeOK' /\ LockoutInv'
  <2>1. \A s \in Session :
          /\ [Idle EXCEPT !.does = does, !.phase = "read"] \in Req
          /\ [Idle EXCEPT !.does = does, !.phase = "read", !.at = now,
                          !.session = s] \in Req
    BY IdleType DEF TypeOK, Req
  <2>2. request' \in [Request -> Req]
    BY <1>1, <2>1 DEF FindSession, TypeOK
  <2>3. QED
    BY <1>1, <2>2 DEF FindSession, TypeOK, LockoutInv, credential
<1>2. CASE RotateSession(r)
  <2>1. CASE Active /\ Rotatable(r) # {}
    <3>1. issued + 1 \in 0 .. MaxIssued /\ issued' = issued + 1
      BY <1>2, <2>1, AuthAssumption DEF RotateSession, TypeOK
    <3>2. \A s \in Session : [s EXCEPT !.token = issued + 1] \in Session
      BY <3>1 DEF Session
    <3>3. sessions' \subseteq Session
      BY <1>2, <2>1, <3>2 DEF RotateSession, TypeOK
    <3>4. request' \in [Request -> Req]
      BY <1>2, <2>1, <3>1, AnswerType DEF RotateSession
    <3>5. QED
      BY <1>2, <3>1, <3>3, <3>4 DEF RotateSession, TypeOK, LockoutInv, credential
  <2>2. CASE ~(Active /\ Rotatable(r) # {})
    BY <1>2, <2>2, AnswerType DEF RotateSession, TypeOK, LockoutInv, credential
  <2>3. QED
    BY <2>1, <2>2
<1>3. CASE CreateAPIKey(r)
  <2>1. CASE MayMint(r)
    <3>1. issued + 1 \in 1 .. MaxIssued /\ issued' = issued + 1
      BY <1>3, <2>1, AuthAssumption DEF CreateAPIKey, TypeOK
    <3>2. [id |-> issued + 1, epoch |-> request[r].session.epoch] \in APIKey
      BY <1>0, <3>1 DEF APIKey, Req, Session
    <3>3. request' \in [Request -> Req]
      BY <1>3, <2>1, <3>1, AnswerType DEF CreateAPIKey
    <3>4. QED
      BY <1>3, <2>1, <3>1, <3>2, <3>3
         DEF CreateAPIKey, TypeOK, LockoutInv, credential
  <2>2. CASE ~MayMint(r)
    BY <1>3, <2>2, AnswerType DEF CreateAPIKey, TypeOK, LockoutInv, credential
  <2>3. QED
    BY <2>1, <2>2
<1>4. CASE Revoke(r)
  <2>1. request' \in [Request -> Req]
    BY <1>4, AnswerType DEF Revoke
  <2>2. sessions' \subseteq Session /\ keys' \subseteq APIKey
    BY <1>4 DEF Revoke, TypeOK
  <2>3. QED
    BY <1>4, <2>1, <2>2 DEF Revoke, TypeOK, LockoutInv, credential
<1>5. ASSUME NEW p \in Password, ReadCurrentPassword(r, p)
      PROVE  TypeOK' /\ LockoutInv'
  <2>1. [Idle EXCEPT !.does = "change", !.phase = "admitted", !.hash = hash] \in Req
    BY IdleType DEF TypeOK, Req
  <2>2. request' \in [Request -> Req]
    BY <1>5, <2>1 DEF ReadCurrentPassword, TypeOK
  <2>3. QED
    BY <1>5, <2>2 DEF ReadCurrentPassword, TypeOK, LockoutInv, credential
<1>6. ASSUME NEW p \in Password, ChangePasswordHash(r, p)
      PROVE  TypeOK' /\ LockoutInv'
  <2>1. request' \in [Request -> Req]
    BY <1>6, AnswerType DEF ChangePasswordHash
  <2>2. CASE Active /\ SameHash(r)
    BY <1>6, <2>1, <2>2, ReplaceType DEF ChangePasswordHash, TypeOK
  <2>3. CASE ~(Active /\ SameHash(r))
    BY <1>6, <2>1, <2>3 DEF ChangePasswordHash, TypeOK, LockoutInv, credential
  <2>4. QED
    BY <2>2, <2>3
<1>7. QED
  BY <1>1, <1>2, <1>3, <1>4, <1>5, <1>6 DEF Authorized

\* Every step keeps the types.
LEMMA TypeStep == TypeOK /\ LockoutInv /\ [Next]_vars => TypeOK' /\ LockoutInv'
<1> SUFFICES ASSUME TypeOK, LockoutInv, [Next]_vars PROVE TypeOK' /\ LockoutInv'
  OBVIOUS
<1>1. ASSUME NEW r \in Request, HookFails(r) PROVE TypeOK' /\ LockoutInv'
  BY <1>1, AnswerType DEF HookFails, TypeOK, LockoutInv, credential
<1>2. ASSUME NEW r \in Request, Leave(r) PROVE TypeOK' /\ LockoutInv'
  BY <1>2, AnswerType DEF Leave, TypeOK, LockoutInv, credential
<1>3. ASSUME NEW p \in Password,
             \/ SetPasswordHash(p) \/ ResetPasswordWithToken(p)
             \/ CreateAuthCredential(p)
      PROVE  TypeOK' /\ LockoutInv'
  <2>1. Replace(p)
    BY <1>3 DEF SetPasswordHash, ResetPasswordWithToken, CreateAuthCredential
  <2>2. /\ now' = now /\ issued' = issued /\ request' = request
        /\ account' \in {"active", "trashed", "gone"}
        /\ resetUntil' \in 0 .. MaxTime + ResetDuration
    BY <1>3, AuthAssumption
       DEF SetPasswordHash, ResetPasswordWithToken, CreateAuthCredential, TypeOK
  <2>3. QED
    BY <2>1, <2>2, ReplaceType DEF TypeOK
<1>4. CASE Logout
  BY <1>4 DEF Logout, TypeOK, LockoutInv, credential
<1>5. CASE RequestPasswordReset
  BY <1>5, AuthAssumption
     DEF RequestPasswordReset, TypeOK, LockoutInv, credential, Time
<1>6. CASE ForceUnlockAuth
  BY <1>6, AuthAssumption DEF ForceUnlockAuth, TypeOK, LockoutInv
<1>7. CASE Trash \/ Restore
  BY <1>7 DEF Trash, Restore, TypeOK, LockoutInv, credential
<1>8. CASE DeleteDocumentState
  BY <1>8, IdleType, AuthAssumption DEF DeleteDocumentState, TypeOK, LockoutInv
<1>9. CASE PruneExpiredAuth
  BY <1>9 DEF PruneExpiredAuth, TypeOK, LockoutInv, credential
<1>10. CASE Tick
  BY <1>10, AuthAssumption DEF Tick, TypeOK, LockoutInv, credential, Time
<1>11. CASE UNCHANGED vars
  BY <1>11 DEF vars, credential, TypeOK, LockoutInv
<1>12. QED
  BY <1>1, <1>2, <1>3, <1>4, <1>5, <1>6, <1>7, <1>8, <1>9, <1>10, <1>11,
     LoginType, AuthorizedType DEF Next

\* The account that Init describes is typed.
LEMMA InitType ==
  ASSUME Init
  PROVE  TypeOK /\ LockoutInv
<1>1. hash \in Hash /\ hashes \in 0 .. MaxHashes
  BY AuthAssumption DEF Init, Hash
<1>2. request \in [Request -> Req]
  BY IdleType DEF Init
<1>3. QED
  BY <1>1, <1>2, AuthAssumption DEF Init, TypeOK, LockoutInv, Time


\* The rows, the requests and the failure counter have their types at all times.
THEOREM TypeCorrect == Spec => []TypeOK
<1>1. Init => TypeOK /\ LockoutInv
  BY InitType
<1>2. TypeOK /\ LockoutInv /\ [Next]_vars => (TypeOK /\ LockoutInv)'
  BY TypeStep
<1>3. QED
  BY <1>1, <1>2, PTL DEF Spec

-----------------------------------------------------------------------------
(* The password behind every session and key.                               *)

\* A salt names one hash: a request whose hash has the salt of the stored one
\* holds the stored one, and a hash yet to be computed is unlike all of them.
HashInv ==
  /\ hash.salt <= hashes /\ hash.epoch <= hashes
  /\ hash.salt = 0 => hash = NoHash
  /\ account # "gone" => hash.salt # 0
  /\ \A r \in Request :
       /\ request[r].hash.salt <= hashes
       /\ request[r].hash.salt = hash.salt => request[r].hash = hash
       /\ request[r].hash.salt = 0 => request[r].hash = NoHash

\* What a step leaves of the hash that r holds: it keeps it, drops it, reads
\* the stored one, or holds the one it stored.
HoldsHash(r) ==
  \/ request'[r].hash = request[r].hash
  \/ request'[r].hash = NoHash
  \/ request'[r].hash = hash /\ account = "active"
  \/ request'[r].hash = hash' /\ hash'.salt # 0

\* What a step leaves of the stored hash: it is kept, upgraded by a request
\* that holds it, replaced, or deleted with the account.
StoredHash ==
  \/ hash' = hash /\ hashes' = hashes
  \/ /\ hashes' = hashes + 1
     /\ hash'.salt = hashes + 1
     /\ hash'.epoch = hash.epoch
  \/ /\ hashes' = hashes + 1
     /\ hash'.salt = hashes + 1 /\ hash'.epoch = hashes + 1
     /\ sessions' = {} /\ keys' = {}
  \/ /\ hash' = NoHash /\ hashes' = hashes
     /\ account' = "gone" /\ sessions' = {} /\ keys' = {}

\* A replacement stores a hash never computed before.
LEMMA ReplaceMoves ==
  ASSUME TypeOK, NEW p \in Password, Replace(p)
  PROVE  StoredHash /\ hash'.salt # 0
BY DEF Replace, StoredHash, TypeOK

\* A request that returns drops its hash, and so does one that is answered.
LEMMA AnswerMoves ==
  ASSUME TypeOK, NEW r \in Request,
         Return(r) \/ \E n \in 0 .. MaxIssued : Answer(r, n)
  PROVE  \A q \in Request : HoldsHash(q)
<1>1. CASE Return(r)
  BY <1>1 DEF Return, HoldsHash, Idle, TypeOK
<1>2. ASSUME NEW n \in 0 .. MaxIssued, Answer(r, n)
      PROVE  \A q \in Request : HoldsHash(q)
  BY <1>2 DEF Answer, HoldsHash, Idle, TypeOK
<1>3. QED
  BY <1>1, <1>2

\* The hash and the copies of it that requests hold move in these ways only.
LEMMA HashMoves ==
  ASSUME TypeOK, HashInv, [Next]_vars
  PROVE  /\ StoredHash
         /\ \A q \in Request : HoldsHash(q)
         /\ account' # "gone" => account # "gone" \/ hash'.salt # 0
<1> DEFINE Goal == /\ StoredHash
                   /\ \A q \in Request : HoldsHash(q)
                   /\ account' # "gone" => account # "gone" \/ hash'.salt # 0
<1> USE DEF StoredHash
<1>1. ASSUME NEW r \in Request, NEW p \in Password, FindAuthCredential(r, p)
      PROVE  Goal
  BY <1>1 DEF FindAuthCredential, credential, HoldsHash, TypeOK
<1>2. ASSUME NEW r \in Request,
             \/ RecordFailedLogin(r) \/ Revoke(r) \/ HookFails(r) \/ Leave(r)
      PROVE  Goal
  <2>1. Return(r) /\ UNCHANGED <<hash, hashes, account>>
    BY <1>2 DEF RecordFailedLogin, Revoke, HookFails, Leave, credential
  <2>2. QED
    BY <2>1, AnswerMoves
<1>3. ASSUME NEW r \in Request, ResetLoginAttempts(r) PROVE Goal
  <2>1. Return(r) \/ \A q \in Request : request'[q].hash = request[q].hash
    BY <1>3 DEF ResetLoginAttempts, TypeOK, Req
  <2>2. QED
    BY <1>3, <2>1, AnswerMoves DEF ResetLoginAttempts, HoldsHash
<1>4. ASSUME NEW r \in Request, UpgradePasswordHash(r) PROVE Goal
  <2>1. CASE SameHash(r)
    <3> DEFINE h == [request[r].hash EXCEPT !.salt = hashes + 1, !.strong = TRUE]
    <3>1. /\ hash' = h /\ request' = [request EXCEPT ![r].hash = h]
          /\ hashes' = hashes + 1 /\ account' = account
      BY <1>4, <2>1 DEF UpgradePasswordHash
    <3>2. request[r].hash \in Hash /\ hashes \in Nat /\ request[r] \in Req
      BY AuthAssumption DEF TypeOK, Req
    <3>3. h.salt = hashes + 1 /\ h.epoch = request[r].hash.epoch
      BY <3>2 DEF Hash
    <3>4. request[r].hash.epoch = hash.epoch
      BY <2>1 DEF SameHash, HashInv
    <3>5. \A q \in Request : HoldsHash(q)
      BY <3>1, <3>2, <3>3 DEF HoldsHash, TypeOK, Req
    <3>6. QED
      BY <3>1, <3>2, <3>3, <3>4, <3>5
  <2>2. CASE ~SameHash(r)
    BY <1>4, <2>2, AnswerMoves DEF UpgradePasswordHash
  <2>3. QED
    BY <2>1, <2>2
<1>5. ASSUME NEW r \in Request,
             CreateSession(r) \/ RotateSession(r) \/ CreateAPIKey(r)
      PROVE  Goal
  <2>1. issued + 1 \in 0 .. MaxIssued
    BY <1>5, AuthAssumption DEF CreateSession, RotateSession, CreateAPIKey, TypeOK
  <2>2. (Return(r) \/ Answer(r, issued + 1)) /\ UNCHANGED <<hash, hashes, account>>
    BY <1>5 DEF CreateSession, RotateSession, CreateAPIKey, credential
  <2>3. QED
    BY <2>1, <2>2, AnswerMoves
<1>6. ASSUME NEW r \in Request, NEW does \in {"rotate", "mint", "change", "revoke"},
             FindSession(r, does)
      PROVE  Goal
  BY <1>6 DEF FindSession, credential, HoldsHash, Idle, TypeOK
<1>7. ASSUME NEW r \in Request, NEW p \in Password, ReadCurrentPassword(r, p)
      PROVE  Goal
  BY <1>7 DEF ReadCurrentPassword, credential, HoldsHash, Idle, TypeOK
<1>8. ASSUME NEW r \in Request, NEW p \in Password, ChangePasswordHash(r, p)
      PROVE  Goal
  <2>1. \A q \in Request : HoldsHash(q)
    BY <1>8, AnswerMoves DEF ChangePasswordHash
  <2>2. CASE Active /\ SameHash(r)
    BY <1>8, <2>1, <2>2, ReplaceMoves DEF ChangePasswordHash
  <2>3. CASE ~(Active /\ SameHash(r))
    BY <1>8, <2>1, <2>3 DEF ChangePasswordHash, credential
  <2>4. QED
    BY <2>2, <2>3
<1>9. ASSUME NEW p \in Password,
             \/ SetPasswordHash(p) \/ ResetPasswordWithToken(p)
             \/ CreateAuthCredential(p)
      PROVE  Goal
  <2>1. Replace(p) /\ request' = request
    BY <1>9 DEF SetPasswordHash, ResetPasswordWithToken, CreateAuthCredential
  <2>2. QED
    BY <2>1, ReplaceMoves DEF HoldsHash
<1>10. CASE \/ Logout \/ RequestPasswordReset \/ ForceUnlockAuth \/ Trash \/ Restore
            \/ PruneExpiredAuth \/ Tick \/ UNCHANGED vars
  BY <1>10 DEF Logout, RequestPasswordReset, ForceUnlockAuth, Trash, Restore,
               PruneExpiredAuth, Tick, vars, credential, HoldsHash
<1>11. CASE DeleteDocumentState
  BY <1>11 DEF DeleteDocumentState, HoldsHash
<1>12. QED
  BY <1>1, <1>2, <1>3, <1>4, <1>5, <1>6, <1>7, <1>8, <1>9, <1>10, <1>11
     DEF Next, Login, Authorized

\* Moving so, salts keep naming hashes.
LEMMA HashStep == TypeOK /\ HashInv /\ [Next]_vars => HashInv'
<1> SUFFICES ASSUME TypeOK, HashInv, [Next]_vars PROVE HashInv'
  OBVIOUS
<1>1. /\ StoredHash /\ \A q \in Request : HoldsHash(q)
      /\ account' # "gone" => account # "gone" \/ hash'.salt # 0
  BY HashMoves
<1>2. /\ hashes \in Nat /\ hash.salt \in Nat /\ hash.epoch \in Nat
      /\ \A r \in Request : request[r].hash.salt \in Nat
  BY AuthAssumption DEF TypeOK, Req, Hash
<1>3. NoHash.salt = 0 /\ NoHash.epoch = 0
  BY DEF NoHash
<1>4. /\ hash'.salt <= hashes' /\ hash'.epoch <= hashes'
      /\ hash'.salt = 0 => hash' = NoHash
      /\ account' # "gone" => hash'.salt # 0
  BY <1>1, <1>2, <1>3 DEF StoredHash, HashInv
<1>5. ASSUME NEW r \in Request
      PROVE  /\ request'[r].hash.salt <= hashes'
             /\ request'[r].hash.salt = hash'.salt
                  => request'[r].hash = hash'
             /\ request'[r].hash.salt = 0 => request'[r].hash = NoHash
  <2> USE <1>2, <1>3, <1>4 DEF StoredHash, HashInv
  <2>1. CASE request'[r].hash = request[r].hash
    BY <1>1, <2>1
  <2>2. CASE request'[r].hash = NoHash
    BY <1>1, <2>2
  <2>3. CASE request'[r].hash = hash /\ account = "active"
    BY <1>1, <2>3
  <2>4. CASE request'[r].hash = hash' /\ hash'.salt # 0
    BY <1>1, <2>4
  <2>5. QED
    BY <1>1, <2>1, <2>2, <2>3, <2>4 DEF HoldsHash
<1>6. QED
  BY <1>4, <1>5 DEF HashInv


-----------------------------------------------------------------------------
(* Sessions and keys.                                                       *)

\* A session token is issued once: the session found under the token a request
\* presented is opened with the same password as the one the request read.
TokenInv ==
  /\ \A s \in sessions : s.token \in 1 .. issued
  /\ \A r \in Request : request[r].session.token <= issued
  /\ \A r \in Request, s \in sessions :
       s.token = request[r].session.token => s.epoch = request[r].session.epoch

\* What a step leaves of the sessions: old ones, and under a new token one of
\* the current password.
SessionMoves ==
  /\ issued' \in {issued, issued + 1}
  /\ \A s \in sessions' :
       \/ s \in sessions
       \/ /\ s.token = issued + 1 /\ issued' = issued + 1
          /\ s.epoch = hash.epoch

\* What a step leaves of the keys: old ones, and one of the current password.
KeyMoves == \A k \in keys' : k \in keys \/ k.epoch = hash.epoch

\* What a step leaves of the session a request holds: it keeps it, drops it, or
\* reads a stored one.
HoldsSession(r) ==
  \/ request'[r].session \in {request[r].session, NoSession}
  \/ request'[r].session \in sessions

\* The session a request holds is kept or dropped when it returns or is answered.
LEMMA AnswerHolds ==
  ASSUME TypeOK, NEW r \in Request,
         Return(r) \/ \E n \in 0 .. MaxIssued : Answer(r, n)
  PROVE  \A q \in Request : HoldsSession(q)
<1>1. CASE Return(r)
  BY <1>1 DEF Return, HoldsSession, Idle, TypeOK
<1>2. ASSUME NEW n \in 0 .. MaxIssued, Answer(r, n)
      PROVE  \A q \in Request : HoldsSession(q)
  BY <1>2 DEF Answer, HoldsSession, Idle, TypeOK
<1>3. QED
  BY <1>1, <1>2

\* Sessions and keys appear in these ways only.
LEMMA AccessMoves ==
  ASSUME TypeOK, HashInv, TokenInv, SessionsOfCurrentPassword, [Next]_vars
  PROVE  SessionMoves /\ KeyMoves /\ \A q \in Request : HoldsSession(q)
<1> DEFINE Goal == SessionMoves /\ KeyMoves /\ \A q \in Request : HoldsSession(q)
<1> USE DEF SessionMoves, KeyMoves
<1>1. ASSUME NEW r \in Request, NEW p \in Password, FindAuthCredential(r, p)
      PROVE  Goal
  BY <1>1 DEF FindAuthCredential, HoldsSession, Idle, TypeOK
<1>2. ASSUME NEW r \in Request,
             \/ RecordFailedLogin(r) \/ Revoke(r) \/ HookFails(r) \/ Leave(r)
      PROVE  Goal
  <2>1. Return(r) /\ issued' = issued /\ sessions' \subseteq sessions
        /\ keys' \subseteq keys
    BY <1>2 DEF RecordFailedLogin, Revoke, HookFails, Leave
  <2>2. QED
    BY <2>1, AnswerHolds
<1>3. ASSUME NEW r \in Request, ResetLoginAttempts(r) \/ UpgradePasswordHash(r)
      PROVE  Goal
  <2>1. Return(r) \/ \A q \in Request : request'[q].session = request[q].session
    BY <1>3 DEF ResetLoginAttempts, UpgradePasswordHash, TypeOK, Req
  <2>2. QED
    BY <1>3, <2>1, AnswerHolds
       DEF ResetLoginAttempts, UpgradePasswordHash, HoldsSession
<1>4. ASSUME NEW r \in Request, CreateSession(r) PROVE Goal
  <2>1. issued + 1 \in 0 .. MaxIssued
    BY <1>4, AuthAssumption DEF CreateSession, TypeOK
  <2>2. CASE Active /\ SameHash(r)
    <3>1. request[r].hash.epoch = hash.epoch
      BY <2>2 DEF SameHash, HashInv
    <3>2. QED
      BY <1>4, <2>1, <2>2, <3>1, AnswerHolds DEF CreateSession
  <2>3. CASE ~(Active /\ SameHash(r))
    BY <1>4, <2>3, AnswerHolds DEF CreateSession
  <2>4. QED
    BY <2>2, <2>3
<1>5. ASSUME NEW r \in Request, RotateSession(r) PROVE Goal
  <2>1. issued + 1 \in 0 .. MaxIssued
    BY <1>5, AuthAssumption DEF RotateSession, TypeOK
  <2>2. CASE Active /\ Rotatable(r) # {}
    <3>1. keys' = keys /\ issued' = issued + 1 /\ hash' = hash
          /\ Answer(r, issued + 1)
      BY <1>5, <2>2 DEF RotateSession, credential
    <3>2. \A q \in Request : HoldsSession(q)
      BY <2>1, <3>1, AnswerHolds
    <3>3. ASSUME NEW s \in sessions', s \notin sessions
          PROVE  s.token = issued' /\ s.epoch = hash.epoch
      <4>1. PICK z \in sessions :
              s = IF z \in Rotatable(r) THEN [z EXCEPT !.token = issued + 1] ELSE z
        BY <1>5, <2>2, <3>3 DEF RotateSession
      <4>2. s = [z EXCEPT !.token = issued + 1]
        BY <4>1, <3>3
      <4>3. z \in Session /\ z.epoch = hash.epoch
        BY <4>1 DEF TypeOK, SessionsOfCurrentPassword
      <4>4. QED
        BY <3>1, <4>2, <4>3 DEF Session
    <3>4. QED
      BY <3>1, <3>2, <3>3
  <2>3. CASE ~(Active /\ Rotatable(r) # {})
    BY <1>5, <2>3, AnswerHolds DEF RotateSession
  <2>4. QED
    BY <2>2, <2>3
<1>6. ASSUME NEW r \in Request, CreateAPIKey(r) PROVE Goal
  <2>1. issued + 1 \in 0 .. MaxIssued
    BY <1>6, AuthAssumption DEF CreateAPIKey, TypeOK
  <2>2. CASE MayMint(r)
    <3>1. request[r].session.epoch = hash.epoch
      BY <2>2 DEF MayMint, Authorizing, TokenInv, SessionsOfCurrentPassword
    <3>2. QED
      BY <1>6, <2>1, <2>2, <3>1, AnswerHolds DEF CreateAPIKey
  <2>3. CASE ~MayMint(r)
    BY <1>6, <2>3, AnswerHolds DEF CreateAPIKey
  <2>4. QED
    BY <2>2, <2>3
<1>7. ASSUME NEW r \in Request, NEW does \in {"rotate", "mint", "change", "revoke"},
             FindSession(r, does)
      PROVE  Goal
  BY <1>7 DEF FindSession, HoldsSession, Idle, TypeOK
<1>8. ASSUME NEW r \in Request, NEW p \in Password, ReadCurrentPassword(r, p)
      PROVE  Goal
  BY <1>8 DEF ReadCurrentPassword, HoldsSession, Idle, TypeOK
<1>9. ASSUME NEW r \in Request, NEW p \in Password, ChangePasswordHash(r, p)
      PROVE  Goal
  BY <1>9, AnswerHolds DEF ChangePasswordHash, Replace
<1>10. ASSUME NEW p \in Password,
              \/ SetPasswordHash(p) \/ ResetPasswordWithToken(p)
              \/ CreateAuthCredential(p)
       PROVE  Goal
  BY <1>10 DEF SetPasswordHash, ResetPasswordWithToken, CreateAuthCredential,
               Replace, HoldsSession
<1>11. CASE \/ Logout \/ RequestPasswordReset \/ ForceUnlockAuth \/ Trash \/ Restore
            \/ DeleteDocumentState \/ PruneExpiredAuth \/ Tick \/ UNCHANGED vars
  BY <1>11 DEF Logout, RequestPasswordReset, ForceUnlockAuth, Trash, Restore,
               DeleteDocumentState, PruneExpiredAuth, Tick, vars, HoldsSession
<1>12. QED
  BY <1>1, <1>2, <1>3, <1>4, <1>5, <1>6, <1>7, <1>8, <1>9, <1>10, <1>11
     DEF Next, Login, Authorized

\* The strengthening of the two safety properties that every step keeps.
AccessInv ==
  /\ TypeOK /\ LockoutInv /\ HashInv /\ TokenInv
  /\ SessionsOfCurrentPassword /\ KeysOfCurrentPassword

\* Appearing so, sessions and keys rest on the current password.
LEMMA AccessStep == AccessInv /\ [Next]_vars => AccessInv'
<1> SUFFICES ASSUME AccessInv, [Next]_vars PROVE AccessInv'
  OBVIOUS
<1>1. TypeOK' /\ LockoutInv' /\ HashInv'
  BY TypeStep, HashStep DEF AccessInv
<1>2. /\ StoredHash /\ SessionMoves /\ KeyMoves
      /\ \A q \in Request : HoldsSession(q)
  BY HashMoves, AccessMoves DEF AccessInv
<1>3. sessions' # {} \/ keys' # {} => hash'.epoch = hash.epoch
  BY <1>2 DEF StoredHash
<1>4. SessionsOfCurrentPassword' /\ KeysOfCurrentPassword'
  BY <1>2, <1>3 DEF AccessInv, SessionMoves, KeyMoves,
                    SessionsOfCurrentPassword, KeysOfCurrentPassword
<1>5. /\ issued \in Nat /\ NoSession.token = 0
      /\ \A r \in Request : request[r].session.token \in Nat
      /\ \A s \in sessions : s.token \in Nat
  BY AuthAssumption DEF AccessInv, TypeOK, Req, Session, NoSession
<1>6. \A s \in sessions' : s.token \in 1 .. issued'
  BY <1>2, <1>5 DEF AccessInv, TokenInv, SessionMoves
<1>7. ASSUME NEW r \in Request
      PROVE  /\ request'[r].session.token <= issued'
             /\ \A s \in sessions' : s.token = request'[r].session.token
                  => s.epoch = request'[r].session.epoch
  <2>1. CASE request'[r].session = request[r].session
    BY <1>2, <1>5, <2>1 DEF AccessInv, TokenInv, SessionMoves
  <2>2. CASE request'[r].session = NoSession
    BY <1>2, <1>5, <1>6, <2>2 DEF SessionMoves
  <2>3. CASE request'[r].session \in sessions
    <3>1. request'[r].session.token \in 1 .. issued
          /\ request'[r].session.epoch = hash.epoch
      BY <2>3 DEF AccessInv, TokenInv, SessionsOfCurrentPassword
    <3>2. QED
      BY <1>2, <1>3, <1>4, <1>5, <3>1 DEF SessionMoves, SessionsOfCurrentPassword
  <2>4. QED
    BY <1>2, <2>1, <2>2, <2>3 DEF HoldsSession
<1>8. TokenInv'
  BY <1>6, <1>7 DEF TokenInv
<1>9. QED
  BY <1>1, <1>4, <1>8 DEF AccessInv

\* The account that Init describes has no session, no key and one hash.
LEMMA AccessInit == Init => AccessInv
<1> SUFFICES ASSUME Init PROVE AccessInv
  OBVIOUS
<1>1. TypeOK /\ LockoutInv
  BY InitType
<1>2. HashInv
  <2>1. hash.salt = 1 /\ hash.epoch = 1 /\ hashes = 1
    BY DEF Init
  <2>2. \A r \in Request : request[r].hash = NoHash
    BY DEF Init, Idle
  <2>3. NoHash.salt = 0
    BY DEF NoHash
  <2>4. QED
    BY <2>1, <2>2, <2>3 DEF HashInv
<1>3. TokenInv
  BY DEF Init, TokenInv, Idle, NoSession
<1>4. QED
  BY <1>1, <1>2, <1>3 DEF Init, AccessInv, SessionsOfCurrentPassword, KeysOfCurrentPassword

\* No login under way during a replacement of the password, and no rotation,
\* leaves a session of the password replaced.
THEOREM SessionSafety == Spec => []SessionsOfCurrentPassword
<1>1. AccessInv => SessionsOfCurrentPassword
  BY DEF AccessInv
<1>2. QED
  BY <1>1, AccessInit, AccessStep, PTL DEF Spec

\* No API key outlives the password of the session it was made with.
THEOREM APIKeySafety == Spec => []KeysOfCurrentPassword
<1>1. AccessInv => KeysOfCurrentPassword
  BY DEF AccessInv
<1>2. QED
  BY <1>1, AccessInit, AccessStep, PTL DEF Spec

\* A request that replaces the stored hash holds it.
LEMMA ReplacesWhatItHolds ==
  ASSUME TypeOK, HashInv, [Next]_vars, hash' # hash,
         NEW q \in Request, request'[q] # request[q]
  PROVE  request[q].hash = hash
<1>1. ASSUME NEW r \in Request, UpgradePasswordHash(r) PROVE request[q].hash = hash
  <2>1. SameHash(r)
    BY <1>1 DEF UpgradePasswordHash
  <2>2. request' = [request EXCEPT ![r].hash = hash']
    BY <1>1, <2>1 DEF UpgradePasswordHash
  <2>3. q = r
    BY <2>2 DEF TypeOK
  <2>4. QED
    BY <2>1, <2>3 DEF SameHash, HashInv
<1>2. ASSUME NEW r \in Request, NEW p \in Password, ChangePasswordHash(r, p)
      PROVE  request[q].hash = hash
  <2>1. SameHash(r) /\ Return(r)
    BY <1>2 DEF ChangePasswordHash, credential
  <2>2. q = r
    BY <2>1 DEF Return, TypeOK
  <2>3. QED
    BY <2>1, <2>2 DEF SameHash, HashInv
<1>3. \/ \E r \in Request : UpgradePasswordHash(r)
      \/ \E r \in Request, p \in Password : ChangePasswordHash(r, p)
  BY DEF Next, Login, Authorized, FindAuthCredential, RecordFailedLogin, ResetLoginAttempts,
         CreateSession, FindSession, RotateSession, CreateAPIKey, Revoke, ReadCurrentPassword,
         HookFails, Leave, SetPasswordHash, ResetPasswordWithToken, CreateAuthCredential,
         Logout, RequestPasswordReset, ForceUnlockAuth, Trash, Restore, DeleteDocumentState,
         PruneExpiredAuth, Tick, vars, credential
<1>4. QED
  BY <1>1, <1>2, <1>3

\* An upgrade or a change of the password replaces the hash that it compared
\* and no other, so none restores a password that was replaced meanwhile.
THEOREM ReplacedPasswordStays == Spec => NoReplacementIsOverwritten
<1> DEFINE Goal == hash # NoHash /\ hash' # NoHash /\ hash' # hash =>
                     /\ \A r \in Request : request'[r] # request[r] => request[r].hash = hash
                     /\ hash'.epoch >= hash.epoch
<1>1. AccessInv /\ [Next]_vars => [Goal]_vars
  <2> SUFFICES ASSUME AccessInv, [Next]_vars, hash' # NoHash, hash' # hash
               PROVE  /\ \A r \in Request : request'[r] # request[r] => request[r].hash = hash
                      /\ hash'.epoch >= hash.epoch
    OBVIOUS
  <2>1. StoredHash
    BY HashMoves DEF AccessInv
  <2>2. hashes \in Nat /\ hash.epoch \in Nat /\ hash.epoch <= hashes
    BY AuthAssumption DEF AccessInv, TypeOK, Hash, HashInv
  <2>3. hash'.epoch >= hash.epoch
    BY <2>1, <2>2 DEF StoredHash
  <2>4. \A r \in Request : request'[r] # request[r] => request[r].hash = hash
    BY ReplacesWhatItHolds DEF AccessInv
  <2>5. QED
    BY <2>3, <2>4
<1>2. QED
  BY <1>1, AccessInit, AccessStep, PTL DEF Spec, NoReplacementIsOverwritten

-----------------------------------------------------------------------------
(* Lockouts.                                                                *)

\* A request began before now, and an account that exists has a password that
\* was set.
ClockInv ==
  /\ \A r \in Request : request[r].at <= now
  /\ account # "gone" => hash.epoch # 0

\* The start a request remembers is kept, forgotten, or the clock.
StartMoves == \A q \in Request : request'[q].at \in {request[q].at, 0, now}

\* The credential and the account keep the password, or a new one is set.
EpochMoves ==
  account' # "gone" =>
    (account # "gone" /\ hash'.epoch = hash.epoch) \/ hash'.epoch = hashes + 1

\* What a step may do to a lock in force.
LockKept ==
  lockedUntil > now /\ lockedUntil' # lockedUntil
    => hash'.epoch # hash.epoch \/ ForceUnlockAuth

\* A request that returns, or is answered, forgets when it began.
LEMMA AnswerStart ==
  ASSUME TypeOK, NEW r \in Request, Return(r) \/ \E n : Answer(r, n)
  PROVE  StartMoves
<1>1. CASE Return(r)
  BY <1>1 DEF Return, StartMoves, Idle, TypeOK
<1>2. ASSUME NEW n, Answer(r, n) PROVE StartMoves
  BY <1>2 DEF Answer, StartMoves, Idle, TypeOK
<1>3. QED
  BY <1>1, <1>2

\* A replacement of the password sets one never set before.
LEMMA ReplaceEpoch ==
  ASSUME TypeOK, HashInv, NEW p \in Password, Replace(p)
  PROVE  EpochMoves /\ LockKept
<1>1. hashes \in Nat /\ hash.epoch \in Nat /\ hash.epoch <= hashes
  BY AuthAssumption DEF TypeOK, Hash, HashInv
<1>2. hash'.epoch = hashes + 1
  BY DEF Replace
<1>3. QED
  BY <1>1, <1>2 DEF EpochMoves, LockKept

\* A lock in force ends in these ways only.
LEMMA LockMoves ==
  ASSUME TypeOK, HashInv, ClockInv, [Next]_vars
  PROVE  StartMoves /\ EpochMoves /\ LockKept /\ now' \in {now, now + 1}
<1> DEFINE Goal == StartMoves /\ EpochMoves /\ LockKept /\ now' \in {now, now + 1}
<1>1. ASSUME UNCHANGED <<hash, lockedUntil, account>> PROVE EpochMoves /\ LockKept
  BY <1>1, AuthAssumption DEF EpochMoves, LockKept
<1>2. ASSUME NEW r \in Request, NEW p \in Password, FindAuthCredential(r, p)
      PROVE  Goal
  <2>1. UNCHANGED <<hash, lockedUntil, account, now>>
    BY <1>2 DEF FindAuthCredential, credential
  <2>2. StartMoves
    BY <1>2 DEF FindAuthCredential, StartMoves, Idle, TypeOK
  <2>3. QED
    BY <1>1, <2>1, <2>2
<1>3. ASSUME NEW r \in Request, RecordFailedLogin(r) PROVE Goal
  \* The clock of the request is not ahead: a lock in force now was in force
  \* for it.
  <2>1. request[r].at <= now /\ request[r].at \in Nat /\ now \in Nat /\ lockedUntil \in Nat
    BY AuthAssumption DEF ClockInv, TypeOK, Req, Time
  <2>2. lockedUntil > now => lockedUntil' = lockedUntil
    BY <1>3, <2>1 DEF RecordFailedLogin, CountFailure
  <2>3. StartMoves
    BY <1>3, AnswerStart DEF RecordFailedLogin
  <2>4. hash' = hash /\ account' = account /\ now' = now
    BY <1>3 DEF RecordFailedLogin
  <2>5. QED
    BY <2>2, <2>3, <2>4 DEF EpochMoves, LockKept
<1>4. ASSUME NEW r \in Request, ResetLoginAttempts(r) PROVE Goal
  <2>1. request[r].at <= now /\ request[r].at \in Nat /\ now \in Nat /\ lockedUntil \in Nat
    BY AuthAssumption DEF ClockInv, TypeOK, Req, Time
  <2>2. lockedUntil > now => lockedUntil' = lockedUntil
    BY <1>4, <2>1 DEF ResetLoginAttempts, Unlocked
  <2>3. CASE Unlocked(request[r].at)
    <3>1. request' = [request EXCEPT ![r].phase = "admitted", ![r].guess = NoPassword]
      BY <1>4, <2>3 DEF ResetLoginAttempts
    <3>2. StartMoves
      BY <3>1 DEF StartMoves, TypeOK, Req
    <3>3. QED
      BY <1>4, <2>2, <3>2 DEF ResetLoginAttempts, EpochMoves, LockKept
  <2>4. CASE ~Unlocked(request[r].at)
    <3>1. StartMoves
      BY <1>4, <2>4, AnswerStart DEF ResetLoginAttempts
    <3>2. QED
      BY <1>4, <2>2, <3>1 DEF ResetLoginAttempts, EpochMoves, LockKept
  <2>5. QED
    BY <2>3, <2>4
<1>5. ASSUME NEW r \in Request, UpgradePasswordHash(r) PROVE Goal
  <2>1. CASE SameHash(r)
    <3>1. request[r] \in Req /\ request[r].hash \in Hash
      BY DEF TypeOK, Req
    <3>2. request[r].hash.epoch = hash.epoch
      BY <2>1 DEF SameHash, HashInv
    <3>3. hash'.epoch = hash.epoch
      BY <1>5, <2>1, <3>1, <3>2 DEF UpgradePasswordHash, Hash
    <3>4. StartMoves
      <4>1. request' = [request EXCEPT ![r].hash = hash']
        BY <1>5, <2>1 DEF UpgradePasswordHash
      <4>2. QED
        BY <3>1, <4>1 DEF StartMoves, TypeOK, Req
    <3>5. QED
      BY <1>5, <3>3, <3>4 DEF UpgradePasswordHash, EpochMoves, LockKept
  <2>2. CASE ~SameHash(r)
    <3>1. UNCHANGED <<hash, lockedUntil, account, now>> /\ Return(r)
      BY <1>5, <2>2 DEF UpgradePasswordHash
    <3>2. QED
      BY <1>1, <3>1, AnswerStart
  <2>3. QED
    BY <2>1, <2>2
<1>6. ASSUME NEW r \in Request,
             \/ CreateSession(r) \/ RotateSession(r) \/ CreateAPIKey(r)
             \/ Revoke(r) \/ HookFails(r) \/ Leave(r)
      PROVE  Goal
  <2>1. UNCHANGED <<hash, lockedUntil, account, now>>
    BY <1>6 DEF CreateSession, RotateSession, CreateAPIKey, Revoke, HookFails, Leave,
                credential
  <2>2. Return(r) \/ \E n : Answer(r, n)
    BY <1>6 DEF CreateSession, RotateSession, CreateAPIKey, Revoke, HookFails, Leave
  <2>3. QED
    BY <1>1, <2>1, <2>2, AnswerStart
<1>7. ASSUME NEW r \in Request, NEW does \in {"rotate", "mint", "change", "revoke"},
             FindSession(r, does)
      PROVE  Goal
  <2>1. UNCHANGED <<hash, lockedUntil, account, now>>
    BY <1>7 DEF FindSession, credential
  <2>2. StartMoves
    BY <1>7 DEF FindSession, StartMoves, Idle, TypeOK
  <2>3. QED
    BY <1>1, <2>1, <2>2
<1>8. ASSUME NEW r \in Request, NEW p \in Password, ReadCurrentPassword(r, p)
      PROVE  Goal
  <2>1. UNCHANGED <<hash, lockedUntil, account, now>>
    BY <1>8 DEF ReadCurrentPassword, credential
  <2>2. StartMoves
    BY <1>8 DEF ReadCurrentPassword, StartMoves, Idle, TypeOK
  <2>3. QED
    BY <1>1, <2>1, <2>2
<1>9. ASSUME NEW r \in Request, NEW p \in Password, ChangePasswordHash(r, p)
      PROVE  Goal
  <2>1. StartMoves /\ now' = now /\ account' = account
    BY <1>9, AnswerStart DEF ChangePasswordHash
  <2>2. Replace(p) \/ UNCHANGED credential
    BY <1>9 DEF ChangePasswordHash
  <2>3. QED
    BY <1>1, <2>1, <2>2, ReplaceEpoch DEF credential
<1>10. ASSUME NEW p \in Password,
              \/ SetPasswordHash(p) \/ ResetPasswordWithToken(p)
              \/ CreateAuthCredential(p)
       PROVE  Goal
  <2>1. Replace(p) /\ request' = request /\ now' = now
    BY <1>10 DEF SetPasswordHash, ResetPasswordWithToken, CreateAuthCredential
  <2>2. QED
    BY <2>1, ReplaceEpoch DEF StartMoves
<1>11. CASE \/ Logout \/ RequestPasswordReset \/ PruneExpiredAuth \/ Tick
            \/ UNCHANGED vars
  <2>1. UNCHANGED <<hash, lockedUntil, account, request>> /\ now' \in {now, now + 1}
    BY <1>11 DEF Logout, RequestPasswordReset, PruneExpiredAuth, Tick, vars, credential
  <2>2. QED
    BY <1>1, <2>1 DEF StartMoves
<1>12. CASE Trash \/ Restore \/ ForceUnlockAuth
  BY <1>12 DEF Trash, Restore, ForceUnlockAuth, Active, credential, StartMoves,
               EpochMoves, LockKept
<1>13. CASE DeleteDocumentState
  <2>1. hash.epoch # 0 /\ hash'.epoch = 0
    BY <1>13 DEF DeleteDocumentState, ClockInv, NoHash
  <2>2. QED
    BY <1>13, <2>1 DEF DeleteDocumentState, StartMoves, EpochMoves, LockKept
<1>14. QED
  BY <1>2, <1>3, <1>4, <1>5, <1>6, <1>7, <1>8, <1>9, <1>10, <1>11, <1>12, <1>13
     DEF Next, Login, Authorized

\* Time never runs back for a request.
LEMMA ClockStep == TypeOK /\ HashInv /\ ClockInv /\ [Next]_vars => ClockInv'
<1> SUFFICES ASSUME TypeOK, HashInv, ClockInv, [Next]_vars PROVE ClockInv'
  OBVIOUS
<1>1. StartMoves /\ EpochMoves /\ now' \in {now, now + 1}
  BY LockMoves
<1>2. now \in Nat /\ hashes \in Nat /\ \A r \in Request : request[r].at \in Nat
  BY AuthAssumption DEF TypeOK, Req, Time
<1>3. \A r \in Request : request'[r].at <= now'
  BY <1>1, <1>2 DEF StartMoves, ClockInv
<1>4. account' # "gone" => hash'.epoch # 0
  BY <1>1, <1>2 DEF EpochMoves, ClockInv
<1>5. QED
  BY <1>3, <1>4 DEF ClockInv

\* The invariant that the lockout and the rotations need, with its parts.
LEMMA ClockCorrect == Spec => [](AccessInv /\ ClockInv)
<1>1. Init => ClockInv
  BY DEF Init, ClockInv, Idle
<1>2. AccessInv => TypeOK /\ HashInv
  BY DEF AccessInv
<1>3. QED
  BY <1>1, <1>2, AccessInit, AccessStep, ClockStep, PTL DEF Spec

\* A lock in force is not lifted by a correct password, nor shortened or moved
\* by a failure, of any request, however long ago it read the account.
THEOREM LockSafety == Spec => LockHolds
<1>1. AccessInv /\ ClockInv /\ [Next]_vars
        => [lockedUntil > now /\ lockedUntil' # lockedUntil
              => hash'.epoch # hash.epoch \/ ForceUnlockAuth]_vars
  BY LockMoves DEF AccessInv, LockKept
<1>2. QED
  BY <1>1, ClockCorrect, PTL DEF Spec, LockHolds

-----------------------------------------------------------------------------
(* Rotations.                                                               *)

\* A rotation that is being answered has retired the token it presented: no
\* session is found under it again, and no other rotation presented it in time.
RotationInv ==
  /\ \A s, z \in sessions : s.token = z.token => s = z
  /\ \A r \in Request : In(r, "rotate", "answered") =>
       /\ request[r].session.token \in 1 .. issued
       /\ \A s \in sessions : s.token # request[r].session.token
  /\ RotationsAreSerial

\* The rotation of r that succeeds.
Rotates(r) == RotateSession(r) /\ Active /\ Rotatable(r) # {}

\* A slot that holds an answered rotation held it before, or rotates now.
LEMMA AnsweredMoves ==
  ASSUME TypeOK, [Next]_vars, NEW q \in Request,
         request'[q].does = "rotate", request'[q].phase = "answered"
  PROVE  \/ request'[q] = request[q]
         \/ Rotates(q) /\ request'[q].session = request[q].session
<1> DEFINE Goal == \/ request'[q] = request[q]
                   \/ Rotates(q) /\ request'[q].session = request[q].session
<1>1. ASSUME NEW r \in Request, Return(r) PROVE request'[q] = request[q]
  BY <1>1 DEF Return, Idle, TypeOK
<1>2. ASSUME NEW r \in Request, NEW n, Answer(r, n)
      PROVE  \/ request'[q] = request[q]
             \/ /\ q = r /\ request[r].does = "rotate"
                /\ request'[q].session = request[q].session
  BY <1>2 DEF Answer, Idle, TypeOK
<1>3. ASSUME NEW r \in Request, NEW p \in Password,
             FindAuthCredential(r, p) \/ ReadCurrentPassword(r, p)
      PROVE  Goal
  BY <1>3 DEF FindAuthCredential, ReadCurrentPassword, Idle, TypeOK
<1>4. ASSUME NEW r \in Request,
             RecordFailedLogin(r) \/ Revoke(r) \/ HookFails(r) \/ Leave(r)
      PROVE  Goal
  BY <1>1, <1>4 DEF RecordFailedLogin, Revoke, HookFails, Leave
<1>5. ASSUME NEW r \in Request, ResetLoginAttempts(r) PROVE Goal
  <2>1. CASE Unlocked(request[r].at)
    <3>1. request' = [request EXCEPT ![r].phase = "admitted", ![r].guess = NoPassword]
      BY <1>5, <2>1 DEF ResetLoginAttempts
    <3>2. q # r
      BY <3>1 DEF TypeOK, Req
    <3>3. QED
      BY <3>1, <3>2 DEF TypeOK
  <2>2. CASE ~Unlocked(request[r].at)
    BY <1>1, <1>5, <2>2 DEF ResetLoginAttempts
  <2>3. QED
    BY <2>1, <2>2
<1>6. ASSUME NEW r \in Request, UpgradePasswordHash(r) PROVE Goal
  <2>1. CASE SameHash(r)
    <3>1. request' = [request EXCEPT ![r].hash = hash'] /\ request[r].does = "login"
      BY <1>6, <2>1 DEF UpgradePasswordHash, In
    <3>2. q # r
      BY <3>1 DEF TypeOK, Req
    <3>3. QED
      BY <3>1, <3>2 DEF TypeOK
  <2>2. CASE ~SameHash(r)
    BY <1>1, <1>6, <2>2 DEF UpgradePasswordHash
  <2>3. QED
    BY <2>1, <2>2
<1>7. ASSUME NEW r \in Request, CreateSession(r) \/ CreateAPIKey(r) PROVE Goal
  BY <1>1, <1>2, <1>7 DEF CreateSession, CreateAPIKey, In
<1>8. ASSUME NEW r \in Request, RotateSession(r) PROVE Goal
  <2>1. CASE Active /\ Rotatable(r) # {}
    BY <1>2, <1>8, <2>1 DEF RotateSession, Rotates
  <2>2. CASE ~(Active /\ Rotatable(r) # {})
    BY <1>1, <1>8, <2>2 DEF RotateSession
  <2>3. QED
    BY <2>1, <2>2
<1>9. ASSUME NEW r \in Request, NEW does \in {"rotate", "mint", "change", "revoke"},
             FindSession(r, does)
      PROVE  Goal
  BY <1>9 DEF FindSession, Idle, TypeOK
<1>10. ASSUME NEW r \in Request, NEW p \in Password, ChangePasswordHash(r, p)
       PROVE  Goal
  BY <1>1, <1>10 DEF ChangePasswordHash
<1>11. CASE UNCHANGED request
  BY <1>11
<1>12. QED
  BY <1>3, <1>4, <1>5, <1>6, <1>7, <1>8, <1>9, <1>10, <1>11
     DEF Next, Login, Authorized, SetPasswordHash, ResetPasswordWithToken,
         CreateAuthCredential, Logout, RequestPasswordReset, ForceUnlockAuth, Trash,
         Restore, DeleteDocumentState, PruneExpiredAuth, Tick, vars

\* One session at most is rotated by a request: it leaves under the next token.
LEMMA RotateMoves ==
  ASSUME TypeOK, TokenInv, RotationInv, NEW r \in Request, Rotates(r)
  PROVE  \E z \in sessions :
           /\ z.token = request[r].session.token
           /\ issued' = issued + 1
           /\ sessions' = (sessions \ {z}) \cup {[z EXCEPT !.token = issued + 1]}
<1>1. PICK z \in Rotatable(r) : TRUE
  BY DEF Rotates
<1>2. z \in sessions /\ z.token = request[r].session.token
  BY <1>1 DEF Rotatable, Authorizing
<1>3. \A s \in sessions : s \in Rotatable(r) <=> s = z
  BY <1>1, <1>2 DEF Rotatable, Authorizing, RotationInv
<1>4. /\ issued' = issued + 1
      /\ sessions' = {IF s \in Rotatable(r) THEN [s EXCEPT !.token = issued + 1]
                      ELSE s : s \in sessions}
  BY DEF Rotates, RotateSession
<1>5. sessions' = (sessions \ {z}) \cup {[z EXCEPT !.token = issued + 1]}
  BY <1>2, <1>3, <1>4
<1>6. QED
  BY <1>2, <1>4, <1>5

\* Sessions of one token stay the same one: only a login and a rotation make a
\* session, under a token never issued before.
LEMMA TokensStayUnique ==
  ASSUME TypeOK, TokenInv, RotationInv, [Next]_vars
  PROVE  \A s, z \in sessions' : s.token = z.token => s = z
<1>1. issued \in Nat /\ \A s \in sessions : s \in Session /\ s.token # issued + 1
  BY AuthAssumption DEF TypeOK, TokenInv, Session
<1>2. CASE sessions' \subseteq sessions
  BY <1>2 DEF RotationInv
<1>3. ASSUME NEW r \in Request, CreateSession(r), ~(sessions' \subseteq sessions)
      PROVE  \A s, z \in sessions' : s.token = z.token => s = z
  <2>1. PICK n : sessions' = sessions \cup {n} /\ n.token = issued + 1
    BY <1>3 DEF CreateSession
  <2>2. QED
    BY <1>1, <2>1 DEF RotationInv
<1>4. ASSUME NEW r \in Request, RotateSession(r), ~(sessions' \subseteq sessions)
      PROVE  \A s, z \in sessions' : s.token = z.token => s = z
  <2>1. Rotates(r)
    BY <1>4 DEF RotateSession, Rotates
  <2>2. PICK n \in sessions :
          sessions' = (sessions \ {n}) \cup {[n EXCEPT !.token = issued + 1]}
    BY <2>1, RotateMoves
  <2>3. [n EXCEPT !.token = issued + 1].token = issued + 1
    BY <1>1 DEF Session
  <2>4. QED
    BY <1>1, <2>2, <2>3 DEF RotationInv
<1>5. QED
  BY <1>2, <1>3, <1>4
     DEF Next, Login, Authorized, FindAuthCredential, RecordFailedLogin,
         ResetLoginAttempts, UpgradePasswordHash, FindSession, CreateAPIKey, Revoke,
         ReadCurrentPassword, ChangePasswordHash, HookFails, Leave, Replace,
         SetPasswordHash, ResetPasswordWithToken, CreateAuthCredential, Logout,
         RequestPasswordReset, ForceUnlockAuth, Trash, Restore, DeleteDocumentState,
         PruneExpiredAuth, Tick, vars

\* Of the rotations of one token one succeeds, whatever comes in between.
LEMMA RotationStep == AccessInv /\ RotationInv /\ [Next]_vars => RotationInv'
<1> SUFFICES ASSUME AccessInv, RotationInv, [Next]_vars PROVE RotationInv'
  OBVIOUS
<1>1. TypeOK /\ HashInv /\ TokenInv /\ SessionsOfCurrentPassword
  BY DEF AccessInv
<1>2. issued \in Nat /\ \A s \in sessions : s \in Session /\ s.token \in 1 .. issued
  BY <1>1, AuthAssumption DEF TypeOK, TokenInv
<1>3. SessionMoves
  BY <1>1, AccessMoves
<1>4. ASSUME NEW q \in Request, request'[q].does = "rotate",
             request'[q].phase = "answered"
      PROVE  /\ request'[q].session.token \in 1 .. issued'
             /\ \A s \in sessions' : s.token # request'[q].session.token
  <2>1. CASE request'[q] = request[q]
    BY <1>2, <1>3, <1>4, <2>1 DEF RotationInv, In, SessionMoves
  <2>2. CASE Rotates(q) /\ request'[q].session = request[q].session
    <3>1. PICK z \in sessions :
            /\ z.token = request[q].session.token /\ issued' = issued + 1
            /\ sessions' = (sessions \ {z}) \cup {[z EXCEPT !.token = issued + 1]}
      BY <1>1, <2>2, RotateMoves
    <3>2. [z EXCEPT !.token = issued + 1].token = issued + 1
      BY <1>2 DEF Session
    <3>3. \A s \in sessions \ {z} : s.token # z.token
      BY DEF RotationInv
    <3>4. /\ z.token \in 1 .. issued' /\ z.token # issued + 1
          /\ request'[q].session.token = z.token
      BY <1>2, <2>2, <3>1
    <3>5. \A s \in sessions' : s.token # z.token
      BY <3>1, <3>2, <3>3, <3>4
    <3>6. QED
      BY <3>4, <3>5
  <2>3. QED
    BY <1>1, <1>4, <2>1, <2>2, AnsweredMoves
<1>5. ASSUME NEW r \in Request, NEW q \in Request, r # q,
             request'[r].does = "rotate", request'[r].phase = "answered",
             request'[q].does = "rotate", request'[q].phase = "answered",
             request'[r].session.token = request'[q].session.token
      PROVE  FALSE
  <2>1. \A x \in Request, y \in Request : x # y /\ Rotates(x)
          => request'[y] = request[y]
    <3> SUFFICES ASSUME NEW x \in Request, NEW y \in Request, x # y, Rotates(x)
                 PROVE  request'[y] = request[y]
      OBVIOUS
    <3>1. \E n : Answer(x, n)
      BY DEF Rotates, RotateSession
    <3>2. QED
      BY <1>1, <3>1 DEF Answer, TypeOK
  \* A rotation finds the token in a session, which no answered rotation has.
  <2>2. ASSUME NEW x \in Request, NEW y \in Request, x # y, Rotates(x),
               request[y].does = "rotate", request[y].phase = "answered",
               request[x].session.token = request[y].session.token
        PROVE  FALSE
    <3>1. \E z \in sessions : z.token = request[x].session.token
      BY <1>1, <2>2, RotateMoves
    <3>2. QED
      BY <2>2, <3>1 DEF RotationInv, In
  <2>3. CASE Rotates(r)
    <3>1. request'[q] = request[q]
      BY <1>5, <2>1, <2>3
    <3>2. request'[r].session = request[r].session
      BY <1>1, <1>5, AnsweredMoves
    <3>3. QED
      BY <1>5, <2>2, <2>3, <3>1, <3>2
  <2>4. CASE Rotates(q)
    <3>1. request'[r] = request[r]
      BY <1>5, <2>1, <2>4
    <3>2. request'[q].session = request[q].session
      BY <1>1, <1>5, AnsweredMoves
    <3>3. QED
      BY <1>5, <2>2, <2>4, <3>1, <3>2
  <2>5. CASE ~Rotates(r) /\ ~Rotates(q)
    <3>1. request'[r] = request[r] /\ request'[q] = request[q]
      BY <1>1, <1>5, <2>5, AnsweredMoves
    <3>2. QED
      BY <1>5, <3>1 DEF RotationInv, RotationsAreSerial, In
  <2>6. QED
    BY <2>3, <2>4, <2>5
<1>6. \A s, z \in sessions' : s.token = z.token => s = z
  BY <1>1, TokensStayUnique
<1>7. QED
  BY <1>4, <1>5, <1>6 DEF RotationInv, RotationsAreSerial, In

\* Of the requests that present one token one at most is answered with a new
\* one, for any number of requests.
THEOREM RotationSafety == Spec => []RotationsAreSerial
<1>1. Init => RotationInv
  BY DEF Init, RotationInv, RotationsAreSerial, In, Idle
<1>2. RotationInv => RotationsAreSerial
  BY DEF RotationInv
<1>3. QED
  BY <1>1, <1>2, AccessInit, AccessStep, RotationStep, PTL DEF Spec

-----------------------------------------------------------------------------
(* Trashed accounts.                                                        *)

\* A step from a trashed account adds no key, and no session but the rotated
\* one of an account that is active.
LEMMA TrashedMoves ==
  ASSUME account = "trashed", [Next]_vars
  PROVE  sessions' \subseteq sessions /\ keys' \subseteq keys
<1>1. ~Active /\ account # "gone"
  BY DEF Active
<1>2. ASSUME NEW r \in Request,
             \/ CreateSession(r) \/ RotateSession(r) \/ CreateAPIKey(r) \/ Revoke(r)
             \/ HookFails(r) \/ Leave(r)
      PROVE  sessions' \subseteq sessions /\ keys' \subseteq keys
  BY <1>1, <1>2 DEF CreateSession, RotateSession, CreateAPIKey, MayMint, Revoke,
                    HookFails, Leave
<1>3. ASSUME NEW p \in Password, Replace(p)
      PROVE  sessions' \subseteq sessions /\ keys' \subseteq keys
  BY <1>3 DEF Replace
<1>4. QED
  BY <1>2, <1>3
     DEF Next, Login, Authorized, FindAuthCredential, RecordFailedLogin,
         ResetLoginAttempts, UpgradePasswordHash, FindSession, ReadCurrentPassword,
         ChangePasswordHash, SetPasswordHash, ResetPasswordWithToken,
         CreateAuthCredential, Logout, RequestPasswordReset, ForceUnlockAuth, Trash,
         Restore, DeleteDocumentState, PruneExpiredAuth, Tick, vars

\* No request under way leaves a new session or key of a trashed account.
THEOREM TrashedStaysClosed == Spec => NothingNewForTrashed
<1>1. [Next]_vars =>
        [account = "trashed"
           => {s.id : s \in sessions'} \subseteq {s.id : s \in sessions}
              /\ keys' \subseteq keys]_vars
  BY TrashedMoves
<1>2. QED
  BY <1>1, PTL DEF Spec, NothingNewForTrashed
=============================================================================
