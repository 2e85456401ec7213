---------------------------- MODULE AuthSessions ----------------------------
(***************************************************************************)
(* The credentials of one account: its password hash and lockout, the      *)
(* sessions and API keys that rest on the password, and the requests that  *)
(* create, replace and revoke them (core/auth.go over the auth store of    *)
(* adapters/sqlite/auth.go).                                               *)
(*                                                                          *)
(* A request reads the store, compares bcrypt hashes, runs hooks and then   *)
(* calls the store again; every store call is one step, with the clock the  *)
(* request read when it began.  Accounts share no rows, so one is modelled. *)
(***************************************************************************)
EXTENDS Integers, FiniteSets

CONSTANTS
  Request, Password, NoPassword,
  MaxLoginAttempts, LockDuration, SessionDuration, ResetDuration,
  MaxHashes,   \* bound: password hashes computed
  MaxIssued,   \* bound: session tokens and API keys issued
  MaxTime      \* bound: the clock

ASSUME AuthAssumption ==
  /\ MaxLoginAttempts \in Nat \ {0}
  /\ {LockDuration, SessionDuration, ResetDuration} \subseteq Nat \ {0}
  /\ MaxHashes \in Nat \ {0} /\ {MaxIssued, MaxTime} \subseteq Nat
  /\ NoPassword \notin Password

VARIABLES
  now,          \* the clock
  account,      \* the auth document: "active", "trashed" or "gone"
  hash,         \* the password hash of its credential
  failed,       \* failed_login_attempts
  lockedUntil,  \* locked_until, 0 for NULL
  sessions, keys,
  resetUntil,   \* the expiry of the outstanding password-reset token, 0 for none
  hashes,       \* hashes computed so far: bcrypt salts each one
  issued,       \* session tokens and API keys issued so far
  request       \* the request in each slot

credential == <<hash, hashes, failed, lockedUntil>>
vars == <<now, account, credential, sessions, keys, resetUntil, issued, request>>

-----------------------------------------------------------------------------

Time == 0 .. MaxTime

\* epoch is history: the hash with which this password was set.  An upgrade
\* makes a new hash of the same password.
Hash == [salt : 0 .. MaxHashes, password : Password \cup {NoPassword},
         epoch : 0 .. MaxHashes, strong : BOOLEAN]

NoHash == [salt |-> 0, password |-> NoPassword, epoch |-> 0, strong |-> FALSE]

\* epoch is history: that of the password the session was opened with.
Session == [id : 0 .. MaxIssued, token : 0 .. MaxIssued, epoch : 0 .. MaxHashes,
            expires : 0 .. MaxTime + SessionDuration]

NoSession == [id |-> 0, token |-> 0, epoch |-> 0, expires |-> 0]

APIKey == [id : 1 .. MaxIssued, epoch : 0 .. MaxHashes]

\* at: time.Now() when the request began; hash, locked and session: what it
\* read; issued: the token or key it made.
Req == [does : {"nothing", "login", "rotate", "mint", "change", "revoke"},
        phase : {"idle", "read", "admitted", "answered"},
        at : Time, guess : Password \cup {NoPassword}, hash : Hash,
        locked : BOOLEAN, session : Session, issued : 0 .. MaxIssued]

Idle == [does |-> "nothing", phase |-> "idle", at |-> 0, guess |-> NoPassword,
         hash |-> NoHash, locked |-> FALSE, session |-> NoSession, issued |-> 0]

\* The account exists, with a hash of the configured cost or of a lower one,
\* configured before.
Init ==
  /\ now = 0
  /\ account = "active"
  /\ \E p \in Password, strong \in BOOLEAN :
       hash = [salt |-> 1, password |-> p, epoch |-> 1, strong |-> strong]
  /\ hashes = 1
  /\ failed = 0 /\ lockedUntil = 0
  /\ sessions = {} /\ keys = {}
  /\ resetUntil = 0
  /\ issued = 0
  /\ request = [r \in Request |-> Idle]

In(r, does, phase) == request[r].does = does /\ request[r].phase = phase

\* What r made is stored; its hooks and its answer are left.
Answer(r, made) ==
  request' = [request EXCEPT ![r] =
    [Idle EXCEPT !.does = request[r].does, !.phase = "answered",
                 !.session = IF request[r].does = "rotate"
                             THEN request[r].session ELSE NoSession,
                 !.issued = made]]

\* The request returns.
Return(r) == request' = [request EXCEPT ![r] = Idle]

\* The session a request authenticated with is still there under its token.
Authorizing(r) ==
  {s \in sessions : s.token = request[r].session.token
                    /\ s.expires > request[r].at}

-----------------------------------------------------------------------------
(* Login.                                                                   *)

\* FindAuthCredential; the comparison with the hash it read follows.  Of a
\* password that will not match only the failure is recorded.
FindAuthCredential(r, p) ==
  /\ In(r, "nothing", "idle")
  /\ account = "active"
  /\ request' = [request EXCEPT ![r] =
       [Idle EXCEPT !.does = "login", !.phase = "read", !.at = now, !.guess = p,
                    !.hash = IF p = hash.password THEN hash ELSE NoHash,
                    !.locked = (p = hash.password /\ lockedUntil > now)]]
  /\ UNCHANGED <<now, account, credential, sessions, keys, resetUntil, issued>>

CountFailure(at) ==
  IF lockedUntil > at
  THEN UNCHANGED <<failed, lockedUntil>>
  ELSE /\ failed' = IF lockedUntil # 0 THEN 1 ELSE failed + 1
       /\ lockedUntil' = IF failed' >= MaxLoginAttempts THEN at + LockDuration
                         ELSE 0

\* The password does not match.
RecordFailedLogin(r) ==
  /\ In(r, "login", "read")
  /\ request[r].guess # request[r].hash.password
  /\ IF account # "gone" THEN CountFailure(request[r].at)
     ELSE UNCHANGED <<failed, lockedUntil>>
  /\ Return(r)
  /\ UNCHANGED <<now, account, hash, hashes, sessions, keys, resetUntil, issued>>

\* Mutant of Unlocked: a correct password lifts the lock.
UnlockedAlways(at) == account # "gone"

Unlocked(at) == account # "gone" /\ (lockedUntil = 0 \/ lockedUntil <= at)

\* The password matches and the account was not locked when it was read.
ResetLoginAttempts(r) ==
  /\ In(r, "login", "read")
  /\ request[r].guess = request[r].hash.password
  /\ ~request[r].locked
  /\ IF Unlocked(request[r].at)
     THEN /\ failed' = 0 /\ lockedUntil' = 0
          /\ request' = [request EXCEPT ![r].phase = "admitted",
                                        ![r].guess = NoPassword]
     ELSE Return(r) /\ UNCHANGED <<failed, lockedUntil>>
  /\ UNCHANGED <<now, account, hash, hashes, sessions, keys, resetUntil, issued>>

\* Mutant of SameHash: any credential will do.
AnyHash(r) == hash # NoHash

\* The exact hash the request verified is still the stored one.
SameHash(r) == hash.salt = request[r].hash.salt

\* A hash of a lower cost than the configured one is replaced.
UpgradePasswordHash(r) ==
  /\ In(r, "login", "admitted")
  /\ ~request[r].hash.strong
  /\ hashes < MaxHashes
  /\ IF SameHash(r)
     THEN /\ hashes' = hashes + 1
          /\ hash' = [request[r].hash EXCEPT !.salt = hashes + 1, !.strong = TRUE]
          /\ request' = [request EXCEPT ![r].hash = hash']
     ELSE Return(r) /\ UNCHANGED <<hash, hashes>>
  /\ UNCHANGED <<now, account, failed, lockedUntil, sessions, keys, resetUntil,
                 issued>>

\* Mutant of Active: a trashed account passes.
Present == account # "gone"

\* loadActiveAuthDocument.
Active == account = "active"

CreateSession(r) ==
  /\ In(r, "login", "admitted")
  /\ request[r].hash.strong
  /\ issued < MaxIssued
  /\ IF Active /\ SameHash(r)
     THEN LET s == [id |-> issued + 1, token |-> issued + 1,
                    epoch |-> request[r].hash.epoch,
                    expires |-> request[r].at + SessionDuration]
          IN /\ sessions' = sessions \cup {s}
             /\ issued' = issued + 1
             /\ Answer(r, s.token)
     ELSE Return(r) /\ UNCHANGED <<sessions, issued>>
  /\ UNCHANGED <<now, account, credential, keys, resetUntil>>

-----------------------------------------------------------------------------
(* Requests that a session authorizes.                                      *)

\* FindSession and the reload of its owner; a change of the password and a
\* revocation use only the owner.
FindSession(r, does) ==
  /\ In(r, "nothing", "idle")
  /\ account = "active"
  /\ \E s \in sessions :
       /\ s.expires > now
       /\ request' = [request EXCEPT ![r] =
            IF does \in {"change", "revoke"}
            THEN [Idle EXCEPT !.does = does, !.phase = "read"]
            ELSE [Idle EXCEPT !.does = does, !.phase = "read", !.at = now,
                              !.session = s]]
  /\ UNCHANGED <<now, account, credential, sessions, keys, resetUntil, issued>>

\* Mutant of Rotatable: the session is found by its id.
RotatableById(r) == {s \in sessions : s.id = request[r].session.id}

Rotatable(r) == Authorizing(r)

RotateSession(r) ==
  /\ In(r, "rotate", "read")
  /\ issued < MaxIssued
  /\ IF Active /\ Rotatable(r) # {}
     THEN /\ sessions' = {IF s \in Rotatable(r) THEN [s EXCEPT !.token = issued + 1]
                          ELSE s : s \in sessions}
          /\ issued' = issued + 1
          /\ Answer(r, issued + 1)
     ELSE Return(r) /\ UNCHANGED <<sessions, issued>>
  /\ UNCHANGED <<now, account, credential, keys, resetUntil>>

\* Mutant of MayMint: the session is not looked up again.
MayMintOnce(r) == Active

MayMint(r) == Active /\ Authorizing(r) # {}

CreateAPIKey(r) ==
  /\ In(r, "mint", "read")
  /\ issued < MaxIssued
  /\ IF MayMint(r)
     THEN /\ keys' = keys \cup {[id |-> issued + 1, epoch |-> request[r].session.epoch]}
          /\ issued' = issued + 1
          /\ Answer(r, issued + 1)
     ELSE Return(r) /\ UNCHANGED <<keys, issued>>
  /\ UNCHANGED <<now, account, credential, sessions, resetUntil>>

\* RevokeSession, LogoutAll and RevokeAPIKey act for the session's owner,
\* whether or not the session is still there.
Revoke(r) ==
  /\ In(r, "revoke", "read")
  /\ \/ \E id \in 1 .. MaxIssued :
          sessions' = {s \in sessions : s.id # id} /\ UNCHANGED keys
     \/ sessions' = {} /\ UNCHANGED keys
     \/ \E id \in 1 .. MaxIssued :
          keys' = {k \in keys : k.id # id} /\ UNCHANGED sessions
  /\ Return(r)
  /\ UNCHANGED <<now, account, credential, resetUntil, issued>>

\* A hook after a login, a rotation or the creation of a key fails: what was
\* made is deleted.
HookFails(r) ==
  /\ request[r].phase = "answered"
  /\ sessions' = {s \in sessions : s.token # request[r].issued}
  /\ keys' = {k \in keys : k.id # request[r].issued}
  /\ Return(r)
  /\ UNCHANGED <<now, account, credential, resetUntil, issued>>

\* The request is answered; or an access rule or a hook refuses it, the
\* comparison fails, the client leaves or the process stops in between.
Leave(r) ==
  /\ request[r].phase # "idle"
  /\ Return(r)
  /\ UNCHANGED <<now, account, credential, sessions, keys, resetUntil, issued>>

Logout ==
  /\ \E s \in sessions : sessions' = sessions \ {s}
  /\ UNCHANGED <<now, account, credential, keys, resetUntil, issued, request>>

-----------------------------------------------------------------------------
(* Password replacement.                                                    *)

\* Every replacement clears the lockout and revokes every session and key.
Replace(p) ==
  /\ hashes < MaxHashes
  /\ hashes' = hashes + 1
  /\ hash' = [salt |-> hashes + 1, password |-> p, epoch |-> hashes + 1,
              strong |-> TRUE]
  /\ failed' = 0 /\ lockedUntil' = 0
  /\ sessions' = {} /\ keys' = {}

\* ChangePassword reads the credential after its session; the current
\* password matches.
ReadCurrentPassword(r, p) ==
  /\ In(r, "change", "read")
  /\ account = "active"
  /\ hash.password = p
  /\ request' = [request EXCEPT ![r] =
       [Idle EXCEPT !.does = "change", !.phase = "admitted", !.hash = hash]]
  /\ UNCHANGED <<now, account, credential, sessions, keys, resetUntil, issued>>

\* Mutant of ChangePasswordHash: without AND password_hash = ?.
ChangeAnyPasswordHash(r, p) ==
  /\ In(r, "change", "admitted")
  /\ IF Active THEN Replace(p) ELSE UNCHANGED <<credential, sessions, keys>>
  /\ Return(r)
  /\ UNCHANGED <<now, account, resetUntil, issued>>

ChangePasswordHash(r, p) ==
  /\ In(r, "change", "admitted")
  /\ IF Active /\ SameHash(r) THEN Replace(p)
     ELSE UNCHANGED <<credential, sessions, keys>>
  /\ Return(r)
  /\ UNCHANGED <<now, account, resetUntil, issued>>

SetPasswordHash(p) ==
  /\ Active
  /\ Replace(p)
  /\ UNCHANGED <<now, account, resetUntil, issued, request>>

\* A new reset token replaces the outstanding one.
RequestPasswordReset ==
  /\ Active
  /\ now + ResetDuration <= MaxTime  \* bound: its expiry is within the clock's
  /\ resetUntil' = now + ResetDuration
  /\ UNCHANGED <<now, account, credential, sessions, keys, issued, request>>

ResetPasswordWithToken(p) ==
  /\ resetUntil > now
  /\ Replace(p)
  /\ resetUntil' = 0
  /\ UNCHANGED <<now, account, issued, request>>

ForceUnlockAuth ==
  /\ Active
  /\ failed' = 0 /\ lockedUntil' = 0
  /\ UNCHANGED <<now, account, hash, hashes, sessions, keys, resetUntil, issued,
                 request>>

-----------------------------------------------------------------------------
(* The account's document.                                                  *)

Trash ==
  /\ account = "active"
  /\ account' = "trashed"
  /\ UNCHANGED <<now, credential, sessions, keys, resetUntil, issued, request>>

Restore ==
  /\ account = "trashed"
  /\ account' = "active"
  /\ UNCHANGED <<now, credential, sessions, keys, resetUntil, issued, request>>

DeleteDocumentState ==
  /\ account # "gone"
  /\ account' = "gone"
  /\ hash' = NoHash
  /\ failed' = 0 /\ lockedUntil' = 0
  /\ sessions' = {} /\ keys' = {} /\ resetUntil' = 0
  /\ UNCHANGED <<now, hashes, issued, request>>

\* An account is created under the deleted one's identity and id.
CreateAuthCredential(p) ==
  /\ account = "gone"
  /\ account' = "active"
  /\ Replace(p)
  /\ UNCHANGED <<now, resetUntil, issued, request>>

-----------------------------------------------------------------------------

PruneExpiredAuth ==
  /\ sessions' = {s \in sessions : s.expires > now}
  /\ sessions' # sessions
  /\ UNCHANGED <<now, account, credential, keys, resetUntil, issued, request>>

Tick ==
  /\ now < MaxTime
  /\ now' = now + 1
  /\ UNCHANGED <<account, credential, sessions, keys, resetUntil, issued, request>>

Login(r) ==
  \/ \E p \in Password : FindAuthCredential(r, p)
  \/ RecordFailedLogin(r) \/ ResetLoginAttempts(r)
  \/ UpgradePasswordHash(r) \/ CreateSession(r)

Authorized(r) ==
  \/ \E does \in {"rotate", "mint", "change", "revoke"} : FindSession(r, does)
  \/ RotateSession(r) \/ CreateAPIKey(r) \/ Revoke(r)
  \/ \E p \in Password : ReadCurrentPassword(r, p) \/ ChangePasswordHash(r, p)

Next ==
  \/ \E r \in Request : Login(r) \/ Authorized(r) \/ HookFails(r) \/ Leave(r)
  \/ \E p \in Password :
       SetPasswordHash(p) \/ ResetPasswordWithToken(p) \/ CreateAuthCredential(p)
  \/ Logout \/ RequestPasswordReset \/ ForceUnlockAuth
  \/ Trash \/ Restore \/ DeleteDocumentState
  \/ PruneExpiredAuth \/ Tick

Spec == Init /\ [][Next]_vars

-----------------------------------------------------------------------------
(* Properties.                                                              *)

\* The rows and the requests have their types; an account never counts more
\* failures than lock it.
TypeOK ==
  /\ now \in Time
  /\ account \in {"active", "trashed", "gone"}
  /\ hash \in Hash /\ hashes \in 0 .. MaxHashes
  /\ failed \in 0 .. MaxLoginAttempts
  /\ lockedUntil \in 0 .. MaxTime + LockDuration
  /\ sessions \subseteq Session
  /\ keys \subseteq APIKey
  /\ resetUntil \in 0 .. MaxTime + ResetDuration
  /\ issued \in 0 .. MaxIssued
  /\ request \in [Request -> Req]

\* CreateSession "atomically verifies the exact password hash observed": a
\* login that was under way when the password was replaced, or the account
\* deleted and made anew, leaves no session; nor does a rotation.
SessionsOfCurrentPassword == \A s \in sessions : s.epoch = hash.epoch

\* CreateAPIKey: password replacement "cannot leave a late-created key behind".
KeysOfCurrentPassword == \A k \in keys : k.epoch = hash.epoch

\* ChangePasswordHash and UpgradePasswordHash: a slow upgrade or change of the
\* password never overwrites a replacement or an upgrade that came in between.
\* The hash that a request replaces is the one it compared, so that of several
\* that compared one hash the first alone replaces it; and the password of an
\* account is never one set earlier.
NoReplacementIsOverwritten ==
  [][hash # NoHash /\ hash' # NoHash /\ hash' # hash =>
       /\ \A r \in Request : request'[r] # request[r] => request[r].hash = hash
       /\ hash'.epoch >= hash.epoch]_vars

\* A lock in force ends by its expiry, a replacement of the password, the
\* deletion of the account or ForceUnlock: never by a correct password, even
\* of a login that read the account before it was locked.
LockHolds ==
  [][lockedUntil > now /\ lockedUntil' # lockedUntil
       => hash'.epoch # hash.epoch \/ ForceUnlockAuth]_vars

\* RotateSession: of the requests that present one token, one is answered with
\* a new one; the others would invalidate the answer of the first.
RotationsAreSerial ==
  \A r, q \in Request :
    /\ In(r, "rotate", "answered") /\ In(q, "rotate", "answered")
    /\ request[r].session.token = request[q].session.token
    => r = q

\* No login or key creation under way leaves a new session or key once the
\* account is trashed.
NothingNewForTrashed ==
  [][account = "trashed"
       => {s.id : s \in sessions'} \subseteq {s.id : s \in sessions}
          /\ keys' \subseteq keys]_vars
=============================================================================
