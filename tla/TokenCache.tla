----------------------------- MODULE TokenCache -----------------------------
(***************************************************************************)
(* The KIS access token that all processes share through Redis             *)
(* (app/services/kis/auth_service.py) and the distributed lock that keeps  *)
(* them from issuing it twice (app/utils/distributed_lock.py).             *)
(*                                                                         *)
(* Keys with a TTL carry the time they have left; a Tick takes one unit    *)
(* from each.  MaxHold bounds the time a process spends under the lock: the *)
(* code claims it is far below the TTL.                                    *)
(***************************************************************************)
EXTENDS Naturals

CONSTANTS
  Procs,       \* API process and workers
  Creds,       \* app key and secret before and after a rotation
  LockTTL,     \* LOCK_TTL_SECONDS
  MaxHold,     \* the longest time between acquire_lock and release_lock
  Life,        \* of a token, from its issue
  Buffer,      \* EXPIRY_BUFFER_SECONDS
  Retries      \* LOCK_RETRY_COUNT

ASSUME LockAssumption == LockTTL \in Nat /\ MaxHold \in Nat /\ MaxHold < LockTTL
ASSUME TokenAssumption ==
  /\ Life \in Nat /\ Buffer \in Nat /\ Buffer < Life
  /\ Retries \in Nat \ {0}
  /\ Creds # {} /\ "none" \notin Creds /\ "corrupt" \notin Creds

VARIABLES
  lockLeft,    \* kis:access_token:lock: time to live, 0 when it does not exist
  cache,       \* kis:access_token: whose token, and the time it has left
  cred,        \* the credentials each process was started with
  req,         \* the call of get_valid_access_token each process is in
  got          \* whose token the last call returned, none if it has not

tokenVars == <<lockLeft, cache, cred, req, got>>

Empty == [cred |-> "none", left |-> 0]
CallAt(pc, force, tries) == [pc |-> pc, force |-> force, held |-> 0, tries |-> tries]
NoCall == CallAt("idle", FALSE, 0)
UnderLock == {"check", "issue", "release"}
Holders == {p \in Procs : req[p].pc \in UnderLock}

TokenTypeOK ==
  /\ lockLeft \in 0..LockTTL
  /\ cache \in [cred: Creds \cup {"none", "corrupt"}, left: 0..Life]
  /\ cred \in [Procs -> Creds]
  /\ req \in [Procs -> [pc: {"idle", "lock", "wait"} \cup UnderLock, force: BOOLEAN,
                        held: 0..MaxHold, tries: 0..Retries]]
  /\ got \in [Procs -> Creds \cup {"none"}]

TokenInit ==
  /\ lockLeft = 0
  /\ cache = Empty
  /\ cred = [p \in Procs |-> CHOOSE c \in Creds : TRUE]
  /\ req = [p \in Procs |-> NoCall]
  /\ got = [p \in Procs |-> "none"]

-----------------------------------------------------------------------------
Ages(left) == IF left > 0 THEN left - 1 ELSE 0

Tick ==
  /\ \A p \in Holders : req[p].held < MaxHold
  /\ lockLeft' = Ages(lockLeft)
  /\ cache' = IF cache.left > 1 THEN [cache EXCEPT !.left = @ - 1] ELSE Empty
  /\ req' = [p \in Procs |-> IF p \in Holders THEN [req[p] EXCEPT !.held = @ + 1] ELSE req[p]]
  /\ UNCHANGED <<cred, got>>

\* _get_cached_token_payload: a payload that cannot be parsed is deleted.
Payload == IF cache.cred = "corrupt" THEN Empty ELSE cache

\* _validate_fingerprint
FingerprintMatches(p) == Payload.cred = cred[p]
\* _is_expired_or_expiring
Expiring == Payload.left <= Buffer

Valid(p) == Payload # Empty /\ FingerprintMatches(p) /\ ~Expiring

\* The call of p ends with the cached token, or with an error.
Returns(p, owner) ==
  /\ req' = [req EXCEPT ![p] = NoCall]
  /\ got' = [got EXCEPT ![p] = owner]

\* get_valid_access_token: the cached token if it is valid, else try the lock.
Call(p, force) ==
  /\ req[p].pc = "idle"
  /\ IF ~force /\ Valid(p)
     THEN Returns(p, Payload.cred)
     ELSE /\ req' = [req EXCEPT ![p] = CallAt("lock", force, 0)]
          /\ got' = [got EXCEPT ![p] = "none"]
  /\ cache' = IF force THEN cache ELSE Payload
  /\ UNCHANGED <<lockLeft, cred>>

\* Mutant: SET without NX.
AlwaysFree == TRUE

LockFree == lockLeft = 0

acquire_lock(p) ==
  /\ req[p].pc = "lock" /\ LockFree
  /\ lockLeft' = LockTTL
  /\ req' = [req EXCEPT ![p].pc = "check"]
  /\ UNCHANGED <<cache, cred, got>>

\* LockAcquisitionError: somebody else is issuing a token.
StartWaiting(p) ==
  /\ req[p].pc = "lock" /\ ~LockFree
  /\ req' = [req EXCEPT ![p] = CallAt("wait", req[p].force, Retries)]
  /\ UNCHANGED <<lockLeft, cache, cred, got>>

\* Mutant: no second look at the cache.
NoDoubleCheck(p) == FALSE

FoundUnderLock(p) == ~req[p].force /\ Valid(p)

\* The second look at the cache, under the lock
DoubleCheck(p) ==
  /\ req[p].pc = "check"
  /\ IF FoundUnderLock(p)
     THEN /\ req' = [req EXCEPT ![p].pc = "release"]
          /\ got' = [got EXCEPT ![p] = Payload.cred]
     ELSE /\ req' = [req EXCEPT ![p].pc = "issue"]
          /\ UNCHANGED got
  /\ cache' = IF req[p].force THEN cache ELSE Payload
  /\ UNCHANGED <<lockLeft, cred>>

\* get_access_token and _save_token_payload
Issue(p) ==
  /\ req[p].pc = "issue"
  /\ cache' = [cred |-> cred[p], left |-> Life]
  /\ req' = [req EXCEPT ![p].pc = "release"]
  /\ got' = [got EXCEPT ![p] = cred[p]]
  /\ UNCHANGED <<lockLeft, cred>>

\* KIS or Redis fails: KISAuthError goes to the caller, through the finally.
IssueFails(p) ==
  /\ req[p].pc = "issue"
  /\ req' = [req EXCEPT ![p].pc = "release"]
  /\ got' = [got EXCEPT ![p] = "none"]
  /\ UNCHANGED <<lockLeft, cache, cred>>

\* DELETE, whosever lock it is
release_lock(p) ==
  /\ req[p].pc = "release"
  /\ lockLeft' = 0
  /\ req' = [req EXCEPT ![p] = NoCall]
  /\ UNCHANGED <<cache, cred, got>>

\* The release fails: logged, the TTL will do it.
ReleaseFails(p) ==
  /\ req[p].pc = "release"
  /\ req' = [req EXCEPT ![p] = NoCall]
  /\ UNCHANGED <<lockLeft, cache, cred, got>>

\* _wait_for_refreshed_token, after a sleep.  The first test is the code's: a
\* token whose fingerprint does NOT match is returned at once.
Retry(p) ==
  /\ req[p].pc = "wait"
  /\ cache' = Payload
  /\ IF Payload # Empty /\ (~FingerprintMatches(p) \/ ~Expiring)
     THEN Returns(p, Payload.cred)
     ELSE IF req[p].tries > 1
     THEN /\ req' = [req EXCEPT ![p].tries = @ - 1]
          /\ UNCHANGED got
     ELSE Returns(p, "none")           \* TOKEN_REFRESH_TIMEOUT
  /\ UNCHANGED <<lockLeft, cred>>

\* invalidate_access_token
Invalidate ==
  /\ cache # Empty
  /\ cache' = Empty
  /\ UNCHANGED <<lockLeft, cred, req, got>>

\* Something else wrote the key, or cut it short.
Corrupt ==
  /\ cache.cred \in Creds
  /\ cache' = [cache EXCEPT !.cred = "corrupt"]
  /\ UNCHANGED <<lockLeft, cred, req, got>>

\* A process dies and is started again, maybe with other credentials.
Restart(p, c) ==
  /\ req[p].pc # "idle" \/ c # cred[p]
  /\ req' = [req EXCEPT ![p] = NoCall]
  /\ cred' = [cred EXCEPT ![p] = c]
  /\ got' = [got EXCEPT ![p] = "none"]
  /\ UNCHANGED <<lockLeft, cache>>

-----------------------------------------------------------------------------
\* The steps of a call that has begun
CallStep(p) ==
  \/ acquire_lock(p) \/ StartWaiting(p)
  \/ DoubleCheck(p) \/ Issue(p) \/ IssueFails(p)
  \/ release_lock(p) \/ ReleaseFails(p)
  \/ Retry(p)

TokenNext ==
  \/ Tick \/ Invalidate \/ Corrupt
  \/ \E p \in Procs :
       \/ CallStep(p)
       \/ \E force \in BOOLEAN : Call(p, force)
       \/ \E c \in Creds : Restart(p, c)

TokenSpec == TokenInit /\ [][TokenNext]_tokenVars

-----------------------------------------------------------------------------
\* As long as the work under the lock takes less than the TTL, one process at a
\* time is under it, although release_lock deletes the key without asking whose
\* it is, processes die holding it, and releases fail.
OneIssuer == \A p, q \in Holders : p = q

\* Several processes that find the token missing cause one request to KIS: a
\* call that was not forced goes to KIS only when the cache has no token that
\* is valid for it.
NoNeedlessIssue ==
  \A p \in Procs : req[p].pc = "issue" /\ ~req[p].force => ~Valid(p)

\* auth_service.py, 113: the waiter checks that the fingerprint is that of the
\* current credentials.  So no call returns a token of other credentials.
ReturnsOwnToken == \A p \in Procs : got[p] \in {cred[p], "none"}
=============================================================================
