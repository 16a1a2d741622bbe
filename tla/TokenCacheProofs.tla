-------------------------- MODULE TokenCacheProofs --------------------------
(***************************************************************************)
(* Proofs that the token cache of TokenCache is typed, that one process at *)
(* a time is under its lock, and that no call issues a token needlessly,   *)
(* for every number of processes, credentials and TTL.                     *)
(*                                                                         *)
(* The lock is deleted without a check of its owner, so mutual exclusion   *)
(* rests on time: a process that has been under the lock for held units    *)
(* left it at least LockTTL - held to live, which is positive because      *)
(* MaxHold < LockTTL.                                                      *)
(***************************************************************************)
EXTENDS TokenCache, TLAPS

\* What is left of the lock and the time its holder has had make up the TTL.
LockOutlivesHolder == \A p \in Holders : lockLeft + req[p].held >= LockTTL

\* The calls a process may be in
Requests ==
  [pc: {"idle", "lock", "wait"} \cup UnderLock, force: BOOLEAN,
   held: 0..MaxHold, tries: 0..Retries]

TokenInv ==
  /\ TokenTypeOK
  /\ OneIssuer
  /\ LockOutlivesHolder
  /\ NoNeedlessIssue

-----------------------------------------------------------------------------
\* A payload read from the cache is a cache value (_get_cached_token_payload).
LEMMA PayloadType ==
  ASSUME TokenTypeOK
  PROVE  /\ Payload \in [cred: Creds \cup {"none", "corrupt"}, left: 0..Life]
         /\ Empty \in [cred: Creds \cup {"none", "corrupt"}, left: 0..Life]
  BY TokenAssumption DEF TokenTypeOK, Payload, Empty

\* A token valid for a process was issued for its credentials, and is not about
\* to expire (get_valid_access_token).
LEMMA ValidIsOwn ==
  ASSUME TokenTypeOK, NEW p \in Procs
  PROVE  Valid(p) <=> cache.cred = cred[p] /\ cache.left > Buffer
  BY TokenAssumption
     DEF TokenTypeOK, Valid, FingerprintMatches, Expiring, Payload, Empty

\* While somebody is under the lock, it exists.
LEMMA HeldLockExists ==
  ASSUME TokenTypeOK, LockOutlivesHolder, NEW p \in Holders
  PROVE  lockLeft > 0
  BY LockAssumption DEF TokenTypeOK, LockOutlivesHolder, Holders

-----------------------------------------------------------------------------
\* The initial state is typed, nobody is under the lock.
LEMMA InitInv == TokenInit => TokenInv
<1> SUFFICES ASSUME TokenInit PROVE TokenInv
  OBVIOUS
<1>1. TokenTypeOK
  BY LockAssumption, TokenAssumption
     DEF TokenInit, TokenTypeOK, Empty, NoCall, CallAt, UnderLock
<1>2. Holders = {}
  BY DEF TokenInit, Holders, NoCall, CallAt, UnderLock
<1>3. NoNeedlessIssue
  BY DEF TokenInit, NoNeedlessIssue, NoCall, CallAt
<1> QED
  BY <1>1, <1>2, <1>3 DEF TokenInv, OneIssuer, LockOutlivesHolder

-----------------------------------------------------------------------------
\* Every step keeps the types.
LEMMA TypeStep == TokenTypeOK /\ [TokenNext]_tokenVars => TokenTypeOK'
<1> SUFFICES ASSUME TokenTypeOK, [TokenNext]_tokenVars PROVE TokenTypeOK'
  OBVIOUS
<1> USE LockAssumption, TokenAssumption
<1>1. CASE Tick
  <2>1. lockLeft' \in 0..LockTTL
    BY <1>1 DEF Tick, Ages, TokenTypeOK
  <2>2. cache' \in [cred: Creds \cup {"none", "corrupt"}, left: 0..Life]
    BY <1>1, PayloadType DEF Tick, TokenTypeOK
  <2>3. req' \in [Procs -> [pc: {"idle", "lock", "wait"} \cup UnderLock, force: BOOLEAN,
                            held: 0..MaxHold, tries: 0..Retries]]
    BY <1>1 DEF Tick, TokenTypeOK, Holders, UnderLock
  <2> QED
    BY <1>1, <2>1, <2>2, <2>3 DEF Tick, TokenTypeOK
<1>2. CASE Invalidate
  BY <1>2, PayloadType DEF Invalidate, TokenTypeOK
<1>3. CASE Corrupt
  BY <1>3 DEF Corrupt, TokenTypeOK
<1>4. ASSUME NEW p \in Procs, CallStep(p) PROVE TokenTypeOK'
  <2>1. CASE acquire_lock(p)
    BY <2>1 DEF acquire_lock, TokenTypeOK, UnderLock
  <2>2. CASE StartWaiting(p)
    BY <2>2 DEF StartWaiting, CallAt, TokenTypeOK, UnderLock
  <2>3. CASE DoubleCheck(p)
    <3>1. Valid(p) => Payload.cred \in Creds
      BY ValidIsOwn DEF Payload, TokenTypeOK
    <3> QED
      BY <2>3, <3>1, PayloadType DEF DoubleCheck, FoundUnderLock, TokenTypeOK, UnderLock
  <2>4. CASE Issue(p)
    BY <2>4 DEF Issue, TokenTypeOK, UnderLock
  <2>5. CASE IssueFails(p)
    BY <2>5 DEF IssueFails, TokenTypeOK, UnderLock
  <2>6. CASE release_lock(p)
    BY <2>6 DEF release_lock, NoCall, CallAt, TokenTypeOK, UnderLock
  <2>7. CASE ReleaseFails(p)
    BY <2>7 DEF ReleaseFails, NoCall, CallAt, TokenTypeOK, UnderLock
  <2>8. CASE Retry(p)
    <3>1. Payload.cred \in Creds \cup {"none"}
      BY DEF Payload, Empty, TokenTypeOK
    <3>2. NoCall \in Requests
      BY DEF NoCall, CallAt, Requests
    <3>3. req' \in [Procs -> Requests]
      BY <2>8, <3>2 DEF Retry, Returns, TokenTypeOK, Requests
    <3>4. got' \in [Procs -> Creds \cup {"none"}]
      BY <2>8, <3>1 DEF Retry, Returns, TokenTypeOK
    <3> QED
      BY <2>8, <3>3, <3>4, PayloadType DEF Retry, TokenTypeOK, Requests
  <2> QED
    BY <1>4, <2>1, <2>2, <2>3, <2>4, <2>5, <2>6, <2>7, <2>8 DEF CallStep
<1>5. ASSUME NEW p \in Procs, NEW force \in BOOLEAN, Call(p, force) PROVE TokenTypeOK'
  <2>1. Valid(p) => Payload.cred \in Creds
    BY ValidIsOwn DEF Payload, TokenTypeOK
  <2>2. /\ NoCall \in Requests
        /\ CallAt("lock", force, 0) \in Requests
    BY DEF NoCall, CallAt, Requests
  <2>3. req' \in [Procs -> Requests]
    BY <1>5, <2>2 DEF Call, Returns, TokenTypeOK, Requests
  <2>4. got' \in [Procs -> Creds \cup {"none"}]
    BY <1>5, <2>1 DEF Call, Returns, TokenTypeOK
  <2>5. cache' \in [cred: Creds \cup {"none", "corrupt"}, left: 0..Life]
    BY <1>5, PayloadType DEF Call, TokenTypeOK
  <2> QED
    BY <1>5, <2>3, <2>4, <2>5 DEF Call, TokenTypeOK, Requests
<1>6. ASSUME NEW p \in Procs, NEW c \in Creds, Restart(p, c) PROVE TokenTypeOK'
  BY <1>6 DEF Restart, NoCall, CallAt, TokenTypeOK, UnderLock
<1>7. CASE UNCHANGED tokenVars
  BY <1>7 DEF tokenVars, TokenTypeOK
<1> QED
  BY <1>1, <1>2, <1>3, <1>4, <1>5, <1>6, <1>7 DEF TokenNext

-----------------------------------------------------------------------------
\* Every step keeps one process at most under the lock, and the lock alive for
\* it: only acquire_lock adds a holder, and it finds no lock.
LEMMA LockStep ==
  TokenInv /\ [TokenNext]_tokenVars => OneIssuer' /\ LockOutlivesHolder'
<1> SUFFICES ASSUME TokenInv, [TokenNext]_tokenVars
             PROVE  OneIssuer' /\ LockOutlivesHolder'
  OBVIOUS
<1> USE LockAssumption DEF TokenInv
<1>1. CASE Tick
  <2>1. Holders' = Holders
    BY <1>1 DEF Tick, Holders, TokenTypeOK
  <2>2. ASSUME NEW p \in Holders PROVE lockLeft' + req'[p].held >= LockTTL
    <3>1. lockLeft' = lockLeft - 1
      BY <1>1, HeldLockExists DEF Tick, Ages
    <3>2. req'[p].held = req[p].held + 1
      BY <1>1 DEF Tick, TokenTypeOK, Holders
    <3> QED
      BY <3>1, <3>2 DEF LockOutlivesHolder, TokenTypeOK, Holders
  <2> QED
    BY <2>1, <2>2 DEF OneIssuer, LockOutlivesHolder
<1>2. ASSUME UNCHANGED <<lockLeft, req>> PROVE OneIssuer' /\ LockOutlivesHolder'
  BY <1>2 DEF OneIssuer, LockOutlivesHolder, Holders
<1>3. ASSUME NEW p \in Procs, p \notin Holders', lockLeft' = lockLeft \/ p \in Holders,
             \A q \in Procs \ {p} : req'[q] = req[q]
      PROVE  OneIssuer' /\ LockOutlivesHolder'
  BY <1>3 DEF OneIssuer, LockOutlivesHolder, Holders
<1>4. ASSUME NEW p \in Holders, lockLeft' = lockLeft, req'[p].held = req[p].held,
             \A q \in Procs \ {p} : req'[q] = req[q]
      PROVE  OneIssuer' /\ LockOutlivesHolder'
  BY <1>4 DEF OneIssuer, LockOutlivesHolder, Holders
<1>5. ASSUME NEW p \in Procs, CallStep(p) PROVE OneIssuer' /\ LockOutlivesHolder'
  <2>1. CASE acquire_lock(p)
    <3>1. Holders = {}
      BY <2>1, HeldLockExists DEF acquire_lock, LockFree, TokenTypeOK
    <3>2. \A q \in Holders' : q = p
      BY <2>1, <3>1 DEF acquire_lock, Holders, TokenTypeOK
    <3>3. lockLeft' + req'[p].held >= LockTTL
      BY <2>1 DEF acquire_lock, TokenTypeOK
    <3> QED
      BY <3>2, <3>3 DEF OneIssuer, LockOutlivesHolder
  <2>2. CASE StartWaiting(p)
    BY <2>2, <1>3 DEF StartWaiting, CallAt, TokenTypeOK, Holders, UnderLock
  <2>3. CASE DoubleCheck(p)
    BY <2>3, <1>4 DEF DoubleCheck, TokenTypeOK, Holders, UnderLock
  <2>4. CASE Issue(p)
    BY <2>4, <1>4 DEF Issue, TokenTypeOK, Holders, UnderLock
  <2>5. CASE IssueFails(p)
    BY <2>5, <1>4 DEF IssueFails, TokenTypeOK, Holders, UnderLock
  <2>6. CASE release_lock(p)
    BY <2>6, <1>3 DEF release_lock, NoCall, CallAt, TokenTypeOK, Holders, UnderLock
  <2>7. CASE ReleaseFails(p)
    BY <2>7, <1>3 DEF ReleaseFails, NoCall, CallAt, TokenTypeOK, Holders, UnderLock
  <2>8. CASE Retry(p)
    BY <2>8, <1>3 DEF Retry, Returns, NoCall, CallAt, TokenTypeOK, Holders, UnderLock
  <2> QED
    BY <1>5, <2>1, <2>2, <2>3, <2>4, <2>5, <2>6, <2>7, <2>8 DEF CallStep
<1>6. ASSUME NEW p \in Procs, NEW force \in BOOLEAN, Call(p, force)
      PROVE  OneIssuer' /\ LockOutlivesHolder'
  <2>1. /\ NoCall.pc = "idle"
        /\ CallAt("lock", force, 0).pc = "lock"
    BY DEF NoCall, CallAt
  <2>2. req'[p].pc \in {"idle", "lock"} /\ \A q \in Procs \ {p} : req'[q] = req[q]
    BY <1>6, <2>1 DEF Call, Returns, TokenTypeOK
  <2> QED
    BY <1>6, <1>3, <2>2 DEF Call, Holders, UnderLock
<1>7. ASSUME NEW p \in Procs, NEW c \in Creds, Restart(p, c)
      PROVE  OneIssuer' /\ LockOutlivesHolder'
  BY <1>7, <1>3 DEF Restart, NoCall, CallAt, TokenTypeOK, Holders, UnderLock
<1> QED
  BY <1>1, <1>2, <1>5, <1>6, <1>7 DEF TokenNext, Invalidate, Corrupt, tokenVars

-----------------------------------------------------------------------------
\* Every step keeps a process that is about to issue a token right to do so: a
\* token valid for it can only come from a process under the lock.
LEMMA IssueStep == TokenInv /\ TokenTypeOK' /\ [TokenNext]_tokenVars => NoNeedlessIssue'
<1> SUFFICES ASSUME TokenInv, TokenTypeOK', [TokenNext]_tokenVars,
                    NEW p \in Procs, req'[p].pc = "issue", ~req'[p].force
             PROVE  ~(cache'.cred = cred'[p] /\ cache'.left > Buffer)
  BY TokenAssumption
     DEF NoNeedlessIssue, Valid, FingerprintMatches, Expiring, Payload, Empty, TokenTypeOK
<1> USE TokenAssumption DEF TokenInv
<1>1. req[p].pc = "issue" /\ ~req[p].force => ~(cache.cred = cred[p] /\ cache.left > Buffer)
  BY ValidIsOwn DEF NoNeedlessIssue
\* The cache keeps its token, or loses it, or the token ages.
<1>2. ASSUME req'[p] = req[p], cred'[p] = cred[p],
             \/ cache' = cache \/ cache' = Payload \/ cache' = Empty
             \/ cache'.cred = "corrupt"
             \/ cache'.cred = cache.cred /\ cache'.left < cache.left
      PROVE  ~(cache'.cred = cred'[p] /\ cache'.left > Buffer)
  BY <1>1, <1>2 DEF Payload, Empty, TokenTypeOK
<1>3. CASE Tick
  <2>1. req'[p].pc = req[p].pc /\ req'[p].force = req[p].force
    BY <1>3 DEF Tick, Holders, TokenTypeOK
  <2>2. (cache'.cred = cache.cred /\ cache'.left < cache.left) \/ cache' = Empty
    BY <1>3 DEF Tick, TokenTypeOK
  <2> QED
    BY <1>1, <1>3, <2>1, <2>2 DEF Tick, Empty, TokenTypeOK
<1>4. CASE Invalidate
  BY <1>2, <1>4 DEF Invalidate
<1>5. CASE Corrupt
  BY <1>2, <1>5 DEF Corrupt, TokenTypeOK
<1>6. ASSUME NEW q \in Procs, CallStep(q)
      PROVE  ~(cache'.cred = cred'[p] /\ cache'.left > Buffer)
  <2>1. CASE acquire_lock(q)
    BY <1>2, <2>1 DEF acquire_lock, TokenTypeOK
  <2>2. CASE StartWaiting(q)
    BY <1>2, <2>2 DEF StartWaiting, CallAt, TokenTypeOK
  <2>3. CASE DoubleCheck(q)
    <3>1. CASE p = q
      <4>1. ~Valid(p)
        BY <2>3, <3>1 DEF DoubleCheck, FoundUnderLock, TokenTypeOK
      <4> QED
        BY <2>3, <3>1, <4>1, ValidIsOwn DEF DoubleCheck, Payload, Empty, TokenTypeOK
    <3>2. CASE p # q
      BY <1>2, <2>3, <3>2 DEF DoubleCheck, TokenTypeOK
    <3> QED
      BY <3>1, <3>2
  <2>4. CASE Issue(q)
    <3>1. p # q
      BY <2>4 DEF Issue, TokenTypeOK
    <3>2. p \in Holders /\ q \in Holders
      BY <2>4, <3>1 DEF Issue, Holders, UnderLock, TokenTypeOK
    <3> QED
      BY <3>1, <3>2 DEF OneIssuer
  <2>5. CASE IssueFails(q)
    BY <1>2, <2>5 DEF IssueFails, TokenTypeOK
  <2>6. CASE release_lock(q)
    BY <1>2, <2>6 DEF release_lock, NoCall, CallAt, TokenTypeOK
  <2>7. CASE ReleaseFails(q)
    BY <1>2, <2>7 DEF ReleaseFails, NoCall, CallAt, TokenTypeOK
  <2>8. CASE Retry(q)
    BY <1>2, <2>8 DEF Retry, Returns, NoCall, CallAt, TokenTypeOK
  <2> QED
    BY <1>6, <2>1, <2>2, <2>3, <2>4, <2>5, <2>6, <2>7, <2>8 DEF CallStep
<1>7. ASSUME NEW q \in Procs, NEW force \in BOOLEAN, Call(q, force)
      PROVE  ~(cache'.cred = cred'[p] /\ cache'.left > Buffer)
  <2>1. /\ NoCall.pc = "idle"
        /\ CallAt("lock", force, 0).pc = "lock"
    BY DEF NoCall, CallAt
  <2>2. p # q
    BY <1>7, <2>1 DEF Call, Returns, TokenTypeOK
  <2> QED
    BY <1>2, <1>7, <2>2 DEF Call, Returns, TokenTypeOK
<1>8. ASSUME NEW q \in Procs, NEW c \in Creds, Restart(q, c)
      PROVE  ~(cache'.cred = cred'[p] /\ cache'.left > Buffer)
  BY <1>2, <1>8 DEF Restart, NoCall, CallAt, TokenTypeOK
<1>9. CASE UNCHANGED tokenVars
  BY <1>2, <1>9 DEF tokenVars
<1> QED
  BY <1>3, <1>4, <1>5, <1>6, <1>7, <1>8, <1>9 DEF TokenNext

-----------------------------------------------------------------------------
\* The three parts hold in every state: the induction the theorems share.
THEOREM InvHolds == TokenSpec => []TokenInv
<1>1. TokenInv /\ [TokenNext]_tokenVars => TokenInv'
  BY TypeStep, LockStep, IssueStep DEF TokenInv
<1> QED
  BY InitInv, <1>1, PTL DEF TokenSpec

\* The shared cache, its lock and the calls stay within their types.
THEOREM TokenTypes == TokenSpec => []TokenTypeOK
<1>1. TokenInv => TokenTypeOK
  BY DEF TokenInv
<1> QED
  BY InvHolds, <1>1, PTL

\* distributed_lock gives mutual exclusion, for any number of processes, as long
\* as the time under the lock stays below LOCK_TTL_SECONDS.
THEOREM OneIssuerHolds == TokenSpec => []OneIssuer
<1>1. TokenInv => OneIssuer
  BY DEF TokenInv
<1> QED
  BY InvHolds, <1>1, PTL

\* get_valid_access_token goes to KIS only when no valid token is cached: the
\* second look at the cache under the lock stays true until the token is issued.
THEOREM NoNeedlessIssueHolds == TokenSpec => []NoNeedlessIssue
<1>1. TokenInv => NoNeedlessIssue
  BY DEF TokenInv
<1> QED
  BY InvHolds, <1>1, PTL
=============================================================================
