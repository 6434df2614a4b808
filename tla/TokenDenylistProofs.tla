------------------------- MODULE TokenDenylistProofs -------------------------
(***************************************************************************)
(* Proofs about TokenDenylist for any number of processes, requests and    *)
(* tokens, any cache lifetime and any cache bound.                         *)
(*                                                                         *)
(* RevocationLatency is not inductive: it speaks of requests that have     *)
(* their verdict, and a verdict is only as good as the cache entry or the  *)
(* Redis answer it came from.  IInv therefore also says how old an Allowed *)
(* may be while it sits in the cache (EntryOK) and while it travels from   *)
(* Redis to the cache in a request that holds no lock (ReqOK), and that    *)
(* the key in Redis outlives the token (StoreInv).                         *)
(*                                                                         *)
(* EntryOK and ReqOK take the clock t and the histories sn (seen) and rv   *)
(* (revokedAt) as arguments: one lemma then carries each of them across    *)
(* every step, since time, seen and revokedAt only move forward.  The one  *)
(* exception, a restart that forgets what a process was told, takes away   *)
(* everything that rested on it (RestartStep).                             *)
(***************************************************************************)
EXTENDS TokenDenylist, FiniteSetTheorems, TLAPS

Times == Nat \cup {Never}

SeenType == [Instance -> [Jti -> Times]]

RevokedAtType == [Jti -> Times]

\* A moment x that an Allowed verdict for j rests on is at most `slack` seconds
\* younger than the revocation, unless the token is already dead.
NotAfterRevocation(j, x, slack, t, rv) ==
  rv[j] # Never => x <= rv[j] + slack \/ t >= Exp[j]

EntryOK(e, i, j, t, sn, rv) ==
  e.verdict = "Allowed" =>
    /\ sn[i][j] # Never
    /\ e.until <= sn[i][j] + CacheTtl
    /\ NotAfterRevocation(j, e.until, CacheTtl, t, rv)

\* What a request carries between its steps.
Carried(r, t) ==
  /\ r.pc # "idle" => r.inst \in Instance
  /\ r.start <= t
  /\ r.now <= t
  /\ r.pc \in {"sampled", "missed", "answered"} => r.jti \in Jti /\ r.start <= r.now
  /\ r.pc = "seeding" => r.jti \in Jti
  /\ r.pc = "revoking" => r.now < Exp[r.jti]

AnsweredOK(r, t, sn, rv) ==
  r.pc = "answered" =>
    /\ r.verdict # "None"
    /\ r.verdict = "Allowed" =>
         /\ sn[r.inst][r.jti] # Never
         /\ r.now <= sn[r.inst][r.jti]
         /\ NotAfterRevocation(r.jti, r.now, 0, t, rv)

DecidedOK(r, t, sn, rv) ==
  r.pc = "decided" /\ r.verdict = "Allowed" /\ r.jti \in Jti =>
    /\ sn[r.inst][r.jti] # Never
    /\ r.start + 1 <= sn[r.inst][r.jti] + Lag
    /\ NotAfterRevocation(r.jti, r.start + 1, Lag, t, rv)

ReqOK(r, t, sn, rv) ==
  Carried(r, t) /\ AnsweredOK(r, t, sn, rv) /\ DecidedOK(r, t, sn, rv)

StoreInv ==
  \A j \in Jti :
    IF revokedAt[j] = Never THEN redis[j] = 0
    ELSE revokedAt[j] <= clock /\ redis[j] >= Exp[j]

SeenInv == \A i \in Instance, j \in Jti : seen[i][j] <= clock

CacheInv ==
  \A i \in Instance, j \in Jti : EntryOK(cache[i][j], i, j, clock, seen, revokedAt)

ReqInv == \A h \in Handler : ReqOK(req[h], clock, seen, revokedAt)

IInv == TypeOK /\ StoreInv /\ SeenInv /\ CacheInv /\ ReqInv

-----------------------------------------------------------------------------
(* The cache operators return a cache, and what they return for a key is    *)
(* what was there, nothing, or the verdict just put.                        *)

LEMMA PruneShape ==
  ASSUME NEW c \in [Jti -> Entry], NEW now \in Nat
  PROVE  /\ pruneLocked(c, now) \in [Jti -> Entry]
         /\ \A k \in Jti : pruneLocked(c, now)[k] \in {c[k], NoEntry}
  BY DEF pruneLocked, EmptyCache, NoEntry, Entry

IsPut(new, c, j, v, now) ==
  /\ new \in [Jti -> Entry]
  /\ \A k \in Jti : \/ new[k] \in {c[k], NoEntry}
                    \/ k = j /\ new[k] = [verdict |-> v, until |-> now + CacheTtl]

LEMMA CachePutShape ==
  ASSUME NEW c \in [Jti -> Entry], NEW j \in Jti,
         NEW v \in Revocation, NEW now \in Nat
  PROVE  IsPut(cachePutLocked(c, j, v, now), c, j, v, now)
  <1> DEFINE room == IF Cardinality(Cached(c)) >= MaxCacheEntries
                     THEN pruneLocked(c, now) ELSE c
             e == [verdict |-> v, until |-> now + CacheTtl]
  <1>1. room \in [Jti -> Entry] /\ \A k \in Jti : room[k] \in {c[k], NoEntry}
    BY PruneShape
  <1>2. e \in Entry
    BY TtlAssumption DEF Entry
  <1> HIDE DEF room, e
  <1>3. [room EXCEPT ![j] = e] \in [Jti -> Entry]
    BY <1>1, <1>2
  <1>4. \A k \in Jti : [room EXCEPT ![j] = e][k] = IF k = j THEN e ELSE room[k]
    BY <1>1
  <1>5. cachePutLocked(c, j, v, now) =
          IF v = "Unknown" \/ CacheTtl = 0 THEN c ELSE [room EXCEPT ![j] = e]
    BY DEF cachePutLocked, room, e
  <1>6. QED
    BY <1>1, <1>3, <1>4, <1>5 DEF e, IsPut

-----------------------------------------------------------------------------
(* Time and the histories only move forward.  A revocation that lands now   *)
(* is dated by the current second, which no sample and no answer exceeds.   *)

Forward(t, sn, rv, t2, sn2, rv2) ==
  /\ t <= t2
  /\ \A i \in Instance, j \in Jti : sn[i][j] <= sn2[i][j] /\ sn[i][j] <= t
  /\ \A j \in Jti : rv2[j] = rv[j] \/ (rv[j] = Never /\ rv2[j] = t)

LEMMA EntryForward ==
  ASSUME NEW t \in Nat, NEW sn \in SeenType, NEW rv \in RevokedAtType,
         NEW t2 \in Nat, NEW sn2 \in SeenType, NEW rv2 \in RevokedAtType,
         Forward(t, sn, rv, t2, sn2, rv2),
         NEW e \in Entry, NEW i \in Instance, NEW j \in Jti,
         EntryOK(e, i, j, t, sn, rv)
  PROVE  EntryOK(e, i, j, t2, sn2, rv2)
  <1> SUFFICES ASSUME e.verdict = "Allowed"
               PROVE  /\ sn2[i][j] # Never
                      /\ e.until <= sn2[i][j] + CacheTtl
                      /\ NotAfterRevocation(j, e.until, CacheTtl, t2, rv2)
    BY DEF EntryOK
  <1>1. /\ sn[i][j] \in Times /\ sn2[i][j] \in Times
        /\ rv[j] \in Times /\ rv2[j] \in Times
        /\ e.until \in Nat /\ Exp[j] \in Nat /\ CacheTtl \in Nat
    BY ExpAssumption, TtlAssumption DEF SeenType, RevokedAtType, Entry
  <1>2. /\ sn[i][j] # Never /\ e.until <= sn[i][j] + CacheTtl
        /\ NotAfterRevocation(j, e.until, CacheTtl, t, rv)
    BY DEF EntryOK
  <1>3. /\ t <= t2 /\ sn[i][j] <= sn2[i][j] /\ sn[i][j] <= t
        /\ rv2[j] = rv[j] \/ (rv[j] = Never /\ rv2[j] = t)
    BY DEF Forward
  <1>4. QED
    BY <1>1, <1>2, <1>3 DEF NotAfterRevocation, Times, Never

LEMMA LagType == Lag \in Nat /\ 1 <= Lag /\ CacheTtl <= Lag
  BY TtlAssumption DEF Lag

LEMMA ReqForward ==
  ASSUME NEW t \in Nat, NEW sn \in SeenType, NEW rv \in RevokedAtType,
         NEW t2 \in Nat, NEW sn2 \in SeenType, NEW rv2 \in RevokedAtType,
         Forward(t, sn, rv, t2, sn2, rv2),
         NEW r \in Request, ReqOK(r, t, sn, rv)
  PROVE  ReqOK(r, t2, sn2, rv2)
  <1>1. r.start \in Nat /\ r.now \in Nat
    BY DEF Request
  <1>2. Carried(r, t) /\ Carried(r, t2)
    BY <1>1 DEF ReqOK, Carried, Forward
  <1>3. ASSUME r.inst \in Instance, r.jti \in Jti
        PROVE  /\ sn[r.inst][r.jti] \in Times /\ sn2[r.inst][r.jti] \in Times
               /\ rv[r.jti] \in Times /\ rv2[r.jti] \in Times /\ Exp[r.jti] \in Nat
               /\ t <= t2 /\ sn[r.inst][r.jti] <= sn2[r.inst][r.jti]
               /\ \/ rv2[r.jti] = rv[r.jti]
                  \/ rv[r.jti] = Never /\ rv2[r.jti] = t
    BY <1>3, ExpAssumption DEF SeenType, RevokedAtType, Forward
  <1>4. AnsweredOK(r, t2, sn2, rv2)
    BY <1>1, <1>2, <1>3 DEF ReqOK, AnsweredOK, Carried, NotAfterRevocation, Times, Never
  <1>5. DecidedOK(r, t2, sn2, rv2)
    BY <1>1, <1>2, <1>3, LagType
       DEF ReqOK, DecidedOK, Carried, NotAfterRevocation, Times, Never
  <1>6. QED
    BY <1>2, <1>4, <1>5 DEF ReqOK

LEMMA IdleOK ==
  ASSUME NEW t \in Nat, NEW sn, NEW rv
  PROVE  Idle \in Request /\ ReqOK(Idle, t, sn, rv)
  BY DEF Idle, Request, ReqOK, Carried, AnsweredOK, DecidedOK

LEMMA NoEntryOK ==
  ASSUME NEW i, NEW j, NEW t, NEW sn, NEW rv
  PROVE  NoEntry \in Entry /\ EntryOK(NoEntry, i, j, t, sn, rv)
  BY DEF NoEntry, Entry, EntryOK

-----------------------------------------------------------------------------
LEMMA InitIInv == Init => IInv
  <1> SUFFICES ASSUME Init PROVE IInv
    OBVIOUS
  <1>1. TypeOK
    BY IdleOK, NoEntryOK DEF Init, TypeOK, EmptyCache, Never
  <1>2. StoreInv /\ SeenInv
    BY DEF Init, StoreInv, SeenInv, Never
  <1>3. CacheInv
    BY NoEntryOK DEF Init, CacheInv, EmptyCache
  <1>4. ReqInv
    BY IdleOK DEF Init, ReqInv
  <1>5. QED
    BY <1>1, <1>2, <1>3, <1>4 DEF IInv

(* Everything a step leaves alone, drops or resets keeps its part of IInv,  *)
(* so an action only has to account for the entry or the request it writes. *)
LEMMA StepIInv ==
  ASSUME IInv,
         clock' \in Nat, redis' \in [Jti -> Nat],
         seen' \in SeenType, revokedAt' \in RevokedAtType,
         cache' \in [Instance -> [Jti -> Entry]], req' \in [Handler -> Request],
         Forward(clock, seen, revokedAt, clock', seen', revokedAt'),
         StoreInv', SeenInv',
         \A i \in Instance, j \in Jti :
           \/ cache'[i][j] \in {cache[i][j], NoEntry}
           \/ EntryOK(cache'[i][j], i, j, clock', seen', revokedAt'),
         \A h \in Handler :
           \/ req'[h] \in {req[h], Idle}
           \/ ReqOK(req'[h], clock', seen', revokedAt')
  PROVE  IInv'
  <1>1. clock \in Nat /\ seen \in SeenType /\ revokedAt \in RevokedAtType
    BY DEF IInv, TypeOK, SeenType, RevokedAtType, Times
  <1>2. TypeOK'
    BY DEF TypeOK, SeenType, RevokedAtType, Times
  <1>3. CacheInv'
    <2> SUFFICES ASSUME NEW i \in Instance, NEW j \in Jti
                 PROVE  EntryOK(cache'[i][j], i, j, clock', seen', revokedAt')
      BY DEF CacheInv
    <2>1. cache[i][j] \in Entry /\ EntryOK(cache[i][j], i, j, clock, seen, revokedAt)
      BY DEF IInv, TypeOK, CacheInv
    <2>2. EntryOK(cache[i][j], i, j, clock', seen', revokedAt')
      BY <1>1, <2>1, EntryForward
    <2>3. QED
      BY <2>2, NoEntryOK
  <1>4. ReqInv'
    <2> SUFFICES ASSUME NEW h \in Handler
                 PROVE  ReqOK(req'[h], clock', seen', revokedAt')
      BY DEF ReqInv
    <2>1. req[h] \in Request /\ ReqOK(req[h], clock, seen, revokedAt)
      BY DEF IInv, TypeOK, ReqInv
    <2>2. ReqOK(req[h], clock', seen', revokedAt')
      BY <1>1, <2>1, ReqForward
    <2>3. QED
      BY <2>2, IdleOK
  <1>5. QED
    BY <1>2, <1>3, <1>4 DEF IInv

(* A step that changes nothing but the locals of one request.               *)
LEMMA LocalStep ==
  ASSUME IInv, NEW h \in Handler, NEW r \in Request,
         req' = [req EXCEPT ![h] = r],
         UNCHANGED <<clock, redis, cache, revokedAt, seen>>,
         ReqOK(r, clock, seen, revokedAt)
  PROVE  IInv'
  <1>1. Forward(clock, seen, revokedAt, clock', seen', revokedAt')
    BY DEF Forward, IInv, SeenInv, TypeOK, Never
  <1>2. StoreInv' /\ SeenInv'
    BY DEF IInv, StoreInv, SeenInv
  <1>3. /\ clock' \in Nat /\ redis' \in [Jti -> Nat]
        /\ seen' \in SeenType /\ revokedAt' \in RevokedAtType
        /\ cache' \in [Instance -> [Jti -> Entry]] /\ req' \in [Handler -> Request]
    BY DEF IInv, TypeOK, SeenType, RevokedAtType, Times
  <1>4. \A g \in Handler :
          \/ req'[g] \in {req[g], Idle}
          \/ ReqOK(req'[g], clock', seen', revokedAt')
    BY DEF IInv, TypeOK
  <1>5. QED
    BY <1>1, <1>2, <1>3, <1>4, StepIInv

LEMMA VerifyStep ==
  ASSUME IInv, NEW h \in Handler, NEW i \in Instance, NEW j \in Jti \cup {NoJti},
         Verify(h, i, j)
  PROVE  IInv'
  <1> DEFINE r == [req[h] EXCEPT !.pc = "verified", !.inst = i, !.jti = j,
                                 !.start = clock]
  <1>1. r \in Request /\ req' = [req EXCEPT ![h] = r]
    BY ZenonT(30) DEF Verify, IInv, TypeOK, Request
  <1>2. ReqOK(r, clock, seen, revokedAt)
    BY DEF IInv, TypeOK, Request, ReqInv, ReqOK, Carried, AnsweredOK, DecidedOK
  <1> HIDE DEF r
  <1>3. QED
    BY <1>1, <1>2, LocalStep DEF Verify

LEMMA VerifyForSignOutStep ==
  ASSUME IInv, NEW h \in Handler, NEW i \in Instance, NEW j \in Jti \cup {NoJti},
         VerifyForSignOut(h, i, j)
  PROVE  IInv'
  <1> DEFINE r == [req[h] EXCEPT !.pc = "revoking", !.inst = i, !.jti = j,
                                 !.now = clock]
  <1>1. r \in Request /\ req' = [req EXCEPT ![h] = r]
    BY ZenonT(30) DEF VerifyForSignOut, IInv, TypeOK, Request
  <1>2. ReqOK(r, clock, seen, revokedAt)
    BY DEF VerifyForSignOut, IInv, TypeOK, Request, ReqInv, ReqOK, Carried, AnsweredOK,
           DecidedOK
  <1> HIDE DEF r
  <1>3. QED
    BY <1>1, <1>2, LocalStep DEF VerifyForSignOut

LEMMA CheckUnnamedStep ==
  ASSUME IInv, NEW h \in Handler, CheckUnnamed(h)
  PROVE  IInv'
  <1> DEFINE r == [req[h] EXCEPT !.pc = "decided", !.verdict = "Allowed"]
  <1>1. r \in Request /\ req' = [req EXCEPT ![h] = r]
    BY ZenonT(30) DEF CheckUnnamed, IInv, TypeOK, Request, Revocation
  <1>2. ReqOK(r, clock, seen, revokedAt)
    BY JtiAssumption DEF CheckUnnamed, IInv, TypeOK, Request, ReqInv, ReqOK, Carried,
       AnsweredOK, DecidedOK
  <1> HIDE DEF r
  <1>3. QED
    BY <1>1, <1>2, LocalStep DEF CheckUnnamed

LEMMA SampleNowStep ==
  ASSUME IInv, NEW h \in Handler, SampleNow(h)
  PROVE  IInv'
  <1> DEFINE r == [req[h] EXCEPT !.pc = "sampled", !.now = clock]
  <1>1. r \in Request /\ req' = [req EXCEPT ![h] = r]
    BY ZenonT(30) DEF SampleNow, IInv, TypeOK, Request
  <1>2. ReqOK(r, clock, seen, revokedAt)
    BY DEF SampleNow, IInv, TypeOK, Request, ReqInv, ReqOK, Carried, AnsweredOK, DecidedOK
  <1> HIDE DEF r
  <1>3. QED
    BY <1>1, <1>2, LocalStep DEF SampleNow

LEMMA LookupFailsStep ==
  ASSUME IInv, NEW h \in Handler, LookupFails(h)
  PROVE  IInv'
  <1> DEFINE r == [req[h] EXCEPT !.pc = "answered", !.verdict = "Unknown"]
  <1>1. r \in Request /\ req' = [req EXCEPT ![h] = r]
    BY ZenonT(30) DEF LookupFails, IInv, TypeOK, Request, Revocation
  <1>2. ReqOK(r, clock, seen, revokedAt)
    BY DEF LookupFails, IInv, TypeOK, Request, ReqInv, ReqOK, Carried, AnsweredOK, DecidedOK
  <1> HIDE DEF r
  <1>3. QED
    BY <1>1, <1>2, LocalStep DEF LookupFails

\* Respond and RevokeFails end the handler.
LEMMA EndStep ==
  ASSUME IInv, NEW h \in Handler, Respond(h) \/ RevokeFails(h)
  PROVE  IInv'
  <1>1. Idle \in Request /\ ReqOK(Idle, clock, seen, revokedAt)
    BY IdleOK DEF IInv, TypeOK
  <1>2. QED
    BY <1>1, LocalStep DEF Respond, RevokeFails

\* A hit is younger than the expiry of its entry, which EntryOK bounds.
LEMMA ReadCacheStep ==
  ASSUME IInv, NEW h \in Handler, ReadCache(h)
  PROVE  IInv'
  <1> DEFINE i == req[h].inst
             j == req[h].jti
             e == cache[i][j]
             hit == cacheHit(cache[i], j, req[h].now)
             r == IF hit
                  THEN [req[h] EXCEPT !.pc = "decided", !.verdict = e.verdict, !.now = 0]
                  ELSE [req[h] EXCEPT !.pc = "missed"]
  <1>1. /\ i \in Instance /\ j \in Jti /\ req[h] \in Request
        /\ req[h].start <= req[h].now /\ req[h].start <= clock /\ req[h].now <= clock
        /\ clock \in Nat
    BY DEF ReadCache, IInv, TypeOK, ReqInv, ReqOK, Carried
  <1>2. /\ e \in Entry /\ seen[i][j] \in Times /\ revokedAt[j] \in Times
        /\ Exp[j] \in Nat
    BY <1>1, ExpAssumption DEF IInv, TypeOK, Times
  <1>3. r \in Request
    BY <1>1, <1>2 DEF Entry, Request
  <1>4. req' = [req EXCEPT ![h] = r]
    BY DEF ReadCache, IInv, TypeOK
  <1>5. Carried(r, clock) /\ AnsweredOK(r, clock, seen, revokedAt)
    BY <1>1 DEF Carried, AnsweredOK, Request
  <1>6. DecidedOK(r, clock, seen, revokedAt)
    <2> SUFFICES ASSUME hit, e.verdict = "Allowed"
                 PROVE  /\ seen[i][j] # Never
                        /\ req[h].start + 1 <= seen[i][j] + Lag
                        /\ NotAfterRevocation(j, req[h].start + 1, Lag, clock, revokedAt)
      BY <1>1 DEF ReadCache, DecidedOK, Request
    <2>1. req[h].now < e.until
      BY DEF cacheHit
    <2>2. EntryOK(e, i, j, clock, seen, revokedAt)
      BY <1>1 DEF IInv, CacheInv
    <2>3. req[h].start \in Nat /\ req[h].now \in Nat /\ e.until \in Nat
      BY <1>1, <1>2 DEF Request, Entry
    <2> HIDE DEF e, hit
    <2>4. QED
      BY <1>1, <1>2, <2>1, <2>2, <2>3, LagType, TtlAssumption
         DEF EntryOK, NotAfterRevocation, Times, Never
  <1> HIDE DEF r
  <1>7. QED
    BY <1>3, <1>4, <1>5, <1>6, LocalStep DEF ReadCache, ReqOK

-----------------------------------------------------------------------------
(* The steps that touch shared state.                                       *)

LEMMA Types ==
  ASSUME IInv
  PROVE  /\ clock \in Nat /\ redis \in [Jti -> Nat]
         /\ seen \in SeenType /\ revokedAt \in RevokedAtType
         /\ cache \in [Instance -> [Jti -> Entry]] /\ req \in [Handler -> Request]
  BY DEF IInv, TypeOK, SeenType, RevokedAtType, Times

\* An "absent" answer means the key was never written, or the token is dead.
LEMMA LookupAnswersStep ==
  ASSUME IInv, NEW h \in Handler, LookupAnswers(h)
  PROVE  IInv'
  <1> DEFINE i == req[h].inst
             j == req[h].jti
             v == IF Present(j) THEN "Revoked" ELSE "Allowed"
             r == [req[h] EXCEPT !.pc = "answered", !.verdict = v]
  <1>1. /\ i \in Instance /\ j \in Jti /\ req[h] \in Request
        /\ req[h].start <= req[h].now /\ req[h].start <= clock /\ req[h].now <= clock
    BY DEF LookupAnswers, IInv, TypeOK, ReqInv, ReqOK, Carried
  <1>2. UNCHANGED <<clock, redis, cache, revokedAt>>
    BY DEF LookupAnswers
  <1>3. seen' = IF Present(j) THEN seen ELSE [seen EXCEPT ![i][j] = clock]
    BY DEF LookupAnswers
  <1>4. seen' \in SeenType
    BY <1>1, <1>3, Types DEF SeenType, Times
  <1>5. \A a \in Instance, b \in Jti :
          seen'[a][b] = IF ~Present(j) /\ a = i /\ b = j THEN clock ELSE seen[a][b]
    BY <1>1, <1>3, Types DEF SeenType
  <1>6. \A a \in Instance, b \in Jti :
          seen[a][b] \in Times /\ seen[a][b] <= clock
    BY Types DEF IInv, SeenInv, SeenType
  <1>7. Forward(clock, seen, revokedAt, clock', seen', revokedAt')
    BY <1>2, <1>5, <1>6, Types DEF Forward, Times, Never
  <1>8. StoreInv' /\ SeenInv'
    BY <1>2, <1>5, <1>6, Types DEF IInv, StoreInv, SeenInv
  <1>9. r \in Request /\ req' = [req EXCEPT ![h] = r]
    BY <1>1 DEF LookupAnswers, IInv, TypeOK, Request, Revocation
  <1>10. /\ r.pc = "answered" /\ r.inst = i /\ r.jti = j /\ r.verdict = v
         /\ r.start = req[h].start /\ r.now = req[h].now
    BY <1>1 DEF Request
  <1>11. ReqOK(r, clock', seen', revokedAt')
    <2>1. Carried(r, clock') /\ DecidedOK(r, clock', seen', revokedAt')
      BY <1>1, <1>2, <1>10 DEF Carried, DecidedOK
    <2>2. ASSUME ~Present(j)
          PROVE  /\ seen'[i][j] = clock
                 /\ revokedAt[j] # Never => clock >= Exp[j]
      <3>1. redis[j] \in Nat /\ clock \in Nat /\ Exp[j] \in Nat
        BY <1>1, Types, ExpAssumption
      <3>2. QED
        BY <1>1, <1>5, <2>2, <3>1 DEF Present, IInv, StoreInv
    <2>3. v # "None" /\ (v = "Allowed" => ~Present(j))
      OBVIOUS
    <2>4. clock \in Nat /\ req[h].now \in Nat
      BY <1>1, Types DEF Request
    <2> HIDE DEF i, j, v, r
    <2>5. AnsweredOK(r, clock', seen', revokedAt')
      BY <1>1, <1>2, <1>10, <2>2, <2>3, <2>4
         DEF AnsweredOK, NotAfterRevocation, Never
    <2>6. QED
      BY <2>1, <2>5 DEF ReqOK
  <1>12. \A g \in Handler :
           \/ req'[g] \in {req[g], Idle}
           \/ ReqOK(req'[g], clock', seen', revokedAt')
    <2> HIDE DEF r
    <2>1. QED
      BY <1>9, <1>11, Types
  <1>13. req' \in [Handler -> Request]
    <2> HIDE DEF r
    <2>1. QED
      BY <1>9, Types
  <1>14. QED
    BY <1>2, <1>4, <1>7, <1>8, <1>12, <1>13, Types, StepIInv

\* The sample predates the answer, so the entry inherits the answer's age.
LEMMA PutVerdictStep ==
  ASSUME IInv, NEW h \in Handler, PutVerdict(h)
  PROVE  IInv'
  <1> DEFINE i == req[h].inst
             j == req[h].jti
             v == req[h].verdict
             n == req[h].now
             c == cachePutLocked(cache[i], j, v, n)
             r == [req[h] EXCEPT !.pc = "decided", !.now = 0]
  <1>1. /\ i \in Instance /\ j \in Jti /\ req[h] \in Request
        /\ req[h].start <= n /\ req[h].start <= clock /\ n <= clock
        /\ v \in Revocation /\ n \in Nat /\ req[h].start \in Nat
    BY DEF PutVerdict, IInv, TypeOK, ReqInv, ReqOK, Carried, AnsweredOK, Request
  <1>2. v = "Allowed" => /\ seen[i][j] # Never
                         /\ n <= seen[i][j]
                         /\ NotAfterRevocation(j, n, 0, clock, revokedAt)
    BY DEF PutVerdict, IInv, ReqInv, ReqOK, AnsweredOK
  <1>3. /\ clock \in Nat /\ seen[i][j] \in Times /\ revokedAt[j] \in Times
        /\ Exp[j] \in Nat /\ CacheTtl \in Nat
    BY <1>1, Types, ExpAssumption, TtlAssumption DEF SeenType, RevokedAtType
  <1>4. UNCHANGED <<clock, redis, revokedAt, seen>>
    BY DEF PutVerdict
  <1>5. cache[i] \in [Jti -> Entry]
    BY <1>1, Types
  <1>6. IsPut(c, cache[i], j, v, n)
    BY <1>1, <1>5, CachePutShape
  <1>7. cache' = [cache EXCEPT ![i] = c]
    BY <1>1, Types DEF PutVerdict
  <1>8. EntryOK([verdict |-> v, until |-> n + CacheTtl], i, j, clock, seen, revokedAt)
    <2> HIDE DEF i, j, v, n
    <2>1. QED
      BY <1>1, <1>2, <1>3 DEF EntryOK, NotAfterRevocation, Times, Never
  <1>9. r \in Request /\ req' = [req EXCEPT ![h] = r]
    BY <1>1 DEF PutVerdict, IInv, TypeOK, Request
  <1>10. /\ r.pc = "decided" /\ r.inst = i /\ r.jti = j /\ r.verdict = v
         /\ r.start = req[h].start /\ r.now = 0
    BY <1>1 DEF Request
  <1>11. ReqOK(r, clock, seen, revokedAt)
    <2>1. Carried(r, clock) /\ AnsweredOK(r, clock, seen, revokedAt)
      BY <1>1, <1>3, <1>10 DEF Carried, AnsweredOK
    <2> HIDE DEF i, j, v, n, r
    <2>2. DecidedOK(r, clock, seen, revokedAt)
      BY <1>1, <1>2, <1>3, <1>10, LagType DEF DecidedOK, NotAfterRevocation, Times, Never
    <2>3. QED
      BY <2>1, <2>2 DEF ReqOK
  <1> HIDE DEF i, j, v, n, c, r
  <1>12. cache' \in [Instance -> [Jti -> Entry]]
    BY <1>6, <1>7, Types DEF IsPut
  <1>13. ASSUME NEW a \in Instance, NEW b \in Jti
         PROVE  \/ cache'[a][b] \in {cache[a][b], NoEntry}
                \/ EntryOK(cache'[a][b], a, b, clock', seen', revokedAt')
    <2>1. CASE a = i
      <3>1. cache'[a][b] = c[b]
        BY <1>7, <2>1, Types
      <3>2. CASE b = j /\ c[b] = [verdict |-> v, until |-> n + CacheTtl]
        BY <1>4, <1>8, <2>1, <3>1, <3>2
      <3>3. QED
        BY <1>6, <2>1, <3>1, <3>2 DEF IsPut
    <2>2. CASE a # i
      BY <1>7, <2>2, Types
    <2>3. QED
      BY <2>1, <2>2
  <1>14. Forward(clock, seen, revokedAt, clock', seen', revokedAt')
    BY <1>4, Types DEF Forward, IInv, SeenInv, SeenType, Times, Never
  <1>15. StoreInv' /\ SeenInv'
    BY <1>4 DEF IInv, StoreInv, SeenInv
  <1>16. /\ req' \in [Handler -> Request]
         /\ \A g \in Handler :
              \/ req'[g] \in {req[g], Idle}
              \/ ReqOK(req'[g], clock', seen', revokedAt')
    BY <1>4, <1>9, <1>11, Types
  <1>17. QED
    BY <1>4, <1>12, <1>13, <1>14, <1>15, <1>16, Types, StepIInv

\* The lifetime was computed at an earlier second, so the key outlives exp.
LEMMA StoreRevokedStep ==
  ASSUME IInv, NEW h \in Handler, NEW acked \in BOOLEAN, StoreRevoked(h, acked)
  PROVE  IInv'
  <1> DEFINE j == req[h].jti
             n == req[h].now
             r == IF acked THEN [req[h] EXCEPT !.pc = "seeding"] ELSE Idle
  <1>1. /\ j \in Jti /\ req[h] \in Request /\ req[h].inst \in Instance
        /\ n <= clock /\ n < Exp[j] /\ n \in Nat /\ req[h].start <= clock
    BY DEF StoreRevoked, IInv, TypeOK, ReqInv, ReqOK, Carried, Request
  <1>2. UNCHANGED <<clock, cache, seen>>
    BY DEF StoreRevoked
  <1>3. clock \in Nat /\ Exp[j] \in Nat
    BY <1>1, Types, ExpAssumption
  <1>4. redis' = [redis EXCEPT ![j] = clock + (Exp[j] - n)]
    BY DEF StoreRevoked, RemainingTtl
  <1>5. clock + (Exp[j] - n) \in Nat /\ clock + (Exp[j] - n) >= Exp[j]
    <2> HIDE DEF j, n
    <2>1. QED
      BY <1>1, <1>3
  <1>6. revokedAt' = IF revokedAt[j] = Never THEN [revokedAt EXCEPT ![j] = clock]
                     ELSE revokedAt
    BY DEF StoreRevoked
  <1>7. r \in Request /\ req' = [req EXCEPT ![h] = r]
    BY <1>1, IdleOK, Types DEF StoreRevoked, Request
  <1>8. ReqOK(r, clock, seen', revokedAt')
    <2>1. CASE acked
      <3>1. /\ r.pc = "seeding" /\ r.inst = req[h].inst /\ r.jti = j
            /\ r.start = req[h].start /\ r.now = n
        BY <1>1, <2>1 DEF Request
      <3> HIDE DEF r
      <3>2. QED
        BY <1>1, <3>1 DEF ReqOK, Carried, AnsweredOK, DecidedOK
    <2>2. CASE ~acked
      BY <1>3, <2>2, IdleOK
    <2>3. QED
      BY <2>1, <2>2
  <1> HIDE DEF j, n, r
  <1>9. redis' \in [Jti -> Nat] /\ revokedAt' \in RevokedAtType
    BY <1>1, <1>3, <1>4, <1>5, <1>6, Types DEF RevokedAtType, Times
  <1>10. Forward(clock, seen, revokedAt, clock', seen', revokedAt')
    BY <1>1, <1>2, <1>6, Types
       DEF Forward, IInv, SeenInv, SeenType, RevokedAtType, Times, Never
  <1>11. StoreInv'
    <2> SUFFICES ASSUME NEW b \in Jti
                 PROVE  IF revokedAt'[b] = Never THEN redis'[b] = 0
                        ELSE revokedAt'[b] <= clock' /\ redis'[b] >= Exp[b]
      BY DEF StoreInv
    <2>1. IF revokedAt[b] = Never THEN redis[b] = 0
          ELSE revokedAt[b] <= clock /\ redis[b] >= Exp[b]
      BY DEF IInv, StoreInv
    <2>2. CASE b = j
      <3>1. redis'[b] >= Exp[b]
        BY <1>4, <1>5, <2>2, Types
      <3>2. revokedAt'[b] # Never /\ revokedAt'[b] <= clock
        BY <1>1, <1>3, <1>6, <2>1, <2>2, Types DEF RevokedAtType, Times, Never
      <3>3. QED
        BY <1>2, <3>1, <3>2
    <2>3. CASE b # j
      BY <1>2, <1>4, <1>6, <2>1, <2>3, Types DEF RevokedAtType
    <2>4. QED
      BY <2>2, <2>3
  <1>12. SeenInv'
    BY <1>2 DEF IInv, SeenInv
  <1>13. /\ req' \in [Handler -> Request]
         /\ \A g \in Handler :
              \/ req'[g] \in {req[g], Idle}
              \/ ReqOK(req'[g], clock', seen', revokedAt')
    BY <1>2, <1>7, <1>8, Types
  <1>14. QED
    BY <1>2, <1>9, <1>10, <1>11, <1>12, <1>13, Types, StepIInv

\* A seed is a Revoked entry, of which EntryOK asks nothing.
LEMMA SeedCacheStep ==
  ASSUME IInv, NEW h \in Handler, SeedCache(h)
  PROVE  IInv'
  <1> DEFINE i == req[h].inst
             j == req[h].jti
             e == [verdict |-> "Revoked", until |-> clock + CacheTtl]
  <1>1. i \in Instance /\ j \in Jti
    BY DEF SeedCache, IInv, ReqInv, ReqOK, Carried
  <1>2. UNCHANGED <<clock, redis, revokedAt, seen>>
    BY DEF SeedCache
  <1>3. e \in Entry /\ EntryOK(e, i, j, clock, seen, revokedAt)
    BY Types, TtlAssumption DEF Entry, EntryOK, Revocation
  <1>4. cache' = cache \/ cache' = [cache EXCEPT ![i][j] = e]
    BY DEF SeedCache
  <1>5. req' = [req EXCEPT ![h] = Idle]
    BY DEF SeedCache
  <1> HIDE DEF i, j, e
  <1>6. cache' \in [Instance -> [Jti -> Entry]]
    BY <1>3, <1>4, Types
  <1>7. ASSUME NEW a \in Instance, NEW b \in Jti
        PROVE  \/ cache'[a][b] \in {cache[a][b], NoEntry}
               \/ EntryOK(cache'[a][b], a, b, clock', seen', revokedAt')
    <2>1. \/ cache'[a][b] = cache[a][b]
          \/ a = i /\ b = j /\ cache'[a][b] = e
      BY <1>1, <1>4, Types
    <2>2. QED
      BY <1>2, <1>3, <2>1
  <1>8. Forward(clock, seen, revokedAt, clock', seen', revokedAt')
    BY <1>2, Types DEF Forward, IInv, SeenInv, SeenType, Times, Never
  <1>9. StoreInv' /\ SeenInv'
    BY <1>2 DEF IInv, StoreInv, SeenInv
  <1>10. /\ req' \in [Handler -> Request]
         /\ \A g \in Handler : req'[g] \in {req[g], Idle}
    BY <1>5, IdleOK, Types
  <1>11. QED
    BY <1>2, <1>6, <1>7, <1>8, <1>9, <1>10, Types, StepIInv

\* What the other processes hold rests on their own answers only.
LEMMA RestartStep ==
  ASSUME IInv, NEW i \in Instance, Restart(i)
  PROVE  IInv'
  <1>1. UNCHANGED <<clock, redis, revokedAt>>
    BY DEF Restart
  <1>2. /\ seen' \in SeenType
        /\ \A a \in Instance : a # i => seen'[a] = seen[a]
        /\ \A j \in Jti : seen'[i][j] = Never
    BY Types DEF Restart, SeenType, Times
  <1>3. /\ cache' \in [Instance -> [Jti -> Entry]]
        /\ \A a \in Instance : a # i => cache'[a] = cache[a]
        /\ \A j \in Jti : cache'[i][j] = NoEntry
    BY NoEntryOK, Types DEF Restart, EmptyCache
  <1>4. /\ req' \in [Handler -> Request]
        /\ \A h \in Handler : req'[h] = IF req[h].inst = i THEN Idle ELSE req[h]
    BY IdleOK, Types DEF Restart
  <1>5. StoreInv'
    BY <1>1 DEF IInv, StoreInv
  <1>6. SeenInv'
    BY <1>1, <1>2, Types DEF IInv, SeenInv, SeenType, Times, Never
  <1>7. CacheInv'
    <2> SUFFICES ASSUME NEW a \in Instance, NEW j \in Jti
                 PROVE  EntryOK(cache'[a][j], a, j, clock, seen', revokedAt)
      BY <1>1 DEF CacheInv
    <2>1. CASE a = i
      BY <1>3, <2>1, NoEntryOK
    <2>2. CASE a # i
      <3>1. EntryOK(cache[a][j], a, j, clock, seen, revokedAt)
        BY DEF IInv, CacheInv
      <3> QED
        BY <1>2, <1>3, <2>2, <3>1 DEF EntryOK
    <2> QED
      BY <2>1, <2>2
  <1>8. ReqInv'
    <2> SUFFICES ASSUME NEW h \in Handler
                 PROVE  ReqOK(req'[h], clock, seen', revokedAt)
      BY <1>1 DEF ReqInv
    <2>1. CASE req[h].inst = i
      BY <1>4, <2>1, IdleOK, Types
    <2>2. CASE req[h].inst # i
      <3>1. ReqOK(req[h], clock, seen, revokedAt) /\ req'[h] = req[h]
        BY <1>4, <2>2 DEF IInv, ReqInv
      <3>2. req[h].pc \in {"answered", "decided"} => seen'[req[h].inst] = seen[req[h].inst]
        BY <1>2, <2>2, <3>1 DEF ReqOK, Carried
      <3> QED
        BY <3>1, <3>2 DEF ReqOK, AnsweredOK, DecidedOK
    <2> QED
      BY <2>1, <2>2
  <1> QED
    BY <1>1, <1>2, <1>3, <1>4, <1>5, <1>6, <1>7, <1>8, Types
       DEF IInv, TypeOK, SeenType, RevokedAtType, Times

LEMMA TickStep ==
  ASSUME IInv, Tick
  PROVE  IInv'
  <1>1. UNCHANGED <<redis, cache, req, revokedAt, seen>> /\ clock' = clock + 1
    BY DEF Tick
  <1>2. Forward(clock, seen, revokedAt, clock', seen', revokedAt')
    BY <1>1, Types DEF Forward, IInv, SeenInv, SeenType, Times, Never
  <1>3. StoreInv' /\ SeenInv'
    BY <1>1, Types
       DEF IInv, StoreInv, SeenInv, SeenType, RevokedAtType, Times, Never
  <1>4. QED
    BY <1>1, <1>2, <1>3, Types, StepIInv

LEMMA NextIInv == IInv /\ [Next]_vars => IInv'
  <1> SUFFICES ASSUME IInv, [Next]_vars PROVE IInv'
    OBVIOUS
  <1>1. CASE Next
    BY <1>1, VerifyStep, CheckUnnamedStep, SampleNowStep, ReadCacheStep,
       LookupAnswersStep, LookupFailsStep, PutVerdictStep, EndStep,
       VerifyForSignOutStep, StoreRevokedStep, SeedCacheStep, RestartStep, TickStep
       DEF Next
  <1>2. CASE UNCHANGED vars
    BY <1>2 DEF vars, IInv, TypeOK, StoreInv, SeenInv, CacheInv, ReqInv
  <1>3. QED
    BY <1>1, <1>2

(* IInv holds in every reachable state.                                     *)
THEOREM Inductive == Spec => []IInv
  BY InitIInv, NextIInv, PTL DEF Spec

-----------------------------------------------------------------------------
(* Every variable keeps its type: no entry, sample or key lifetime goes     *)
(* negative and no request runs outside a process.                          *)
THEOREM TypeCorrect == Spec => []TypeOK
  <1>1. IInv => TypeOK
    BY DEF IInv
  <1>2. QED
    BY <1>1, Inductive, PTL

(* For every cache_ttl, number of instances, requests and tokens, and every *)
(* cache bound: a token that was signed out is not honoured by a request    *)
(* that starts cache_ttl or more seconds later (revoke(), check()).         *)
THEOREM LatencyBounded == Spec => []RevocationLatency
  <1>1. IInv => RevocationLatency
    <2> SUFFICES ASSUME IInv, ~FailOpen, NEW h \in Handler,
                        req[h].jti \in Jti, Honoured(h),
                        revokedAt[req[h].jti] # Never,
                        req[h].start >= revokedAt[req[h].jti] + Lag
                 PROVE  clock >= Exp[req[h].jti]
      BY DEF RevocationLatency
    <2>1. req[h].pc = "decided" /\ req[h].verdict = "Allowed"
      BY DEF Honoured, permits
    <2>2. NotAfterRevocation(req[h].jti, req[h].start + 1, Lag, clock, revokedAt)
      BY <2>1 DEF IInv, ReqInv, ReqOK, DecidedOK
    <2>3. req[h].start \in Nat /\ revokedAt[req[h].jti] \in Nat
      BY Types DEF Request, RevokedAtType, Times
    <2>4. QED
      BY <2>2, <2>3, LagType DEF NotAfterRevocation
  <1>2. QED
    BY <1>1, Inductive, PTL

(* For the same generality: fail-closed.  Whoever is honoured is honoured   *)
(* on an answer Redis gave this instance within the cache window.           *)
THEOREM FailClosed == Spec => []HonouredOnFreshEvidence
  <1>1. IInv => HonouredOnFreshEvidence
    <2> SUFFICES ASSUME IInv, ~FailOpen, NEW h \in Handler,
                        req[h].jti \in Jti, Honoured(h)
                 PROVE  /\ seen[req[h].inst][req[h].jti] # Never
                        /\ req[h].start < seen[req[h].inst][req[h].jti] + Lag
      BY DEF HonouredOnFreshEvidence
    <2>1. req[h].pc = "decided" /\ req[h].verdict = "Allowed"
      BY DEF Honoured, permits
    <2>2. /\ seen[req[h].inst][req[h].jti] # Never
          /\ req[h].start + 1 <= seen[req[h].inst][req[h].jti] + Lag
      BY <2>1 DEF IInv, ReqInv, ReqOK, DecidedOK
    <2>3. req[h].inst \in Instance
      BY <2>1 DEF IInv, ReqInv, ReqOK, Carried
    <2>4. req[h].start \in Nat /\ seen[req[h].inst][req[h].jti] \in Nat
      BY <2>2, <2>3, Types DEF Request, SeenType, Times
    <2>5. QED
      BY <2>2, <2>4, LagType
  <1>2. QED
    BY <1>1, Inductive, PTL

(* For the same generality: the EX that revokeToken computes never lets the *)
(* key die before the token it denies.                                      *)
THEOREM KeyOutlivesToken == Spec => []RevocationOutlivesToken
  <1>1. IInv => RevocationOutlivesToken
    <2> SUFFICES ASSUME IInv, NEW j \in Jti, revokedAt[j] # Never, clock < Exp[j]
                 PROVE  Present(j)
      BY DEF RevocationOutlivesToken
    <2>1. redis[j] >= Exp[j]
      BY DEF IInv, StoreInv
    <2>2. redis[j] \in Nat /\ clock \in Nat /\ Exp[j] \in Nat
      BY Types, ExpAssumption
    <2>3. QED
      BY <2>1, <2>2 DEF Present
  <1>2. QED
    BY <1>1, Inductive, PTL

-----------------------------------------------------------------------------
(* The size of the cache.  Jti may be infinite, so that a size exists is an *)
(* invariant of its own: every step adds at most one entry to a cache.      *)

FiniteInv == \A i \in Instance : IsFiniteSet(Cached(cache[i]))

\* One entry more, whatever it says.
LEMMA OneMore ==
  ASSUME NEW c \in [Jti -> Entry], IsFiniteSet(Cached(c)), NEW j \in Jti, NEW e
  PROVE  /\ IsFiniteSet(Cached([c EXCEPT ![j] = e]))
         /\ Cardinality(Cached([c EXCEPT ![j] = e])) <= Cardinality(Cached(c)) + 1
         /\ Cardinality(Cached(c)) \in Nat
         /\ Cardinality(Cached([c EXCEPT ![j] = e])) \in Nat
  <1> DEFINE d == [c EXCEPT ![j] = e]
  <1>1. Cached(d) \in SUBSET (Cached(c) \cup {j})
    BY DEF Cached
  <1> HIDE DEF d
  <1>2. /\ IsFiniteSet(Cached(c) \cup {j})
        /\ Cardinality(Cached(c) \cup {j}) =
             IF j \in Cached(c) THEN Cardinality(Cached(c)) ELSE Cardinality(Cached(c)) + 1
    BY FS_AddElement
  <1>3. /\ IsFiniteSet(Cached(d))
        /\ Cardinality(Cached(d)) <= Cardinality(Cached(c) \cup {j})
    BY <1>1, <1>2, FS_Subset
  <1>4. Cardinality(Cached(c)) \in Nat /\ Cardinality(Cached(d)) \in Nat
    BY <1>3, FS_CardinalityType
  <1>5. Cardinality(Cached(d)) <= Cardinality(Cached(c)) + 1
    BY <1>2, <1>3, <1>4
  <1> QED
    BY <1>3, <1>4, <1>5 DEF d

\* An empty cache has size 0.
LEMMA EmptySize == IsFiniteSet(Cached(EmptyCache)) /\ Cardinality(Cached(EmptyCache)) = 0
  <1>1. Cached(EmptyCache) = {}
    BY DEF Cached, EmptyCache, NoEntry
  <1> QED
    BY <1>1, FS_EmptySet

\* pruneLocked() brings a cache within the bound.
LEMMA PruneSize ==
  ASSUME NEW c \in [Jti -> Entry], IsFiniteSet(Cached(c)), NEW now \in Nat
  PROVE  /\ IsFiniteSet(Cached(pruneLocked(c, now)))
         /\ Cardinality(Cached(pruneLocked(c, now))) <= MaxCacheEntries
  <1> DEFINE live == [j \in Jti |-> IF c[j].until <= now THEN NoEntry ELSE c[j]]
  <1>1. Cached(live) \in SUBSET Cached(c)
    BY DEF Cached, NoEntry
  <1>2. pruneLocked(c, now) =
          IF Cardinality(Cached(live)) > MaxCacheEntries THEN EmptyCache ELSE live
    BY DEF pruneLocked
  <1> HIDE DEF live
  <1>3. IsFiniteSet(Cached(live)) /\ Cardinality(Cached(live)) \in Nat
    BY <1>1, FS_Subset, FS_CardinalityType
  <1> QED
    BY <1>2, <1>3, EmptySize, BoundAssumption

\* cachePutLocked() leaves the cache alone, or one above the bound at the most.
LEMMA PutSize ==
  ASSUME NEW c \in [Jti -> Entry], IsFiniteSet(Cached(c)), NEW j \in Jti,
         NEW v \in Revocation, NEW now \in Nat
  PROVE  LET d == cachePutLocked(c, j, v, now) IN
         /\ IsFiniteSet(Cached(d))
         /\ d = c \/ Cardinality(Cached(d)) <= MaxCacheEntries + 1
  <1> DEFINE room == IF Cardinality(Cached(c)) >= MaxCacheEntries
                     THEN pruneLocked(c, now) ELSE c
             e == [verdict |-> v, until |-> now + CacheTtl]
             d == cachePutLocked(c, j, v, now)
  <1>1. Cardinality(Cached(c)) \in Nat
    BY FS_CardinalityType
  <1>2. /\ room \in [Jti -> Entry] /\ IsFiniteSet(Cached(room))
        /\ Cardinality(Cached(room)) <= MaxCacheEntries
    BY <1>1, PruneShape, PruneSize, BoundAssumption
  <1>3. d = IF v = "Unknown" \/ CacheTtl = 0 THEN c ELSE [room EXCEPT ![j] = e]
    BY DEF cachePutLocked
  <1> HIDE DEF room, e, d
  <1>4. /\ IsFiniteSet(Cached([room EXCEPT ![j] = e]))
        /\ Cardinality(Cached([room EXCEPT ![j] = e])) <= MaxCacheEntries + 1
    <2>1. /\ IsFiniteSet(Cached([room EXCEPT ![j] = e]))
          /\ Cardinality(Cached([room EXCEPT ![j] = e])) <= Cardinality(Cached(room)) + 1
          /\ Cardinality(Cached(room)) \in Nat
          /\ Cardinality(Cached([room EXCEPT ![j] = e])) \in Nat
      BY <1>2, OneMore
    <2> QED
      BY <1>2, <2>1, BoundAssumption
  <1>5. IsFiniteSet(Cached(d)) /\ (d = c \/ Cardinality(Cached(d)) <= MaxCacheEntries + 1)
    BY <1>3, <1>4
  <1> QED
    BY <1>5 DEF d

\* The end of a check(): what it writes to its own cache, and that no other changes.
LEMMA PutVerdictSize ==
  ASSUME IInv, FiniteInv, NEW h \in Handler, PutVerdict(h)
  PROVE  LET i == req[h].inst IN
         /\ i \in Instance
         /\ IsFiniteSet(Cached(cache'[i]))
         /\ \/ cache'[i] = cache[i]
            \/ Cardinality(Cached(cache'[i])) <= MaxCacheEntries + 1
         /\ \A k \in Instance \ {i} : cache'[k] = cache[k]
  <1> DEFINE i == req[h].inst
             d == cachePutLocked(cache[i], req[h].jti, req[h].verdict, req[h].now)
  <1>1. /\ i \in Instance /\ req[h].jti \in Jti /\ req[h].verdict \in Revocation
        /\ req[h].now \in Nat
    BY DEF PutVerdict, IInv, TypeOK, ReqInv, ReqOK, Carried, AnsweredOK, Request
  <1>2. cache \in [Instance -> [Jti -> Entry]] /\ cache' = [cache EXCEPT ![i] = d]
    BY DEF PutVerdict, IInv, TypeOK
  <1>3. IsFiniteSet(Cached(d)) /\ (d = cache[i] \/ Cardinality(Cached(d)) <= MaxCacheEntries + 1)
    BY <1>1, <1>2, PutSize DEF FiniteInv
  <1> HIDE DEF d
  <1>4. cache'[i] = d /\ \A k \in Instance \ {i} : cache'[k] = cache[k]
    BY <1>1, <1>2
  <1> QED
    BY <1>1, <1>3, <1>4

\* Every cache stays finite.
LEMMA NextFinite == IInv /\ FiniteInv /\ [Next]_vars => FiniteInv'
  <1> SUFFICES ASSUME IInv, FiniteInv, [Next]_vars PROVE FiniteInv'
    OBVIOUS
  <1>1. cache \in [Instance -> [Jti -> Entry]]
    BY DEF IInv, TypeOK
  <1>2. CASE UNCHANGED cache
    BY <1>2 DEF FiniteInv, Cached
  <1>3. ASSUME NEW h \in Handler, PutVerdict(h) PROVE FiniteInv'
    BY <1>3, PutVerdictSize DEF FiniteInv
  <1>4. ASSUME NEW h \in Handler, SeedCache(h), CacheTtl # 0 PROVE FiniteInv'
    <2> DEFINE i == req[h].inst
               e == [verdict |-> "Revoked", until |-> clock + CacheTtl]
               d == [cache[i] EXCEPT ![req[h].jti] = e]
    <2>1. i \in Instance /\ req[h].jti \in Jti
      BY <1>4 DEF SeedCache, IInv, TypeOK, ReqInv, ReqOK, Carried, Request
    <2>2. cache' = [cache EXCEPT ![i] = d]
      BY <1>4 DEF SeedCache
    <2> HIDE DEF e
    <2>3. IsFiniteSet(Cached(d))
      BY <1>1, <2>1, OneMore DEF FiniteInv
    <2> HIDE DEF d
    <2> QED
      BY <1>1, <2>1, <2>2, <2>3 DEF FiniteInv
  <1>5. ASSUME NEW i \in Instance, Restart(i) PROVE FiniteInv'
    BY <1>1, <1>5, EmptySize DEF Restart, FiniteInv
  <1>6. \/ UNCHANGED cache
        \/ \E h \in Handler : PutVerdict(h) \/ (SeedCache(h) /\ CacheTtl # 0)
        \/ \E i \in Instance : Restart(i)
    BY DEF Next, vars, Verify, CheckUnnamed, SampleNow, ReadCache, LookupAnswers,
           LookupFails, Respond, VerifyForSignOut, RevokeFails, StoreRevoked, SeedCache, Tick
  <1> QED
    BY <1>2, <1>3, <1>4, <1>5, <1>6

\* Only the second critical section of check() turns "answered" into "decided".
LEMMA OnlyPutDecides ==
  ASSUME IInv, Next, NEW h \in Handler, req[h].pc = "answered", req'[h].pc = "decided"
  PROVE  PutVerdict(h)
  <1> DEFINE Other(g) ==
               \/ \E i \in Instance, j \in Jti \cup {NoJti} :
                    Verify(g, i, j) \/ VerifyForSignOut(g, i, j)
               \/ CheckUnnamed(g) \/ SampleNow(g) \/ ReadCache(g) \/ LookupAnswers(g)
               \/ LookupFails(g) \/ Respond(g) \/ RevokeFails(g) \/ SeedCache(g)
               \/ \E acked \in BOOLEAN : StoreRevoked(g, acked)
  <1>1. req \in [Handler -> Request]
    BY DEF IInv, TypeOK
  <1>2. ~Tick /\ \A i \in Instance : ~Restart(i)
    BY <1>1 DEF Tick, Restart, Idle
  <1>3. ~Other(h)
    BY DEF Verify, VerifyForSignOut, CheckUnnamed, SampleNow, ReadCache,
       LookupAnswers, LookupFails, Respond, RevokeFails, SeedCache, StoreRevoked
  <1>4. ASSUME NEW g \in Handler \ {h}, PutVerdict(g) \/ Other(g) PROVE FALSE
    <2>1. \E r : req' = [req EXCEPT ![g] = r]
      BY <1>4 DEF PutVerdict, Verify, VerifyForSignOut, CheckUnnamed, SampleNow, ReadCache,
         LookupAnswers, LookupFails, Respond, RevokeFails, SeedCache, StoreRevoked
    <2> QED
      BY <1>1, <2>1
  <1>5. \E g \in Handler : PutVerdict(g) \/ Other(g)
    BY <1>2 DEF Next
  <1> HIDE DEF Other
  <1> QED
    BY <1>3, <1>4, <1>5

(* pruneLocked() is the backstop against a flood of jtis: for every bound and *)
(* every number of tokens, a check() leaves its cache as it was or at most    *)
(* one entry above max_cache_entries.                                         *)
THEOREM CacheBounded == Spec => ChecksKeepCacheBounded
  <1> DEFINE A == \A h \in Handler :
                    req[h].pc = "answered" /\ req'[h].pc = "decided" =>
                      \/ Cardinality(Cached(cache'[req[h].inst])) <= MaxCacheEntries + 1
                      \/ cache'[req[h].inst] = cache[req[h].inst]
  <1>1. Init => FiniteInv
    BY EmptySize DEF Init, FiniteInv
  <1>2. Spec => []FiniteInv
    BY <1>1, NextFinite, Inductive, PTL DEF Spec
  <1>3. IInv /\ FiniteInv /\ [Next]_vars => [A]_vars
    <2> SUFFICES ASSUME IInv, FiniteInv, Next, NEW h \in Handler,
                        req[h].pc = "answered", req'[h].pc = "decided"
                 PROVE  \/ Cardinality(Cached(cache'[req[h].inst])) <= MaxCacheEntries + 1
                        \/ cache'[req[h].inst] = cache[req[h].inst]
      BY DEF vars
    <2>1. PutVerdict(h)
      BY OnlyPutDecides
    <2> QED
      BY <2>1, PutVerdictSize
  <1> QED
    BY <1>2, <1>3, Inductive, PTL DEF Spec, ChecksKeepCacheBounded
==============================================================================
