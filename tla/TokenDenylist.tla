---------------------------- MODULE TokenDenylist ----------------------------
(***************************************************************************)
(* The revoked-token denylist of the HTTP bridge: class TokenDenylist      *)
(* (src/include/token_denylist.h, src/src/token_denylist.cpp) together     *)
(* with its two callers in src/src/http_server.cpp, the bearer path of     *)
(* authenticate() and the sign-out handler revokeToken().                  *)
(*                                                                         *)
(* Several bridge instances share one Redis.  Each instance keeps a cache  *)
(* of verdicts, guarded by a mutex that is NOT held across the Redis round *)
(* trip, and serves several requests at once.  A step below is what one    *)
(* handler does between two points at which another handler, a Redis       *)
(* failure, a restart or the passing of a second can intervene.            *)
(*                                                                         *)
(* The module models the enabled denylist.  With opts_.enabled = false     *)
(* check() is constantly Allowed and revoke() constantly true.             *)
(***************************************************************************)
EXTENDS Integers, FiniteSets

CONSTANTS
  Instance,         \* bridge processes
  Handler,          \* requests in flight; the balancer sends each to some process
  Jti,              \* token identifiers
  NoJti,            \* the empty jti of a token minted without one
  Exp,              \* Exp[j] is the exp claim of the token with jti j
  CacheTtl,         \* Options::cache_ttl
  MaxCacheEntries,  \* Options::max_cache_entries
  FailOpen,         \* Options::fail_open
  MaxTime           \* bound on the clock

ASSUME JtiAssumption  == NoJti \notin Jti
ASSUME ExpAssumption  == Exp \in [Jti \cup {NoJti} -> Nat]
ASSUME TtlAssumption  == CacheTtl \in Nat
ASSUME BoundAssumption == MaxCacheEntries \in Nat /\ MaxTime \in Nat
ASSUME FailOpenAssumption == FailOpen \in BOOLEAN

VARIABLES
  clock,      \* seconds, as std::time(nullptr) and Redis see them
  redis,      \* redis[j]: when the key of j expires, 0 if never written
  cache,      \* cache[i][j]: the entry of j in cache_ of process i
  req,        \* req[h]: the locals of the handler thread h is running
  revokedAt,  \* history: when the key of j was first written
  seen        \* history: when process i, since it started, was last told by Redis
              \*   that j is absent

vars == <<clock, redis, cache, req, revokedAt, seen>>

-----------------------------------------------------------------------------
Revocation == {"Allowed", "Revoked", "Unknown"}

Never == -1

NoEntry == [verdict |-> "None", until |-> 0]

Entry == [verdict : Revocation \cup {"None"}, until : Nat]

Idle ==
  [pc |-> "idle", inst |-> "None", jti |-> NoJti, start |-> 0, now |-> 0,
   verdict |-> "None"]

\* start is the `now` the signature and exp were verified at, now the one the
\* denylist call works with (0 outside it).
Request ==
  [pc : {"idle", "verified", "sampled", "missed", "answered", "decided",
         "revoking", "seeding"},
   inst : Instance \cup {"None"},
   jti : Jti \cup {NoJti},
   start : Nat,
   now : Nat,
   verdict : Revocation \cup {"None"}]

EmptyCache == [j \in Jti |-> NoEntry]

Cached(c) == {j \in Jti : c[j].verdict # "None"}

TypeOK ==
  /\ clock \in Nat
  /\ redis \in [Jti -> Nat]
  /\ cache \in [Instance -> [Jti -> Entry]]
  /\ req \in [Handler -> Request]
  /\ revokedAt \in [Jti -> Nat \cup {Never}]
  /\ seen \in [Instance -> [Jti -> Nat \cup {Never}]]

Init ==
  /\ clock = 0
  /\ redis = [j \in Jti |-> 0]
  /\ cache = [i \in Instance |-> EmptyCache]
  /\ req = [h \in Handler |-> Idle]
  /\ revokedAt = [j \in Jti |-> Never]
  /\ seen = [i \in Instance |-> [j \in Jti |-> Never]]

-----------------------------------------------------------------------------
(* The cache.                                                              *)

\* Drop what has expired; if more than the bound is still live, drop the lot.
pruneLocked(c, now) ==
  LET live == [j \in Jti |-> IF c[j].until <= now THEN NoEntry ELSE c[j]]
  IN  IF Cardinality(Cached(live)) > MaxCacheEntries THEN EmptyCache ELSE live

\* Mutant: the lifetime is taken off the sample instead of added to it.
cachePutBackdated(c, j, v, now) ==
  IF v = "Unknown" \/ CacheTtl = 0
  THEN c
  ELSE [c EXCEPT ![j] = [verdict |-> v, until |-> now - CacheTtl]]

\* `now` is the caller's sample, taken BEFORE it asked Redis.
cachePutLocked(c, j, v, now) ==
  LET room == IF Cardinality(Cached(c)) >= MaxCacheEntries
              THEN pruneLocked(c, now) ELSE c
  IN  IF v = "Unknown" \/ CacheTtl = 0
      THEN c
      ELSE [room EXCEPT ![j] = [verdict |-> v, until |-> now + CacheTtl]]

cacheHit(c, j, now) == c[j].verdict # "None" /\ c[j].until > now

\* Mutant: only a definite Revoked is refused.
permitsUnlessRevoked(v) == v # "Revoked"

\* The policy call on a verdict.
permits(v) ==
  \/ v = "Allowed"
  \/ v = "Unknown" /\ FailOpen

\* What EXISTS answers: the key is there until its EX runs out.
Present(j) == redis[j] > clock

-----------------------------------------------------------------------------
(* authenticate(): verify the JWT, then permits(jti) = check(jti).         *)

\* jwt::verify refuses a token once now >= exp.
Verify(h, i, j) ==
  /\ req[h].pc = "idle"
  /\ clock < Exp[j]
  /\ req' = [req EXCEPT ![h] =
               [@ EXCEPT !.pc = "verified", !.inst = i, !.jti = j,
                         !.start = clock]]
  /\ UNCHANGED <<clock, redis, cache, revokedAt, seen>>

\* check() of an empty jti: there is nothing to look up.
CheckUnnamed(h) ==
  /\ req[h].pc = "verified"
  /\ req[h].jti = NoJti
  /\ req' = [req EXCEPT ![h].pc = "decided", ![h].verdict = "Allowed"]
  /\ UNCHANGED <<clock, redis, cache, revokedAt, seen>>

SampleNow(h) ==
  /\ req[h].pc = "verified"
  /\ req[h].jti # NoJti
  /\ req' = [req EXCEPT ![h].pc = "sampled", ![h].now = clock]
  /\ UNCHANGED <<clock, redis, cache, revokedAt, seen>>

\* First critical section of check().
ReadCache(h) ==
  LET j == req[h].jti
      c == cache[req[h].inst]
  IN  /\ req[h].pc = "sampled"
      /\ req' = [req EXCEPT ![h] =
                   IF cacheHit(c, j, req[h].now)
                   THEN [@ EXCEPT !.pc = "decided", !.verdict = c[j].verdict, !.now = 0]
                   ELSE [@ EXCEPT !.pc = "missed"]]
      /\ UNCHANGED <<clock, redis, cache, revokedAt, seen>>

\* The round trip to Redis answers.
LookupAnswers(h) ==
  LET j == req[h].jti
      i == req[h].inst
  IN  /\ req[h].pc = "missed"
      /\ req' = [req EXCEPT ![h].pc = "answered",
                            ![h].verdict = IF Present(j) THEN "Revoked" ELSE "Allowed"]
      /\ seen' = IF Present(j) THEN seen ELSE [seen EXCEPT ![i][j] = clock]
      /\ UNCHANGED <<clock, redis, cache, revokedAt>>

\* No connection, a dropped one, or an error reply.
LookupFails(h) ==
  /\ req[h].pc = "missed"
  /\ req' = [req EXCEPT ![h].pc = "answered", ![h].verdict = "Unknown"]
  /\ UNCHANGED <<clock, redis, cache, revokedAt, seen>>

\* Mutant: the entry lives from the put, not from before the lookup.
PutVerdictFromNow(h) ==
  LET r == req[h]
      i == req[h].inst
  IN  /\ r.pc = "answered"
      /\ cache' = [cache EXCEPT ![i] = cachePutLocked(@, r.jti, r.verdict, clock)]
      /\ req' = [req EXCEPT ![h].pc = "decided", ![h].now = 0]
      /\ UNCHANGED <<clock, redis, revokedAt, seen>>

\* Second critical section of check().
PutVerdict(h) ==
  LET r == req[h]
      i == req[h].inst
  IN  /\ r.pc = "answered"
      /\ cache' = [cache EXCEPT ![i] = cachePutLocked(@, r.jti, r.verdict, r.now)]
      /\ req' = [req EXCEPT ![h].pc = "decided", ![h].now = 0]
      /\ UNCHANGED <<clock, redis, revokedAt, seen>>

\* The request is served if permits(verdict), refused otherwise.
Respond(h) ==
  /\ req[h].pc = "decided"
  /\ req' = [req EXCEPT ![h] = Idle]
  /\ UNCHANGED <<clock, redis, cache, revokedAt, seen>>

-----------------------------------------------------------------------------
(* revokeToken(): verify the JWT, then revoke(jti, exp - now).             *)

VerifyForSignOut(h, i, j) ==
  /\ req[h].pc = "idle"
  /\ clock < Exp[j]
  /\ req' = [req EXCEPT ![h] =
               [@ EXCEPT !.pc = "revoking", !.inst = i, !.jti = j,
                         !.now = clock]]
  /\ UNCHANGED <<clock, redis, cache, revokedAt, seen>>

\* revoke() of an empty jti, and a SET that never reached Redis: 503.
RevokeFails(h) ==
  /\ req[h].pc = "revoking"
  /\ req' = [req EXCEPT ![h] = Idle]
  /\ UNCHANGED <<clock, redis, cache, revokedAt, seen>>

\* Mutant: the key is kept for the cache window instead of the token's lifetime.
CacheWindowTtl(r) == CacheTtl

\* The lifetime given to the key: what the token had left when it was verified.
RemainingTtl(r) == Exp[r.jti] - r.now

\* The SET reaches Redis; the reply may be lost, which revoke() reports as false.
StoreRevoked(h, acked) ==
  LET r == req[h]
  IN  /\ r.pc = "revoking"
      /\ r.jti # NoJti
      /\ redis' = [redis EXCEPT ![r.jti] = clock + RemainingTtl(r)]
      /\ revokedAt' = IF revokedAt[r.jti] = Never
                      THEN [revokedAt EXCEPT ![r.jti] = clock] ELSE revokedAt
      /\ req' = [req EXCEPT ![h] = IF acked THEN [@ EXCEPT !.pc = "seeding"] ELSE Idle]
      /\ UNCHANGED <<clock, cache, seen>>

\* The critical section of revoke(); `now` is sampled inside it.
SeedCache(h) ==
  LET j == req[h].jti
      i == req[h].inst
  IN  /\ req[h].pc = "seeding"
      /\ cache' = IF CacheTtl = 0 THEN cache
                  ELSE [cache EXCEPT ![i][j] =
                          [verdict |-> "Revoked", until |-> clock + CacheTtl]]
      /\ req' = [req EXCEPT ![h] = Idle]
      /\ UNCHANGED <<clock, redis, revokedAt, seen>>

-----------------------------------------------------------------------------
\* A process dies and comes back: its cache, its requests and everything Redis
\* ever told it are gone.
Restart(i) ==
  /\ cache' = [cache EXCEPT ![i] = EmptyCache]
  /\ req' = [h \in Handler |-> IF req[h].inst = i THEN Idle ELSE req[h]]
  /\ seen' = [seen EXCEPT ![i] = [j \in Jti |-> Never]]
  /\ UNCHANGED <<clock, redis, revokedAt>>

Tick ==
  /\ clock < MaxTime
  /\ clock' = clock + 1
  /\ UNCHANGED <<redis, cache, req, revokedAt, seen>>

Next ==
  \/ \E h \in Handler, i \in Instance, j \in Jti \cup {NoJti} : Verify(h, i, j)
  \/ \E h \in Handler : CheckUnnamed(h)
  \/ \E h \in Handler : SampleNow(h)
  \/ \E h \in Handler : ReadCache(h)
  \/ \E h \in Handler : LookupAnswers(h)
  \/ \E h \in Handler : LookupFails(h)
  \/ \E h \in Handler : PutVerdict(h)
  \/ \E h \in Handler : Respond(h)
  \/ \E h \in Handler, i \in Instance, j \in Jti \cup {NoJti} :
       VerifyForSignOut(h, i, j)
  \/ \E h \in Handler : RevokeFails(h)
  \/ \E h \in Handler, acked \in BOOLEAN : StoreRevoked(h, acked)
  \/ \E h \in Handler : SeedCache(h)
  \/ \E i \in Instance : Restart(i)
  \/ Tick

Spec == Init /\ [][Next]_vars

-----------------------------------------------------------------------------
(* What the denylist promises.                                             *)

Honoured(h) == req[h].pc = "decided" /\ permits(req[h].verdict)

\* A second is the finest time the code sees, so even an uncached lookup can
\* fall in the second of the sign-out.
Lag == IF CacheTtl = 0 THEN 1 ELSE CacheTtl

(* The bound token_denylist.h states for the class: a signed-out token keeps *)
(* working for at most cache_ttl seconds.  A request that verifies its token *)
(* Lag or more seconds after the revocation reached Redis is not honoured on *)
(* any instance, whatever lookups, puts, evictions, failures and restarts    *)
(* overlapped the sign-out.  The one exception is a request verified before  *)
(* exp and answered after it: the key dies with the token, and EXISTS may be *)
(* asked a moment too late.                                                  *)
RevocationLatency ==
  ~FailOpen =>
    \A h \in Handler :
      LET j == req[h].jti IN
      /\ Honoured(h)
      /\ j \in Jti
      /\ revokedAt[j] # Never
      /\ req[h].start >= revokedAt[j] + Lag
      => clock >= Exp[j]

(* Fail-closed: no request is honoured on a guess.  Every honoured request   *)
(* rests on an actual "absent" answer that Redis gave to this very process,  *)
(* since it last started, less than Lag seconds before the token was         *)
(* verified, so an outage of Redis refuses everyone once the cached verdicts *)
(* have run out or the process has restarted.                                *)
HonouredOnFreshEvidence ==
  ~FailOpen =>
    \A h \in Handler :
      LET j == req[h].jti IN
      Honoured(h) /\ j \in Jti =>
        /\ seen[req[h].inst][j] # Never
        /\ req[h].start < seen[req[h].inst][j] + Lag

(* A revocation that reached Redis stays on the shared denylist for as long  *)
(* as jwt::verify would still accept the token, however late the SET ran     *)
(* after its lifetime was computed, and however often sign-out was repeated. *)
RevocationOutlivesToken ==
  \A j \in Jti : revokedAt[j] # Never /\ clock < Exp[j] => Present(j)

(* pruneLocked is the backstop against a flood of distinct jtis: a check()   *)
(* never leaves more than one entry above max_cache_entries.  Only revoke(), *)
(* which seeds without looking at the size, may add to a full cache.         *)
ChecksKeepCacheBounded ==
  [][\A h \in Handler :
       req[h].pc = "answered" /\ req'[h].pc = "decided" =>
         \/ Cardinality(Cached(cache'[req[h].inst])) <= MaxCacheEntries + 1
         \/ cache'[req[h].inst] = cache[req[h].inst]]_vars
=============================================================================
