--------------------------- MODULE TenantGateProofs ---------------------------
(***************************************************************************)
(* The promises of the tenant-state gate, for any number of concurrent     *)
(* requests and tenants, any registry and any pair of cache lifetimes.     *)
(*                                                                         *)
(* The three properties speak of finished calls.  They become inductive    *)
(* with what they rest on: what a cached entry and an answered lookup say  *)
(* about the last time the tenant was opened, closed or seen live.  Those  *)
(* facts are operators over the clock t and the history (c, o, l) =        *)
(* (closedAt, openedAt, toldLive) of one tenant, so that a step which      *)
(* moves the history is one arithmetic lemma about them.                   *)
(***************************************************************************)
EXTENDS TenantGate, TLAPS

Stamp == Nat \cup {Never}

\* What a cache entry may rest on.
EntryOK(e, t, c, o, l) ==
  /\ e.admits => /\ l # Never
                 /\ e.until <= l + AdmitTtl
                 /\ c # Never => e.until <= c + AdmitTtl
  /\ ~e.admits => /\ e.until <= t + RefuseTtl
                  /\ e.code # "unknown" /\ o # Never => e.until <= o + RefuseTtl

\* What an answered lookup may rest on.
AnswerOK(r, c, o, l) ==
  /\ admits_or_refuses_unknown(r.state, r.ok) =>
       /\ l # Never
       /\ r.now <= l
       /\ c # Never => r.now <= c
  /\ ~admits_or_refuses_unknown(r.state, r.ok) =>
       (refusal_code(r.state, r.ok) # "unknown" /\ o # Never => r.now <= o)

\* The three properties, of one finished call.
VerdictOK(r, c, o, l) ==
  /\ c # Never /\ r.now >= c + AdmitTtl => ~r.admits
  /\ o # Never /\ r.now >= o + RefuseTtl => r.admits \/ r.code = "unknown"
  /\ r.admits => l # Never /\ r.now < l + AdmitTtl

ReqOK(r, c, o, l) ==
  /\ r.pc = "answered" => AnswerOK(r, c, o, l)
  /\ r.pc = "decided" => VerdictOK(r, c, o, l)

\* The history of a tenant lies in the past.
PastOK(t, c, o, l) == c <= t /\ o <= t /\ l <= t

\* ... and says whether the tenant is live.
LiveOK(s, c, o) ==
  /\ admits(s) => c = Never /\ o # Never
  /\ ~admits(s) => o = Never /\ c # Never

\* The invariant of one handler.
HandlerOK(r) ==
  /\ r.now <= clock
  /\ r.pc = "idle" => r = Idle
  /\ r.pc \in {"sampled", "missed"} => ~r.ok
  /\ r.pc \in {"sampled", "missed", "answered"} => r.tenant \in Tenant
  /\ \A t \in Tenant :
       r.tenant = t => ReqOK(r, closedAt[t], openedAt[t], toldLive[t])

\* The invariant of one tenant.
TenantOK(t) ==
  /\ PastOK(clock, closedAt[t], openedAt[t], toldLive[t])
  /\ LiveOK(state[t], closedAt[t], openedAt[t])
  /\ EntryOK(cache[t], clock, closedAt[t], openedAt[t], toldLive[t])

IInv ==
  /\ TypeOK
  /\ \A t \in Tenant : TenantOK(t)
  /\ \A h \in Handler : HandlerOK(req[h])

-----------------------------------------------------------------------------
\* The clock and the history move on: time passes (t <= t2), the core answers
\* "live" once more (l <= l2), the tenant is closed or opened now (c2, o2 = t).
Onward(t, c, o, l, t2, c2, o2, l2) ==
  /\ t <= t2
  /\ c2 \in {c, Never, t}
  /\ o2 \in {o, Never, t}
  /\ l <= l2

\* A cache entry stays good.
LEMMA EntryOnward ==
  ASSUME NEW e \in Entry, NEW t \in Nat, NEW c \in Stamp, NEW o \in Stamp, NEW l \in Stamp,
         NEW t2 \in Nat, NEW c2 \in Stamp, NEW o2 \in Stamp, NEW l2 \in Stamp,
         PastOK(t, c, o, l), Onward(t, c, o, l, t2, c2, o2, l2),
         EntryOK(e, t, c, o, l)
  PROVE  EntryOK(e, t2, c2, o2, l2)
  <1> e.until \in Nat /\ e.admits \in BOOLEAN
    BY DEF Entry
  <1>1. CASE e.admits
    BY <1>1, LifetimeAssumption DEF EntryOK, PastOK, Onward, Stamp, Never
  <1>2. CASE ~e.admits
    BY <1>2, LifetimeAssumption DEF EntryOK, PastOK, Onward, Stamp, Never
  <1> QED BY <1>1, <1>2

\* So does what a handler holds.
LEMMA ReqOnward ==
  ASSUME NEW r \in Request, NEW t \in Nat, NEW c \in Stamp, NEW o \in Stamp, NEW l \in Stamp,
         NEW t2 \in Nat, NEW c2 \in Stamp, NEW o2 \in Stamp, NEW l2 \in Stamp,
         PastOK(t, c, o, l), Onward(t, c, o, l, t2, c2, o2, l2),
         r.now <= t, ReqOK(r, c, o, l)
  PROVE  ReqOK(r, c2, o2, l2)
  <1> r.now \in Nat /\ r.admits \in BOOLEAN
    BY DEF Request
  <1>1. AnswerOK(r, c, o, l) => AnswerOK(r, c2, o2, l2)
    BY DEF AnswerOK, PastOK, Onward, Stamp, Never
  <1>2. VerdictOK(r, c, o, l) => VerdictOK(r, c2, o2, l2)
    BY LifetimeAssumption DEF VerdictOK, PastOK, Onward, Stamp, Never
  <1> QED BY <1>1, <1>2 DEF ReqOK

\* An entry that is hit decides well.
LEMMA HitDecides ==
  ASSUME NEW e \in Entry, NEW r \in Request, NEW t \in Nat,
         NEW c \in Stamp, NEW o \in Stamp, NEW l \in Stamp,
         EntryOK(e, t, c, o, l), r.now < e.until,
         r.admits = e.admits, r.code = e.code
  PROVE  VerdictOK(r, c, o, l)
  <1> e.until \in Nat /\ e.admits \in BOOLEAN /\ r.now \in Nat
    BY DEF Entry, Request
  <1>1. CASE e.admits
    BY <1>1, LifetimeAssumption DEF EntryOK, VerdictOK, Stamp, Never
  <1>2. CASE ~e.admits
    BY <1>2, LifetimeAssumption DEF EntryOK, VerdictOK, Stamp, Never
  <1> QED BY <1>1, <1>2

\* An answer decides well, and makes a good entry.
LEMMA AnswerDecides ==
  ASSUME NEW r \in Request, NEW t \in Nat,
         NEW c \in Stamp, NEW o \in Stamp, NEW l \in Stamp,
         AnswerOK(r, c, o, l), r.now <= t,
         NEW adm \in BOOLEAN, adm = admits_or_refuses_unknown(r.state, r.ok),
         NEW code \in RefusalCode, code = refusal_code(r.state, r.ok),
         NEW d \in Request, d.now = r.now, d.admits = adm, d.code = code
  PROVE  /\ cached(r.now, adm, code) \in Entry
         /\ EntryOK(cached(r.now, adm, code), t, c, o, l)
         /\ VerdictOK(d, c, o, l)
  <1> DEFINE e == cached(r.now, adm, code)
  <1>1. r.now \in Nat /\ d.now \in Nat
    BY DEF Request
  <1>2. /\ e.until = r.now + (IF adm THEN AdmitTtl ELSE RefuseTtl)
        /\ e.admits = adm
        /\ e.code = code
    BY DEF cached
  <1>3. e \in Entry
    BY <1>1, LifetimeAssumption DEF cached, Entry
  <1>4. EntryOK(e, t, c, o, l)
    BY <1>1, <1>2, LifetimeAssumption DEF EntryOK, AnswerOK, Stamp, Never
  <1>5. VerdictOK(d, c, o, l)
    BY <1>1, LifetimeAssumption DEF VerdictOK, AnswerOK, Stamp, Never
  <1> QED BY <1>3, <1>4, <1>5

-----------------------------------------------------------------------------
\* The initial state.
LEMMA InitIInv == Init => IInv
  <1> SUFFICES ASSUME Init PROVE IInv
    OBVIOUS
  <1>1. TypeOK
    <2>1. NoEntry \in Entry /\ Idle \in Request
      BY DEF NoEntry, Entry, Idle, Request, RefusalCode
    <2>2. /\ closedAt \in [Tenant -> Nat \cup {Never}]
          /\ openedAt \in [Tenant -> Nat \cup {Never}]
          /\ toldLive \in [Tenant -> Nat \cup {Never}]
      BY DEF Init
    <2> QED BY <2>1, <2>2 DEF Init, TypeOK
  <1>2. ASSUME NEW t \in Tenant PROVE TenantOK(t)
    <2>1. /\ clock = 0 /\ toldLive[t] = -1
          /\ closedAt[t] = IF admits(state[t]) THEN -1 ELSE 0
          /\ openedAt[t] = IF admits(state[t]) THEN 0 ELSE -1
      BY DEF Init, Never
    <2>2. PastOK(clock, closedAt[t], openedAt[t], toldLive[t])
      BY <2>1 DEF PastOK
    <2>3. LiveOK(state[t], closedAt[t], openedAt[t])
      BY <2>1 DEF LiveOK, Never
    <2>4. cache[t].until = 0 /\ cache[t].admits = FALSE
      BY DEF Init, NoEntry
    <2>5. EntryOK(cache[t], clock, closedAt[t], openedAt[t], toldLive[t])
      BY <2>1, <2>4, LifetimeAssumption DEF EntryOK, Never
    <2> QED BY <2>2, <2>3, <2>5 DEF TenantOK
  <1>3. ASSUME NEW h \in Handler PROVE HandlerOK(req[h])
    <2>1. req[h] = Idle /\ clock = 0
      BY DEF Init
    <2>2. Idle.pc = "idle" /\ Idle.now = 0
      BY DEF Idle
    <2> QED BY <2>1, <2>2 DEF HandlerOK, ReqOK
  <1> QED BY <1>1, <1>2, <1>3 DEF IInv

\* A step of handler h that writes nothing shared.
LEMMA LocalStep ==
  ASSUME IInv, NEW h \in Handler, NEW r \in Request,
         UNCHANGED <<clock, state, cache, closedAt, openedAt, toldLive>>,
         req' = [req EXCEPT ![h] = r], HandlerOK(r)
  PROVE  IInv'
  <1>1. TypeOK'
    BY DEF IInv, TypeOK
  <1>2. ASSUME NEW t \in Tenant PROVE TenantOK(t)'
    BY DEF IInv, TenantOK
  <1>3. ASSUME NEW k \in Handler PROVE HandlerOK(req[k])'
    BY DEF IInv, TypeOK, HandlerOK
  <1> QED BY <1>1, <1>2, <1>3 DEF IInv

\* A step that only moves the clock and the history of the tenants onward.
LEMMA HistoryStep ==
  ASSUME IInv, TypeOK', UNCHANGED <<cache, req>>, clock <= clock',
         \A t \in Tenant :
           /\ Onward(clock, closedAt[t], openedAt[t], toldLive[t],
                     clock', closedAt'[t], openedAt'[t], toldLive'[t])
           /\ PastOK(clock', closedAt'[t], openedAt'[t], toldLive'[t])
           /\ LiveOK(state'[t], closedAt'[t], openedAt'[t])
  PROVE  IInv'
  <1>1. ASSUME NEW t \in Tenant PROVE TenantOK(t)'
    <2>1. /\ cache[t] \in Entry /\ clock \in Nat /\ clock' \in Nat
          /\ closedAt[t] \in Stamp /\ openedAt[t] \in Stamp /\ toldLive[t] \in Stamp
          /\ closedAt'[t] \in Stamp /\ openedAt'[t] \in Stamp /\ toldLive'[t] \in Stamp
      BY DEF IInv, TypeOK, Stamp
    <2>2. EntryOK(cache[t], clock', closedAt'[t], openedAt'[t], toldLive'[t])
      BY <2>1, EntryOnward DEF IInv, TenantOK
    <2> QED BY <2>2 DEF TenantOK
  <1>2. ASSUME NEW h \in Handler PROVE HandlerOK(req[h])'
    <2>0. req[h] \in Request /\ clock \in Nat /\ clock' \in Nat /\ HandlerOK(req[h])
      BY DEF IInv, TypeOK
    <2>1. ASSUME NEW t \in Tenant, req[h].tenant = t
          PROVE  ReqOK(req[h], closedAt'[t], openedAt'[t], toldLive'[t])
      <3>1. /\ closedAt[t] \in Stamp /\ openedAt[t] \in Stamp /\ toldLive[t] \in Stamp
            /\ closedAt'[t] \in Stamp /\ openedAt'[t] \in Stamp /\ toldLive'[t] \in Stamp
        BY DEF IInv, TypeOK, Stamp
      <3>2. /\ PastOK(clock, closedAt[t], openedAt[t], toldLive[t])
            /\ ReqOK(req[h], closedAt[t], openedAt[t], toldLive[t])
            /\ req[h].now <= clock
        BY <2>0, <2>1 DEF IInv, TenantOK, HandlerOK
      <3> QED BY <2>0, <3>1, <3>2, ReqOnward
    <2>2. req[h].now <= clock'
      <3>1. req[h].now \in Nat /\ req[h].now <= clock
        BY <2>0 DEF HandlerOK, Request
      <3> QED BY <2>0, <3>1
    <2> QED BY <2>0, <2>1, <2>2 DEF HandlerOK
  <1> QED BY <1>1, <1>2 DEF IInv

-----------------------------------------------------------------------------
\* The facts every step starts from.
LEMMA Types ==
  ASSUME IInv, NEW h \in Handler
  PROVE  /\ clock \in Nat
         /\ req \in [Handler -> Request]
         /\ req[h] \in Request
         /\ req[h].now \in Nat
         /\ HandlerOK(req[h])
  BY DEF IInv, TypeOK, Request

\* A call begins.
LEMMA EnterStep ==
  ASSUME IInv, NEW h \in Handler, NEW t \in Tenant, Enter(h, t)
  PROVE  IInv'
  <1> DEFINE r == [req[h] EXCEPT !.pc = "sampled", !.tenant = t, !.now = clock]
  <1>1. r \in Request /\ req' = [req EXCEPT ![h] = r]
    BY Types DEF Enter, Request
  <1>2. r.pc = "sampled" /\ r.tenant = t /\ r.now = clock /\ r.ok = req[h].ok
    BY Types DEF Request
  <1>3. req[h].ok = FALSE
    BY Types DEF Enter, HandlerOK, Idle
  <1>4. HandlerOK(r)
    BY <1>2, <1>3, Types DEF HandlerOK, ReqOK
  <1> QED BY <1>1, <1>4, LocalStep DEF Enter

\* A call without a tenant is refused at once.
LEMMA EnterUnnamedStep ==
  ASSUME IInv, NEW h \in Handler, EnterUnnamed(h)
  PROVE  IInv'
  <1> DEFINE r == [req[h] EXCEPT !.pc = "decided", !.now = clock, !.code = "unknown"]
  <1>1. r \in Request /\ req' = [req EXCEPT ![h] = r]
    BY Types DEF EnterUnnamed, Request, RefusalCode
  <1>2. /\ r.pc = "decided" /\ r.now = clock /\ r.code = "unknown"
        /\ r.admits = req[h].admits /\ r.tenant = req[h].tenant
    BY Types DEF Request
  <1>3. req[h] = Idle
    BY Types DEF EnterUnnamed, HandlerOK
  <1>4. r.tenant \notin Tenant
    BY <1>2, <1>3, TenantAssumption DEF Idle
  <1>5. HandlerOK(r)
    BY <1>2, <1>4, Types DEF HandlerOK
  <1> QED BY <1>1, <1>5, LocalStep DEF EnterUnnamed

\* A hit decides from the entry, a miss goes on.
LEMMA ReadCacheStep ==
  ASSUME IInv, NEW h \in Handler, ReadCache(h)
  PROVE  IInv'
  <1> DEFINE t == req[h].tenant
             e == cache[t]
             d == [req[h] EXCEPT !.pc = "decided", !.admits = e.admits, !.code = e.code]
             m == [req[h] EXCEPT !.pc = "missed"]
  <1>1. t \in Tenant
    BY Types DEF ReadCache, HandlerOK
  <1>2. /\ e \in Entry /\ closedAt[t] \in Stamp /\ openedAt[t] \in Stamp
        /\ toldLive[t] \in Stamp
    BY <1>1 DEF IInv, TypeOK, Stamp
  <1>3. EntryOK(e, clock, closedAt[t], openedAt[t], toldLive[t])
    BY <1>1 DEF IInv, TenantOK
  <1>4. CASE req[h].now < e.until
    <2>1. d \in Request
      BY <1>2, Types, ZenonT(30) DEF Request, Entry
    <2>2. req' = [req EXCEPT ![h] = d]
      BY <1>4 DEF ReadCache
    <2>3. /\ d.pc = "decided" /\ d.now = req[h].now /\ d.tenant = t
          /\ d.admits = e.admits /\ d.code = e.code
      BY Types DEF Request
    <2> HIDE DEF d, e
    <2>4. VerdictOK(d, closedAt[t], openedAt[t], toldLive[t])
      BY <1>2, <1>3, <1>4, <2>1, <2>3, Types, HitDecides
    <2>5. HandlerOK(d)
      BY <1>1, <2>3, <2>4, Types DEF HandlerOK, ReqOK
    <2> QED BY <2>1, <2>2, <2>5, LocalStep DEF ReadCache
  <1>5. CASE ~(req[h].now < e.until)
    <2>1. m \in Request
      BY Types DEF Request
    <2>2. req' = [req EXCEPT ![h] = m]
      BY <1>5 DEF ReadCache
    <2>3. m.pc = "missed" /\ m.now = req[h].now /\ m.tenant = t /\ ~m.ok
      BY Types DEF Request, ReadCache, HandlerOK
    <2>4. HandlerOK(m)
      BY <1>1, <2>3, Types DEF HandlerOK, ReqOK
    <2> QED BY <2>1, <2>2, <2>4, LocalStep DEF ReadCache
  <1> QED BY <1>4, <1>5

\* A call that returns leaves an idle handler.
LEMMA ReturnStep ==
  ASSUME IInv, NEW h \in Handler, Return(h)
  PROVE  IInv'
  <1>1. Idle \in Request /\ Idle.pc = "idle" /\ Idle.now = 0
    BY DEF Idle, Request, RefusalCode
  <1>2. HandlerOK(Idle)
    BY <1>1, Types DEF HandlerOK, ReqOK
  <1> QED BY <1>1, <1>2, LocalStep DEF Return
\* A lookup that fails leaves a refusal that blames no state.
LEMMA LookupFailsStep ==
  ASSUME IInv, NEW h \in Handler, LookupFails(h)
  PROVE  IInv'
  <1> DEFINE r == [req[h] EXCEPT !.pc = "answered"]
  <1>1. r \in Request /\ req' = [req EXCEPT ![h] = r]
    BY Types DEF LookupFails, Request
  <1>2. /\ r.pc = "answered" /\ r.now = req[h].now /\ r.tenant = req[h].tenant
        /\ ~r.ok /\ r.tenant \in Tenant
    BY Types DEF Request, LookupFails, HandlerOK
  <1> HIDE DEF r
  <1>3. \A c, o, l : AnswerOK(r, c, o, l)
    BY <1>2 DEF AnswerOK, admits_or_refuses_unknown, refusal_code
  <1>4. HandlerOK(r)
    BY <1>2, <1>3, Types DEF HandlerOK, ReqOK
  <1> QED BY <1>1, <1>4, LocalStep DEF LookupFails

\* The core's answer is about this very moment.
LEMMA LookupAnswersStep ==
  ASSUME IInv, NEW h \in Handler, LookupAnswers(h)
  PROVE  IInv'
  <1> DEFINE t == req[h].tenant
             s == state[t]
             a == [req[h] EXCEPT !.pc = "answered"]
             b == [req[h] EXCEPT !.pc = "answered", !.state = s, !.ok = TRUE]
             r == IF s = Absent THEN a ELSE b
  <1>1. /\ t \in Tenant /\ req[h].now <= clock /\ ~req[h].ok
        /\ req[h] \in Request /\ req \in [Handler -> Request] /\ clock \in Nat
        /\ req[h].now \in Nat
    BY Types DEF LookupAnswers, HandlerOK
  <1>2. /\ closedAt[t] \in Stamp /\ openedAt[t] \in Stamp /\ toldLive[t] \in Stamp
        /\ s \in Registry
        /\ PastOK(clock, closedAt[t], openedAt[t], toldLive[t])
        /\ LiveOK(s, closedAt[t], openedAt[t])
    BY <1>1 DEF IInv, TypeOK, TenantOK, Stamp
  <1>3. /\ UNCHANGED <<clock, state, cache, closedAt, openedAt>>
        /\ req' = [req EXCEPT ![h] = r]
        /\ toldLive' = IF admits(s) THEN [toldLive EXCEPT ![t] = clock] ELSE toldLive
    BY DEF LookupAnswers
  <1>4. a \in Request /\ b \in Request
    BY <1>1, <1>2 DEF Request
  <1>5. /\ a.pc = "answered" /\ a.now = req[h].now /\ a.tenant = t /\ ~a.ok
        /\ b.pc = "answered" /\ b.now = req[h].now /\ b.tenant = t /\ b.ok /\ b.state = s
    BY <1>1 DEF Request
  <1> HIDE DEF a, b, s, t
  <1>6. r \in Request /\ r.pc = "answered" /\ r.now = req[h].now /\ r.tenant = t
    BY <1>4, <1>5
  <1>7. toldLive' \in [Tenant -> Stamp]
    BY <1>1, <1>3 DEF IInv, TypeOK, Stamp
  <1>8. TypeOK'
    BY <1>1, <1>3, <1>6, <1>7 DEF IInv, TypeOK, Stamp
  <1>9. \A u \in Tenant : toldLive'[u] = IF u = t /\ admits(s) THEN clock ELSE toldLive[u]
    BY <1>1, <1>3 DEF IInv, TypeOK
  <1>10. ASSUME NEW u \in Tenant
         PROVE  /\ Onward(clock, closedAt[u], openedAt[u], toldLive[u],
                          clock, closedAt[u], openedAt[u], toldLive'[u])
                /\ PastOK(clock, closedAt[u], openedAt[u], toldLive'[u])
    <2>1. PastOK(clock, closedAt[u], openedAt[u], toldLive[u]) /\ toldLive[u] \in Stamp
      BY DEF IInv, TenantOK, TypeOK, Stamp
    <2> QED BY <1>1, <1>9, <2>1 DEF Onward, PastOK, Stamp, Never
  <1>11. ASSUME NEW u \in Tenant PROVE TenantOK(u)'
    <2>1. /\ cache[u] \in Entry /\ toldLive[u] \in Stamp /\ toldLive'[u] \in Stamp
          /\ closedAt[u] \in Stamp /\ openedAt[u] \in Stamp /\ TenantOK(u)
      BY <1>7 DEF IInv, TypeOK, Stamp
    <2>2. EntryOK(cache[u], clock, closedAt[u], openedAt[u], toldLive'[u])
      BY <1>1, <1>10, <2>1, EntryOnward DEF TenantOK
    <2> QED BY <1>3, <1>10, <2>1, <2>2 DEF TenantOK
  <1>12. AnswerOK(r, closedAt[t], openedAt[t], toldLive'[t])
    <2>1. CASE s = Absent
      BY <1>5, <2>1 DEF AnswerOK, admits_or_refuses_unknown, refusal_code
    <2>2. CASE s # Absent /\ admits(s)
      <3>1. toldLive'[t] = clock /\ closedAt[t] = Never
        BY <1>1, <1>2, <1>9, <2>2 DEF LiveOK
      <3>2. r.state = s /\ r.ok
        BY <1>5, <2>2
      <3>3. admits_or_refuses_unknown(r.state, r.ok)
        BY <2>2, <3>2 DEF admits_or_refuses_unknown, admits, known, Lifecycle
      <3> QED BY <1>1, <1>6, <3>1, <3>3 DEF AnswerOK, Never
    <2>3. CASE s # Absent /\ ~admits(s)
      <3>1. openedAt[t] = Never
        BY <1>2, <2>3 DEF LiveOK
      <3>2. ~admits_or_refuses_unknown(r.state, r.ok)
        BY <1>5, <2>3 DEF admits_or_refuses_unknown
      <3> QED BY <3>1, <3>2 DEF AnswerOK
    <2> QED BY <2>1, <2>2, <2>3
  <1> HIDE DEF r
  <1>13. ASSUME NEW k \in Handler PROVE HandlerOK(req[k])'
    <2>1. CASE k = h
      <3>1. req'[k] = r
        BY <1>1, <1>3, <2>1
      <3> QED BY <1>1, <1>3, <1>6, <1>12, <3>1 DEF HandlerOK, ReqOK
    <2>2. CASE k # h
      <3>1. req'[k] = req[k] /\ req[k] \in Request /\ HandlerOK(req[k])
        BY <1>1, <1>3, <2>2 DEF IInv
      <3>2. ASSUME NEW u \in Tenant, req[k].tenant = u
            PROVE  ReqOK(req[k], closedAt[u], openedAt[u], toldLive'[u])
        <4>1. /\ toldLive[u] \in Stamp /\ toldLive'[u] \in Stamp
              /\ closedAt[u] \in Stamp /\ openedAt[u] \in Stamp /\ TenantOK(u)
          BY <1>7 DEF IInv, TypeOK, Stamp
        <4>2. /\ ReqOK(req[k], closedAt[u], openedAt[u], toldLive[u])
              /\ req[k].now <= clock
          BY <3>1, <3>2 DEF HandlerOK
        <4> QED BY <1>1, <1>10, <3>1, <4>1, <4>2, ReqOnward DEF TenantOK
      <3> QED BY <1>3, <3>1, <3>2 DEF HandlerOK
    <2> QED BY <2>1, <2>2
  <1> QED BY <1>8, <1>11, <1>13 DEF IInv

\* The answer is cached and returned.
LEMMA PutVerdictStep ==
  ASSUME IInv, NEW h \in Handler, PutVerdict(h)
  PROVE  IInv'
  <1> DEFINE q == req[h]
             t == req[h].tenant
             adm == admits_or_refuses_unknown(q.state, q.ok)
             code == refusal_code(q.state, q.ok)
             e == cached(q.now, adm, code)
             d == [q EXCEPT !.pc = "decided", !.state = "none", !.ok = FALSE,
                            !.admits = adm, !.code = code]
  <1>1. /\ t \in Tenant /\ q \in Request /\ q.now \in Nat /\ q.now <= clock
        /\ req \in [Handler -> Request] /\ clock \in Nat
    BY Types DEF PutVerdict, HandlerOK
  <1>2. AnswerOK(q, closedAt[t], openedAt[t], toldLive[t])
    BY <1>1, Types DEF PutVerdict, HandlerOK, ReqOK
  <1>3. adm \in BOOLEAN /\ code \in RefusalCode
    BY DEF admits_or_refuses_unknown, refusal_code, RefusalCode, known
  <1>4. /\ UNCHANGED <<clock, state, closedAt, openedAt, toldLive>>
        /\ cache' = [cache EXCEPT ![t] = e]
        /\ req' = [req EXCEPT ![h] = d]
    BY DEF PutVerdict
  <1>5. /\ closedAt[t] \in Stamp /\ openedAt[t] \in Stamp /\ toldLive[t] \in Stamp
    BY <1>1 DEF IInv, TypeOK, Stamp
  <1> HIDE DEF adm, code
  <1>6. d \in Request
    BY <1>1, <1>3 DEF Request
  <1>7. /\ d.pc = "decided" /\ d.now = q.now /\ d.tenant = t
        /\ d.admits = adm /\ d.code = code
    BY <1>1 DEF Request
  <1> HIDE DEF d
  <1>8. /\ e \in Entry
        /\ EntryOK(e, clock, closedAt[t], openedAt[t], toldLive[t])
        /\ VerdictOK(d, closedAt[t], openedAt[t], toldLive[t])
    BY <1>1, <1>2, <1>3, <1>5, <1>6, <1>7, AnswerDecides DEF adm, code
  <1> HIDE DEF e
  <1>9. TypeOK'
    BY <1>1, <1>4, <1>6, <1>8 DEF IInv, TypeOK
  <1>10. ASSUME NEW u \in Tenant PROVE TenantOK(u)'
    <2>1. cache'[u] = IF u = t THEN e ELSE cache[u]
      BY <1>1, <1>4 DEF IInv, TypeOK
    <2> QED BY <1>4, <1>8, <2>1 DEF IInv, TenantOK
  <1>11. ASSUME NEW k \in Handler PROVE HandlerOK(req[k])'
    <2>1. req'[k] = IF k = h THEN d ELSE req[k]
      BY <1>1, <1>4
    <2>2. HandlerOK(d)
      BY <1>1, <1>7, <1>8 DEF HandlerOK, ReqOK
    <2> QED BY <1>4, <2>1, <2>2 DEF IInv, HandlerOK
  <1> QED BY <1>9, <1>10, <1>11 DEF IInv

\* The registry moves: whatever was read before was read no later than now.
LEMMA SetStateStep ==
  ASSUME IInv, NEW t \in Tenant, NEW s \in Registry, SetState(t, s)
  PROVE  IInv'
  <1>1. clock \in Nat /\ UNCHANGED <<clock, cache, req, toldLive>>
    BY DEF SetState, IInv, TypeOK
  <1>2. TypeOK'
    BY <1>1 DEF SetState, IInv, TypeOK
  <1>3. ASSUME NEW u \in Tenant
        PROVE  /\ Onward(clock, closedAt[u], openedAt[u], toldLive[u],
                         clock', closedAt'[u], openedAt'[u], toldLive'[u])
               /\ PastOK(clock', closedAt'[u], openedAt'[u], toldLive'[u])
               /\ LiveOK(state'[u], closedAt'[u], openedAt'[u])
    <2>0. /\ PastOK(clock, closedAt[u], openedAt[u], toldLive[u])
          /\ LiveOK(state[u], closedAt[u], openedAt[u])
          /\ closedAt[u] \in Stamp /\ openedAt[u] \in Stamp /\ toldLive[u] \in Stamp
      BY DEF IInv, TenantOK, TypeOK, Stamp
    <2>1. CASE u # t
      <3>1. state'[u] = state[u] /\ closedAt'[u] = closedAt[u] /\ openedAt'[u] = openedAt[u]
        BY <2>1 DEF SetState, IInv, TypeOK
      <3> QED BY <1>1, <2>0, <3>1 DEF Onward, PastOK, Stamp, Never
    <2>2. CASE u = t
      <3>1. /\ state'[u] = s
            /\ closedAt'[u] = IF admits(s) THEN Never
                              ELSE IF admits(state[u]) THEN clock ELSE closedAt[u]
            /\ openedAt'[u] = IF admits(s) THEN clock ELSE Never
        BY <2>2 DEF SetState, IInv, TypeOK
      <3> QED BY <1>1, <2>0, <3>1 DEF Onward, PastOK, LiveOK, Stamp, Never
    <2> QED BY <2>1, <2>2
  <1>4. clock <= clock'
    BY <1>1
  <1> QED BY <1>1, <1>2, <1>3, <1>4, HistoryStep

\* A second passes.
LEMMA TickStep ==
  ASSUME IInv, Tick
  PROVE  IInv'
  <1>1. /\ clock \in Nat /\ clock' = clock + 1
        /\ UNCHANGED <<state, cache, req, closedAt, openedAt, toldLive>>
    BY DEF Tick, IInv, TypeOK
  <1>2. TypeOK'
    BY <1>1 DEF IInv, TypeOK
  <1>3. ASSUME NEW u \in Tenant
        PROVE  /\ Onward(clock, closedAt[u], openedAt[u], toldLive[u],
                         clock', closedAt'[u], openedAt'[u], toldLive'[u])
               /\ PastOK(clock', closedAt'[u], openedAt'[u], toldLive'[u])
               /\ LiveOK(state'[u], closedAt'[u], openedAt'[u])
    <2>1. /\ PastOK(clock, closedAt[u], openedAt[u], toldLive[u])
          /\ LiveOK(state[u], closedAt[u], openedAt[u])
          /\ closedAt[u] \in Stamp /\ openedAt[u] \in Stamp /\ toldLive[u] \in Stamp
      BY DEF IInv, TenantOK, TypeOK, Stamp
    <2> QED BY <1>1, <2>1 DEF Onward, PastOK, Stamp, Never
  <1>4. clock <= clock'
    BY <1>1
  <1> QED BY <1>1, <1>2, <1>3, <1>4, HistoryStep

\* A restart forgets the cache and the calls, and nothing else.
LEMMA RestartStep ==
  ASSUME IInv, Restart
  PROVE  IInv'
  <1>1. /\ NoEntry \in Entry /\ NoEntry.until = 0 /\ ~NoEntry.admits
        /\ Idle \in Request /\ Idle.pc = "idle" /\ Idle.now = 0
    BY DEF NoEntry, Entry, Idle, Request, RefusalCode
  <1>2. /\ UNCHANGED <<clock, state, closedAt, openedAt, toldLive>>
        /\ cache' = [t \in Tenant |-> NoEntry]
        /\ req' = [h \in Handler |-> Idle]
        /\ clock \in Nat
    BY DEF Restart, IInv, TypeOK
  <1>3. TypeOK'
    BY <1>1, <1>2 DEF IInv, TypeOK
  <1>4. ASSUME NEW t \in Tenant PROVE TenantOK(t)'
    <2>1. EntryOK(NoEntry, clock, closedAt[t], openedAt[t], toldLive[t])
      BY <1>1, <1>2, LifetimeAssumption DEF EntryOK, IInv, TypeOK, Never
    <2> QED BY <1>2, <2>1 DEF IInv, TenantOK
  <1>5. ASSUME NEW h \in Handler PROVE HandlerOK(req[h])'
    BY <1>1, <1>2 DEF HandlerOK, ReqOK
  <1> QED BY <1>3, <1>4, <1>5 DEF IInv

\* Every step.
LEMMA NextIInv == IInv /\ [Next]_vars => IInv'
  <1> SUFFICES ASSUME IInv, [Next]_vars PROVE IInv'
    OBVIOUS
  <1>1. CASE Next
    BY <1>1, EnterStep, EnterUnnamedStep, ReadCacheStep, LookupAnswersStep,
       LookupFailsStep, PutVerdictStep, ReturnStep, SetStateStep, RestartStep, TickStep
    DEF Next
  <1>2. CASE UNCHANGED vars
    BY <1>2 DEF vars, IInv, TypeOK, TenantOK, HandlerOK
  <1> QED BY <1>1, <1>2

-----------------------------------------------------------------------------
(* The inductive invariant holds in every reachable state.                   *)
THEOREM Inductive == Spec => []IInv
  BY InitIInv, NextIInv, PTL DEF Spec

(* Entries, calls and histories of the gate keep their types: no lifetime    *)
(* arithmetic leaves the naturals and no code outside the policy's appears.  *)
THEOREM TypeCorrect == Spec => []TypeOK
  <1>1. IInv => TypeOK
    BY DEF IInv
  <1> QED BY <1>1, Inductive, PTL

\* What a finished call rests on.
LEMMA FinishedCall ==
  ASSUME IInv, NEW h \in Handler, Decided(h)
  PROVE  LET t == req[h].tenant IN
         VerdictOK(req[h], closedAt[t], openedAt[t], toldLive[t])
  BY DEF IInv, HandlerOK, ReqOK, Decided

(* A closed tenant is refused AdmitTtl seconds after it was closed, for      *)
(* every interleaving of lookups with the suspension.                        *)
THEOREM SuspensionTakesEffect == Spec => []SuspensionBites
  <1>1. IInv => SuspensionBites
    BY FinishedCall DEF SuspensionBites, VerdictOK
  <1> QED BY <1>1, Inductive, PTL

(* A reopened tenant is no longer called closed RefuseTtl seconds later.     *)
THEOREM ReopeningTakesEffect == Spec => []ReopeningBites
  <1>1. IInv => ReopeningBites
    BY FinishedCall DEF ReopeningBites, VerdictOK
  <1> QED BY <1>1, Inductive, PTL

(* The gate fails closed: no admission without a recent "live" of the core.  *)
THEOREM FailsClosed == Spec => []AdmittedOnEvidence
  <1>1. IInv => AdmittedOnEvidence
    BY FinishedCall DEF AdmittedOnEvidence, VerdictOK
  <1> QED BY <1>1, Inductive, PTL

-----------------------------------------------------------------------------
(* The gate implements BoundedStaleness.                                   *)

\* The state of the abstract gate: the tenants as switches, the calls as readers.
isOn == [t \in Tenant |-> admits(state[t])]
turnedAt == [t \in Tenant |-> IF admits(state[t]) THEN openedAt[t] ELSE closedAt[t]]
readers == [h \in Handler |-> asReader(req[h])]

Quiet == [is |-> "silent", of |-> NoTenant, at |-> 0]

\* What a call looks like from outside.
LEMMA ReaderShape ==
  ASSUME NEW r \in Request
  PROVE  /\ r.tenant \notin Tenant => asReader(r) = Quiet
         /\ r.tenant \in Tenant /\ r.pc = "decided" =>
              asReader(r) = [is |-> told(r), of |-> r.tenant, at |-> r.now]
         /\ r.tenant \in Tenant /\ r.pc # "decided" =>
              asReader(r) = [is |-> "asked", of |-> r.tenant, at |-> r.now]
  BY DEF asReader, Quiet

\* A step that moves only calls moves only readers.
CallsOnly == UNCHANGED <<clock, state, closedAt, openedAt>>

LEMMA CallsOnlyShape ==
  ASSUME CallsOnly
  PROVE  clock' = clock /\ isOn' = isOn /\ turnedAt' = turnedAt
  BY DEF CallsOnly, isOn, turnedAt

\* A call that becomes another one of the same looks is invisible.
LEMMA Invisible ==
  ASSUME CallsOnly, NEW h \in Handler, req \in [Handler -> Request],
         NEW r, req' = [req EXCEPT ![h] = r], asReader(r) = asReader(req[h])
  PROVE  UNCHANGED Switches!vars
  <1>1. clock' = clock /\ isOn' = isOn /\ turnedAt' = turnedAt
    BY CallsOnlyShape
  <1>2. readers' = readers
    BY DEF readers
  <1> QED BY <1>1, <1>2 DEF Switches!vars, isOn, turnedAt, readers

\* A decision that rests on what the invariant demands is an abstract answer.
LEMMA DecisionAnswers ==
  ASSUME IInv, IInv', CallsOnly, NEW h \in Handler, NEW r \in Request,
         req' = [req EXCEPT ![h] = r],
         req[h].pc # "decided", req[h].tenant \in Tenant,
         r.pc = "decided", r.tenant = req[h].tenant, r.now = req[h].now
  PROVE  \E v \in Switches!Told : Switches!Answer(h, v)
  <1> DEFINE t == r.tenant
  <1>1. /\ t \in Tenant
        /\ req \in [Handler -> Request] /\ req[h] \in Request /\ req'[h] = r
        /\ r.now \in Nat /\ r.admits \in BOOLEAN
    BY DEF IInv, TypeOK, Request
  <1>2. /\ asReader(req[h]) = [is |-> "asked", of |-> t, at |-> r.now]
        /\ asReader(r) = [is |-> told(r), of |-> t, at |-> r.now]
    BY <1>1, ReaderShape
  <1>3. readers[h] = asReader(req[h]) /\ readers' = [readers EXCEPT ![h].is = told(r)]
    <2>1. readers = [k \in Handler |-> asReader(req[k])]
      BY DEF readers
    <2>2. readers' = [k \in Handler |-> asReader(req'[k])]
      BY DEF readers
    <2>3. ASSUME NEW k \in Handler, k # h PROVE req'[k] = req[k]
      BY <1>1, <2>3
    <2>4. asReader(r) = [asReader(req[h]) EXCEPT !.is = told(r)]
      BY <1>2
    <2>5. readers' = [readers EXCEPT ![h] = asReader(r)]
      BY <1>1, <2>1, <2>2, <2>3
    <2> QED BY <2>1, <2>4, <2>5
  <1>4. VerdictOK(r, closedAt[t], openedAt[t], toldLive'[t])
    BY <1>1 DEF IInv, HandlerOK, ReqOK, CallsOnly
  <1>5. /\ LiveOK(state[t], closedAt[t], openedAt[t])
        /\ closedAt[t] \in Stamp /\ openedAt[t] \in Stamp
    BY <1>1 DEF IInv, TenantOK, TypeOK, Stamp
  <1>6. told(r) = "on" => isOn[t] = TRUE \/ r.now < turnedAt[t] + AdmitTtl
    BY <1>1, <1>4, <1>5, LifetimeAssumption DEF told, VerdictOK, LiveOK, isOn, turnedAt, Stamp, Never
  <1>7. told(r) = "off" => isOn[t] = FALSE \/ r.now < turnedAt[t] + RefuseTtl
    BY <1>1, <1>4, <1>5, LifetimeAssumption DEF told, VerdictOK, LiveOK, isOn, turnedAt, Stamp, Never
  <1>8. told(r) \in {"on", "off", "unknown"}
    BY DEF told
  <1>9. clock' = clock /\ isOn' = isOn /\ turnedAt' = turnedAt
    BY CallsOnlyShape
  <1>10. Switches!Answer(h, told(r))
    <2>1. readers[h].is = "asked" /\ readers[h].of = t /\ readers[h].at = r.now
      BY <1>2, <1>3
    <2> QED BY <1>3, <1>6, <1>7, <1>9, <2>1
            DEF Switches!Answer, Switches!Held, isOn, turnedAt, readers
  <1> QED BY <1>8, <1>10 DEF Switches!Told

\* A call that ends or is lost falls silent.
LEMMA LeavingLeaves ==
  ASSUME CallsOnly, req \in [Handler -> Request], NEW R \in SUBSET Handler,
         req' = [k \in Handler |-> IF k \in R THEN Idle ELSE req[k]]
  PROVE  Switches!Leave(R)
  <1>1. Idle \in Request /\ Idle.tenant \notin Tenant
    BY TenantAssumption DEF Idle, Request, RefusalCode
  <1>2. asReader(Idle) = Quiet
    BY <1>1, ReaderShape
  <1>3. readers' = [k \in Handler |-> IF k \in R THEN Quiet ELSE readers[k]]
    BY <1>2 DEF readers
  <1>4. clock' = clock /\ isOn' = isOn /\ turnedAt' = turnedAt
    BY CallsOnlyShape
  <1> QED BY <1>3, <1>4 DEF Switches!Leave, Switches!Silent, Quiet, isOn, turnedAt, readers

\* Opening or closing a tenant turns its switch; any other change is invisible.
LEMMA SetStateTurns ==
  ASSUME IInv, NEW t \in Tenant, NEW s \in Registry, SetState(t, s)
  PROVE  Switches!Turn(t) \/ UNCHANGED Switches!vars
  <1>1. /\ state \in [Tenant -> Registry]
        /\ openedAt \in [Tenant -> Stamp] /\ closedAt \in [Tenant -> Stamp]
        /\ LiveOK(state[t], closedAt[t], openedAt[t])
    BY DEF IInv, TypeOK, TenantOK, Stamp
  <1>2. clock' = clock /\ readers' = readers
    BY DEF SetState, readers
  <1>3. ASSUME NEW u \in Tenant, u # t
        PROVE  isOn'[u] = isOn[u] /\ turnedAt'[u] = turnedAt[u]
    BY <1>1, <1>3 DEF SetState, isOn, turnedAt
  <1>4. /\ isOn[t] = admits(state[t]) /\ isOn'[t] = admits(s)
        /\ turnedAt[t] = IF admits(state[t]) THEN openedAt[t] ELSE closedAt[t]
        /\ turnedAt'[t] = IF admits(s) THEN openedAt'[t] ELSE closedAt'[t]
    BY <1>1 DEF SetState, isOn, turnedAt
  <1>5. /\ closedAt'[t] = IF admits(s) THEN Never ELSE IF admits(state[t]) THEN clock ELSE closedAt[t]
        /\ openedAt'[t] = IF admits(s) THEN clock ELSE Never
    BY <1>1 DEF SetState
  <1>6. CASE admits(s) = admits(state[t])
    <2>1. ~admits(s)
      BY <1>6 DEF SetState, admits
    <2>2. isOn'[t] = isOn[t] /\ turnedAt'[t] = turnedAt[t]
      BY <1>4, <1>5, <1>6, <2>1
    <2>3. isOn' = isOn /\ turnedAt' = turnedAt
      BY <1>3, <2>2 DEF isOn, turnedAt
    <2> QED BY <1>2, <2>3 DEF Switches!vars, isOn, turnedAt, readers
  <1>7. CASE admits(s) # admits(state[t])
    <2>1. isOn'[t] = ~isOn[t] /\ turnedAt'[t] = clock
      BY <1>4, <1>5, <1>7 DEF admits
    <2>2. /\ isOn' = [isOn EXCEPT ![t] = ~@]
          /\ turnedAt' = [turnedAt EXCEPT ![t] = clock]
      BY <1>3, <2>1 DEF isOn, turnedAt
    <2> QED BY <1>2, <2>2 DEF Switches!Turn, isOn, turnedAt, readers
  <1> QED BY <1>6, <1>7

\* A call that names a tenant asks.
LEMMA EnterAsks ==
  ASSUME IInv, NEW h \in Handler, NEW t \in Tenant, Enter(h, t)
  PROVE  Switches!Ask(h, t)
  <1> DEFINE r == [req[h] EXCEPT !.pc = "sampled", !.tenant = t, !.now = clock]
  <1>1. /\ req \in [Handler -> Request] /\ clock \in Nat /\ req[h] = Idle
        /\ req' = [req EXCEPT ![h] = r] /\ CallsOnly
    BY DEF Enter, IInv, TypeOK, HandlerOK, CallsOnly
  <1>2. Idle \in Request /\ Idle.tenant \notin Tenant
    BY TenantAssumption DEF Idle, Request, RefusalCode
  <1>3. r \in Request /\ r.tenant = t /\ r.pc = "sampled" /\ r.now = clock
    BY <1>1, <1>2 DEF Request
  <1>4. /\ asReader(req[h]) = Quiet
        /\ asReader(r) = [is |-> "asked", of |-> t, at |-> clock]
    BY <1>1, <1>2, <1>3, ReaderShape
  <1> HIDE DEF r
  <1>5. /\ readers[h].is = "silent"
        /\ readers' = [readers EXCEPT ![h] = [is |-> "asked", of |-> t, at |-> clock]]
    <2>1. readers = [k \in Handler |-> asReader(req[k])]
      BY DEF readers
    <2>2. readers' = [k \in Handler |-> asReader(req'[k])]
      BY DEF readers
    <2>3. readers' = [readers EXCEPT ![h] = asReader(r)]
      BY <1>1, <2>1, <2>2
    <2> QED BY <1>4, <2>1, <2>3 DEF Quiet
  <1>6. clock' = clock /\ isOn' = isOn /\ turnedAt' = turnedAt
    BY <1>1, CallsOnlyShape
  <1> QED BY <1>5, <1>6 DEF Switches!Ask, isOn, turnedAt, readers

\* The steps between a call and its decision are invisible, and so is a call
\* that names no tenant.
LEMMA SilentSteps ==
  ASSUME IInv, NEW h \in Handler,
         EnterUnnamed(h) \/ LookupAnswers(h) \/ LookupFails(h)
  PROVE  UNCHANGED Switches!vars
  <1>1. /\ req \in [Handler -> Request] /\ req[h] \in Request /\ clock \in Nat
        /\ HandlerOK(req[h])
    BY DEF IInv, TypeOK
  <1>2. CASE EnterUnnamed(h)
    <2> DEFINE r == [req[h] EXCEPT !.pc = "decided", !.now = clock, !.code = "unknown"]
    <2>1. req[h] = Idle /\ req' = [req EXCEPT ![h] = r] /\ CallsOnly
      BY <1>1, <1>2 DEF EnterUnnamed, HandlerOK, CallsOnly
    <2>2. r \in Request /\ r.tenant = req[h].tenant
      BY <1>1 DEF Request, RefusalCode
    <2>3. req[h].tenant \notin Tenant
      BY <2>1, TenantAssumption DEF Idle
    <2>4. asReader(r) = asReader(req[h])
      BY <1>1, <2>2, <2>3, ReaderShape
    <2> QED BY <1>1, <2>1, <2>4, Invisible
  <1>3. ASSUME NEW r \in Request, req' = [req EXCEPT ![h] = r], CallsOnly,
               req[h].pc = "missed", r.pc = "answered",
               r.tenant = req[h].tenant, r.now = req[h].now
        PROVE  UNCHANGED Switches!vars
    <2>1. r.tenant \in Tenant
      BY <1>1, <1>3 DEF HandlerOK
    <2>2. asReader(r) = asReader(req[h])
      BY <1>1, <1>3, <2>1, ReaderShape
    <2> QED BY <1>1, <1>3, <2>2, Invisible
  <1>4. CASE LookupFails(h)
    <2> DEFINE r == [req[h] EXCEPT !.pc = "answered"]
    <2>1. /\ req' = [req EXCEPT ![h] = r] /\ CallsOnly /\ req[h].pc = "missed"
          /\ r \in Request /\ r.pc = "answered" /\ r.tenant = req[h].tenant /\ r.now = req[h].now
      BY <1>1, <1>4 DEF LookupFails, CallsOnly, Request
    <2> QED BY <1>3, <2>1
  <1>5. CASE LookupAnswers(h)
    <2> DEFINE a == [req[h] EXCEPT !.pc = "answered"]
               b == [req[h] EXCEPT !.pc = "answered", !.state = state[req[h].tenant], !.ok = TRUE]
    <2>1. /\ CallsOnly /\ req[h].pc = "missed" /\ req[h].tenant \in Tenant
          /\ state[req[h].tenant] \in Registry
      BY <1>1, <1>5 DEF LookupAnswers, CallsOnly, HandlerOK, IInv, TypeOK
    <2>2. /\ a \in Request /\ a.pc = "answered" /\ a.tenant = req[h].tenant /\ a.now = req[h].now
          /\ b \in Request /\ b.pc = "answered" /\ b.tenant = req[h].tenant /\ b.now = req[h].now
      BY <1>1, <2>1 DEF Request
    <2>3. req' = [req EXCEPT ![h] = a] \/ req' = [req EXCEPT ![h] = b]
      BY <1>5 DEF LookupAnswers
    <2> HIDE DEF a, b
    <2> QED BY <1>3, <2>1, <2>2, <2>3
  <1> QED BY <1>2, <1>4, <1>5

\* A look into the cache decides or shows nothing.
LEMMA ReadCacheAnswers ==
  ASSUME IInv, IInv', NEW h \in Handler, ReadCache(h)
  PROVE  (\E v \in Switches!Told : Switches!Answer(h, v)) \/ UNCHANGED Switches!vars
  <1> DEFINE e == cache[req[h].tenant]
             hit == [req[h] EXCEPT !.pc = "decided", !.admits = e.admits, !.code = e.code]
             miss == [req[h] EXCEPT !.pc = "missed"]
  <1>1. /\ req \in [Handler -> Request] /\ req[h] \in Request
        /\ req[h].pc = "sampled" /\ req[h].tenant \in Tenant /\ CallsOnly
        /\ e \in Entry
    BY DEF ReadCache, CallsOnly, IInv, TypeOK, HandlerOK
  <1>2. /\ hit \in Request /\ hit.pc = "decided"
        /\ hit.tenant = req[h].tenant /\ hit.now = req[h].now
        /\ miss \in Request /\ miss.pc = "missed"
        /\ miss.tenant = req[h].tenant /\ miss.now = req[h].now
    BY <1>1 DEF Request, Entry
  <1>3. req' = [req EXCEPT ![h] = hit] \/ req' = [req EXCEPT ![h] = miss]
    BY DEF ReadCache
  <1> HIDE DEF hit, miss
  <1>4. CASE req' = [req EXCEPT ![h] = hit]
    BY <1>1, <1>2, <1>4, DecisionAnswers
  <1>5. CASE req' = [req EXCEPT ![h] = miss]
    <2>1. asReader(miss) = asReader(req[h])
      BY <1>1, <1>2, ReaderShape
    <2> QED BY <1>1, <1>5, <2>1, Invisible
  <1> QED BY <1>3, <1>4, <1>5

\* A verdict from a lookup is an answer.
LEMMA PutVerdictAnswers ==
  ASSUME IInv, IInv', NEW h \in Handler, PutVerdict(h)
  PROVE  \E v \in Switches!Told : Switches!Answer(h, v)
  <1> DEFINE adm == admits_or_refuses_unknown(req[h].state, req[h].ok)
             code == refusal_code(req[h].state, req[h].ok)
             r == [req[h] EXCEPT !.pc = "decided", !.state = "none", !.ok = FALSE,
                                 !.admits = adm, !.code = code]
  <1>1. /\ req \in [Handler -> Request] /\ req[h] \in Request
        /\ req[h].pc = "answered" /\ req[h].tenant \in Tenant /\ CallsOnly
        /\ req' = [req EXCEPT ![h] = r] /\ req'[h] \in Request
    BY DEF PutVerdict, CallsOnly, IInv, TypeOK, HandlerOK
  <1>2. req'[h] = r
    BY <1>1
  <1>3. r.pc = "decided" /\ r.tenant = req[h].tenant /\ r.now = req[h].now
    BY <1>1 DEF Request
  <1> HIDE DEF r
  <1> QED BY <1>1, <1>2, <1>3, DecisionAnswers

\* Every step of the gate is a step of the abstract one, or invisible.
LEMMA StepRefines ==
  ASSUME IInv, IInv', [Next]_vars
  PROVE  [Switches!Next]_(Switches!vars)
  <1>1. ASSUME NEW h \in Handler, NEW t \in Tenant, Enter(h, t) PROVE Switches!Next
    BY <1>1, EnterAsks DEF Switches!Next
  <1>2. ASSUME NEW h \in Handler, ReadCache(h) \/ PutVerdict(h)
        PROVE  Switches!Next \/ UNCHANGED Switches!vars
    BY <1>2, ReadCacheAnswers, PutVerdictAnswers DEF Switches!Next
  <1>3. ASSUME NEW h \in Handler, Return(h) PROVE Switches!Next
    <2>1. req \in [Handler -> Request] /\ CallsOnly
      BY <1>3 DEF Return, CallsOnly, IInv, TypeOK
    <2>2. req' = [k \in Handler |-> IF k \in {h} THEN Idle ELSE req[k]]
      BY <1>3, <2>1 DEF Return
    <2> QED BY <2>1, <2>2, LeavingLeaves DEF Switches!Next
  <1>4. CASE Restart
    <2>1. req \in [Handler -> Request] /\ CallsOnly
      BY <1>4 DEF Restart, CallsOnly, IInv, TypeOK
    <2>2. req' = [k \in Handler |-> IF k \in Handler THEN Idle ELSE req[k]]
      BY <1>4 DEF Restart
    <2> QED BY <2>1, <2>2, LeavingLeaves DEF Switches!Next
  <1>5. CASE Tick
    <2>1. clock' = clock + 1 /\ isOn' = isOn /\ turnedAt' = turnedAt /\ readers' = readers
      BY <1>5 DEF Tick, isOn, turnedAt, readers
    <2>2. Switches!Pass
      BY <2>1 DEF Switches!Pass, isOn, turnedAt, readers
    <2> QED BY <2>2 DEF Switches!Next
  <1>6. ASSUME NEW t \in Tenant, NEW s \in Registry, SetState(t, s)
        PROVE  Switches!Next \/ UNCHANGED Switches!vars
    BY <1>6, SetStateTurns DEF Switches!Next
  <1>7. CASE UNCHANGED vars
    BY <1>7 DEF vars, Switches!vars
  <1> QED BY <1>1, <1>2, <1>3, <1>4, <1>5, <1>6, <1>7, SilentSteps DEF Next

(* tenantAdmits() implements BoundedStaleness, for any number of concurrent  *)
(* calls and tenants, any registry and any pair of lifetimes: cache, lookups,*)
(* failures and restarts are invisible but for the lag of its answers.       *)
THEOREM GateIsBoundedlyStale == Spec => AnswersAreBoundedlyStale
  <1>1. Init => Switches!Init
    <2> SUFFICES ASSUME Init PROVE Switches!Init
      OBVIOUS
    <2>1. Idle \in Request /\ Idle.tenant \notin Tenant
      BY TenantAssumption DEF Idle, Request, RefusalCode
    <2>2. asReader(Idle) = Quiet
      BY <2>1, ReaderShape
    <2>3. readers = [h \in Handler |-> Quiet]
      BY <2>2 DEF Init, readers
    <2>4. isOn \in [Tenant -> BOOLEAN] /\ turnedAt = [t \in Tenant |-> 0] /\ clock = 0
      BY DEF Init, isOn, turnedAt, admits
    <2> QED BY <2>3, <2>4 DEF Switches!Init, Switches!Silent, Quiet, isOn, turnedAt, readers
  <1>2. IInv /\ IInv' /\ [Next]_vars => [Switches!Next]_(Switches!vars)
    BY StepRefines
  <1> QED BY <1>1, <1>2, Inductive, PTL DEF Spec, AnswersAreBoundedlyStale, Switches!Spec
===============================================================================
