------------------------------ MODULE TenantGate ------------------------------
(***************************************************************************)
(* The tenant-state gate of the HTTP bridge: tenantAdmits() in             *)
(* src/src/http_server.cpp over the policy of                              *)
(* src/include/tenant_state_policy.h.                                      *)
(*                                                                         *)
(* The state of a tenant lives in the core's registry and is read over     *)
(* gRPC.  Every authentication path of the bridge (the session gate of     *)
(* handleV1, Basic, content tickets, the token mint, the service-key mint) *)
(* asks this one function, which keeps a process-wide cache of its answers *)
(* under a mutex that is not held across the call to the core.  An         *)
(* admission is kept AdmitTtl seconds, a refusal RefuseTtl.                *)
(*                                                                         *)
(* A process shares nothing with another one but the registry, so one      *)
(* process is modelled.                                                    *)
(***************************************************************************)
EXTENDS Integers

CONSTANTS
  Handler,    \* requests in flight
  Tenant,     \* tenants a request may name
  NoTenant,   \* the empty tenant name
  Registry,   \* what the registry may hold for a tenant
  AdmitTtl,   \* lifetime of a cached admission (60 in the code)
  RefuseTtl,  \* lifetime of a cached refusal (10 in the code)
  MaxTime     \* bound on the clock

\* A tenant the registry has no row for.
Absent == "absent"

ASSUME TenantAssumption == NoTenant \notin Tenant
ASSUME LifetimeAssumption == AdmitTtl \in Nat \ {0} /\ RefuseTtl \in Nat \ {0}
ASSUME HorizonAssumption == MaxTime \in Nat

VARIABLES
  clock,     \* seconds, as std::time(nullptr) sees them
  state,     \* state[t]: the registry's state of t (external)
  cache,     \* cache[t]: the entry of t in the static cache
  req,       \* req[h]: the locals of the call thread h is making
  closedAt,  \* history: since when t has not been live, Never if it is
  openedAt,  \* history: since when t has been live, Never if it is not
  toldLive   \* history: when the core last answered "live" for t

vars == <<clock, state, cache, req, closedAt, openedAt, toldLive>>

-----------------------------------------------------------------------------
(* tenant_state_policy.h.  "none" stands for the empty string.             *)

Lifecycle ==
  {"requested", "awaiting_dns", "provisioning", "live", "suspended",
   "decommissioning", "decommissioned"}

known(s) == s \in Lifecycle

admits(s) == s = "live"

\* Mutant: a lookup that failed lets the caller in.
admitsOnError(s, ok) == ok => admits(s)

admits_or_refuses_unknown(s, ok) == ok /\ known(s) /\ admits(s)

\* The code tells an undetermined state from a state that refuses.
refusal_code(s, ok) ==
  IF ~ok \/ ~known(s) THEN "unknown" ELSE IF s = "live" THEN "none" ELSE s

-----------------------------------------------------------------------------
Never == -1

NoEntry == [until |-> 0, admits |-> FALSE, code |-> "none"]

RefusalCode == Lifecycle \cup {"unknown", "none"}

Entry == [until : Nat, admits : BOOLEAN, code : RefusalCode]

\* state and ok are the lookup's result, admits and code the function's.
Idle ==
  [pc |-> "idle", tenant |-> NoTenant, now |-> 0, state |-> "none", ok |-> FALSE,
   admits |-> FALSE, code |-> "none"]

Request ==
  [pc : {"idle", "sampled", "missed", "answered", "decided"},
   tenant : Tenant \cup {NoTenant},
   now : Nat,
   state : Registry \cup {"none"},
   ok : BOOLEAN,
   admits : BOOLEAN,
   code : RefusalCode]

TypeOK ==
  /\ clock \in Nat
  /\ state \in [Tenant -> Registry]
  /\ cache \in [Tenant -> Entry]
  /\ req \in [Handler -> Request]
  /\ closedAt \in [Tenant -> Nat \cup {Never}]
  /\ openedAt \in [Tenant -> Nat \cup {Never}]
  /\ toldLive \in [Tenant -> Nat \cup {Never}]

Init ==
  /\ clock = 0
  /\ state \in [Tenant -> Registry]
  /\ cache = [t \in Tenant |-> NoEntry]
  /\ req = [h \in Handler |-> Idle]
  /\ closedAt = [t \in Tenant |-> IF admits(state[t]) THEN Never ELSE 0]
  /\ openedAt = [t \in Tenant |-> IF admits(state[t]) THEN 0 ELSE Never]
  /\ toldLive = [t \in Tenant |-> Never]

-----------------------------------------------------------------------------
(* tenantAdmits().                                                         *)

\* Some authentication path calls the gate for t; the clock is sampled once.
Enter(h, t) ==
  /\ req[h].pc = "idle"
  /\ req' = [req EXCEPT ![h] = [@ EXCEPT !.pc = "sampled", !.tenant = t, !.now = clock]]
  /\ UNCHANGED <<clock, state, cache, closedAt, openedAt, toldLive>>

\* No tenant, nothing to look up: refused, and nothing is cached.
EnterUnnamed(h) ==
  /\ req[h].pc = "idle"
  /\ req' = [req EXCEPT ![h] = [@ EXCEPT !.pc = "decided", !.now = clock,
                                         !.code = "unknown"]]
  /\ UNCHANGED <<clock, state, cache, closedAt, openedAt, toldLive>>

\* Mutant: an entry serves one second too long.
ReadCacheInclusive(h) ==
  LET e == cache[req[h].tenant]
  IN  /\ req[h].pc = "sampled"
      /\ req' = [req EXCEPT ![h] =
                   IF req[h].now <= e.until
                   THEN [@ EXCEPT !.pc = "decided", !.admits = e.admits, !.code = e.code]
                   ELSE [@ EXCEPT !.pc = "missed"]]
      /\ UNCHANGED <<clock, state, cache, closedAt, openedAt, toldLive>>

\* First critical section.
ReadCache(h) ==
  LET e == cache[req[h].tenant]
  IN  /\ req[h].pc = "sampled"
      /\ req' = [req EXCEPT ![h] =
                   IF req[h].now < e.until
                   THEN [@ EXCEPT !.pc = "decided", !.admits = e.admits, !.code = e.code]
                   ELSE [@ EXCEPT !.pc = "missed"]]
      /\ UNCHANGED <<clock, state, cache, closedAt, openedAt, toldLive>>

\* The core answers, with or without a row for the tenant.
LookupAnswers(h) ==
  LET t == req[h].tenant
  IN  /\ req[h].pc = "missed"
      /\ req' = [req EXCEPT ![h] =
                   IF state[t] = Absent
                   THEN [@ EXCEPT !.pc = "answered"]
                   ELSE [@ EXCEPT !.pc = "answered", !.state = state[t], !.ok = TRUE]]
      /\ toldLive' = IF admits(state[t]) THEN [toldLive EXCEPT ![t] = clock] ELSE toldLive
      /\ UNCHANGED <<clock, state, cache, closedAt, openedAt>>

\* The call throws or reports no success.
LookupFails(h) ==
  /\ req[h].pc = "missed"
  /\ req' = [req EXCEPT ![h].pc = "answered"]
  /\ UNCHANGED <<clock, state, cache, closedAt, openedAt, toldLive>>

\* Mutant: refusals are kept as long as admissions.
cachedAlike(now, adm, code) ==
  [until |-> now + AdmitTtl, admits |-> adm, code |-> code]

\* Mutant: the lifetime is taken off the sample instead of added to it.
cachedBackdated(now, adm, code) ==
  [until |-> now - (IF adm THEN AdmitTtl ELSE RefuseTtl), admits |-> adm, code |-> code]

\* The entry for an answer; `now` was sampled before the lookup.
cached(now, adm, code) ==
  [until |-> now + (IF adm THEN AdmitTtl ELSE RefuseTtl), admits |-> adm, code |-> code]

\* Second critical section.
PutVerdict(h) ==
  LET r == req[h]
      adm == admits_or_refuses_unknown(r.state, r.ok)
      code == refusal_code(r.state, r.ok)
  IN  /\ r.pc = "answered"
      /\ cache' = [cache EXCEPT ![r.tenant] = cached(r.now, adm, code)]
      /\ req' = [req EXCEPT ![h] =
                   [@ EXCEPT !.pc = "decided", !.state = "none", !.ok = FALSE,
                             !.admits = adm, !.code = code]]
      /\ UNCHANGED <<clock, state, closedAt, openedAt, toldLive>>

\* The caller goes on if the tenant is admitted, and answers 403 if not.
Return(h) ==
  /\ req[h].pc = "decided"
  /\ req' = [req EXCEPT ![h] = Idle]
  /\ UNCHANGED <<clock, state, cache, closedAt, openedAt, toldLive>>

-----------------------------------------------------------------------------
\* An operator moves the tenant through its lifecycle, in the core.
SetState(t, s) ==
  /\ s # state[t]
  /\ state' = [state EXCEPT ![t] = s]
  /\ closedAt' = [closedAt EXCEPT ![t] =
                    IF admits(s) THEN Never
                    ELSE IF admits(state[t]) THEN clock ELSE @]
  /\ openedAt' = [openedAt EXCEPT ![t] = IF admits(s) THEN clock ELSE Never]
  /\ UNCHANGED <<clock, cache, req, toldLive>>

Restart ==
  /\ cache' = [t \in Tenant |-> NoEntry]
  /\ req' = [h \in Handler |-> Idle]
  /\ UNCHANGED <<clock, state, closedAt, openedAt, toldLive>>

Tick ==
  /\ clock < MaxTime
  /\ clock' = clock + 1
  /\ UNCHANGED <<state, cache, req, closedAt, openedAt, toldLive>>

Next ==
  \/ \E h \in Handler, t \in Tenant : Enter(h, t)
  \/ \E h \in Handler : EnterUnnamed(h)
  \/ \E h \in Handler : ReadCache(h)
  \/ \E h \in Handler : LookupAnswers(h)
  \/ \E h \in Handler : LookupFails(h)
  \/ \E h \in Handler : PutVerdict(h)
  \/ \E h \in Handler : Return(h)
  \/ \E t \in Tenant, s \in Registry : SetState(t, s)
  \/ Restart
  \/ Tick

Spec == Init /\ [][Next]_vars

-----------------------------------------------------------------------------
(* What the gate promises.                                                 *)

Decided(h) == req[h].pc = "decided" /\ req[h].tenant \in Tenant

(* "Short enough that a suspension bites in seconds rather than at token     *)
(* expiry": a request that reaches the gate AdmitTtl or more seconds after   *)
(* its tenant stopped being live is refused, whatever lookups were in        *)
(* flight across the suspension, and however often the tenant was opened     *)
(* and closed before.                                                        *)
SuspensionBites ==
  \A h \in Handler :
    LET t == req[h].tenant IN
    Decided(h) /\ closedAt[t] # Never /\ req[h].now >= closedAt[t] + AdmitTtl
      => ~req[h].admits

(* "Getting a tenant back into service should not wait on a cache": RefuseTtl*)
(* seconds after a tenant came back to live, no request is told any more     *)
(* that it is suspended (or in any other closed state).  It may still be     *)
(* told that the state could not be determined.                              *)
ReopeningBites ==
  \A h \in Handler :
    LET t == req[h].tenant IN
    Decided(h) /\ openedAt[t] # Never /\ req[h].now >= openedAt[t] + RefuseTtl
      => req[h].admits \/ req[h].code = "unknown"

(* "FAILS CLOSED on every error path": every admission rests on the core     *)
(* having answered "live" for this tenant less than AdmitTtl seconds before  *)
(* the request reached the gate, or since.  No error, missing row, unknown   *)
(* state or restart admits anyone.                                           *)
AdmittedOnEvidence ==
  \A h \in Handler :
    LET t == req[h].tenant IN
    Decided(h) /\ req[h].admits =>
      toldLive[t] # Never /\ req[h].now < toldLive[t] + AdmitTtl

(* The gate as its callers see it.  A decision is an answer; everything     *)
(* between a call and its decision is invisible, as is a call that names no *)
(* tenant.                                                                  *)
told(r) == IF r.admits THEN "on" ELSE IF r.code = "unknown" THEN "unknown" ELSE "off"

asReader(r) ==
  CASE r.tenant \notin Tenant                    -> [is |-> "silent", of |-> NoTenant, at |-> 0]
    [] r.tenant \in Tenant /\ r.pc = "decided"   -> [is |-> told(r), of |-> r.tenant, at |-> r.now]
    [] OTHER                                      -> [is |-> "asked", of |-> r.tenant, at |-> r.now]

Switches ==
  INSTANCE BoundedStaleness WITH
    Reader <- Handler,
    Switch <- Tenant,
    NoName <- NoTenant,
    Lag    <- [v \in BOOLEAN |-> IF v THEN AdmitTtl ELSE RefuseTtl],
    now    <- clock,
    on     <- [t \in Tenant |-> admits(state[t])],
    turned <- [t \in Tenant |-> IF admits(state[t]) THEN openedAt[t] ELSE closedAt[t]],
    read   <- [h \in Handler |-> asReader(req[h])]

(* tenantAdmits() with its cache, its two critical sections and its failing  *)
(* lookups implements a gate without any of them: a caller is told a state   *)
(* the tenant was in less than AdmitTtl (RefuseTtl) seconds before it asked, *)
(* or later, or that the state is not known, and nothing else.               *)
AnswersAreBoundedlyStale == Switches!Spec
===============================================================================
