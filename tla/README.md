# A TLA+ model of the FileEngine HTTP bridge

The bridge (`src/`) is the REST front of the FileEngine core. It signs people,
integrations and programs in, gives them bearer tokens, and turns authenticated
REST calls into gRPC calls to the core. It keeps almost nothing of its own: files,
ACLs and the tenant registry live in the core, users and groups in LDAP, second
factors and generated keys in `ldap_manager`, revocations and session presence in
Redis. What is hard in it is deciding, in many threads and several processes at
once and from answers that are late, cached or missing, whether a credential still
counts and with which roles; not losing or inventing a byte between a client and a
core that may break off; and not being held up for ever by one server behind it.
This project models that.

Source paths below are relative to the repository root, so `src/http_server.cpp` is
the file of that name in the repository's own `src` directory.

## 1. The system

Each request runs in a thread of Poco's pool. The server object and its helpers are
shared by all threads and guarded by one mutex per helper. Several bridges may run
behind a balancer and share Redis, LDAP, `ldap_manager` and the core.

| Component | State it keeps | Operations | Talks to |
|---|---|---|---|
| Token denylist (`token_denylist.*`) | verdict cache with expiry, one Redis connection | `check`, `permits`, `revoke`, `pruneLocked` | Redis; called by `authenticate`, `revokeToken`, tickets |
| Single-use guards (`replay_guard.h`) | map jti to expiry | `accept`, purge | called by `authExchange`, `ssoRedeem` |
| Tenant gate (`tenantAdmits`, `tenant_state_policy.h`) | verdict cache with expiry | `tenantAdmits` | the core's tenant registry |
| Sessions and credentials (`http_server.cpp`) | none: the tokens are the state | sign-in (password, 2FA, OAuth, integration, key), `authenticate`, hand-off and redemption, tickets, refresh, sign-out | everything below |
| Session presence (`session_store.*`) | sorted sets in Redis, read by the WebDAV bridge | `add`, `remove` | Redis |
| LDAP authenticator (`ldap_authenticator.*`, `circuit_breaker.h`, `tenant_role_policy.h`) | one mutex, a breaker | `authenticateUser`, `getUserInfoByEmail`, `getTenantsForUser`, `getRolesByTenant`, `searchUsers`, `searchRoles`; master, then replica | LDAP |
| OAuth login (`oauth_provider.*`, `oauth_state_store.h`, `oidc_verify.*`) | pending states, JWKS cache | start, callback | the provider |
| Audit publisher (`audit_publisher.*`) | one Redis connection | publish; some callers refuse if it fails | Redis |
| Resource routes (`http_server.cpp`, `grpc_client_wrapper.*`, `range_response.h`) | none | upload, download whole, ranged or of a version; the rest REST to gRPC | the core |
| Admission and monitoring (`HttpBridgeServer`, `HandlerFactory`, `MonitorHandler`) | worker pool, accept queue, reporter thread | accept, shed, handle, stop, report | Poco; everything above runs in its workers |
| Client address, CORS, HTTP client, utilities, start-up, the unused opaque token store | none that matters | | |

### What is hard, and what makes each part correct

* *Cached verdicts and concurrent changes.* The denylist and the tenant gate read
  their cache under a mutex, drop it, ask a remote store, take it again and write.
  Answers are therefore written in an order unrelated to the order they were given
  in. Correct means: a sign-out or suspension takes hold within the stated window
  whatever overlaps it, and a store that cannot be reached admits nobody.
* *Clock samples carried across waits.* Both caches and the guards use a `now`
  sampled before a wait or a lock. Correct means: an entry's life counts from before
  the lookup; a purge never forgets a credential that can still be presented.
* *One secret, five kinds of token.* Session, service, pending, hand-off and ticket
  tokens differ in their claims only. Correct means: none gets through another's
  door; a key's session stays in the key's tenant; second-factor strength is neither
  gained nor lost along a chain of renewals.
* *Partial failure.* A `SET` may run and its reply be lost; a hand-off code is spent
  before the audit log is asked; the directory may fail between membership check
  and mint; presence is best effort.
* *Directory failover.* One breaker and one mutex for all directory work, the mutex
  held across network calls; a sign-in connects twice and searches up to three times.
  Correct means: a sign-in without failures has exactly the roles of the user's groups,
  failures never reach outside the tenants' groups, a dead master is left alone for the
  cooldown and found again after it, and the mutex is always released.
* *Federated login.* Callbacks come late, twice, or with the code of another login;
  the provider rotates its keys under a cache without expiry, and answers with documents
  that hold no keys. Correct means: one
  sign-in per flow, within its lifetime, with its own code; and a key that is refused
  is really gone.
* *Streams.* A core may know ranges or not, report totals or not, cut a file anywhere,
  break off, and give its verdict on an upload early or never. Correct means: a body is
  a prefix of what its status line promised, and all of it if nothing broke; an
  acknowledged upload is stored.
* *Everyone waits on everyone.* Connections wait for workers, workers for the mutex,
  its holder for the directory. Correct means: requests are answered while backends
  answer, and the monitoring port even when they do not.

The complete list, by source line, is `hazards` in `PROJECT.json`.

## 2. Modules

| Module | Models | Status |
|---|---|---|
| `TokenDenylist` | the denylist with its two callers, several processes, one Redis | checked and proved |
| `ReplayGuard` | both guards with their two callers | checked and proved |
| `TenantGate` | the gate, its cache and policy, the registry as environment | checked and proved |
| `BoundedStaleness` | abstract: a switch read with bounded lag | `TenantGate` checked and proved to implement it |
| `Sessions` | every handler that mints, presents, renews or ends a credential | checked and proved |
| `Directory` | the LDAP client: mutex, breaker, failover, role searches and mappings | checked, with liveness; safety proved |
| `OauthLogin` | provider configuration, state store, callback, id_token verification, key cache | checked and proved |
| `Content` | one upload or download and its stream to the core, ranges included | checked and proved |
| `Admission` | accept queue, shedding, workers and what they block in, the reporter | checked, with liveness; safety proved |
| `MC*` | constant values and symmetry for TLC | |
| `*Proofs` | theorems about the module they extend | |

A definition has the name of the C++ function it models where there is one
(`pruneLocked`, `admits_or_refuses_unknown`, `mayRefresh`); an action has the
handler's name capitalised, or names the stretch of a handler it stands for.
`map` in `PROJECT.json` gives the lines of each. Definitions introduced by
"Mutant:" are plausible mistakes; nothing in a specification uses them, they exist
to show that each property can fail.

### TokenDenylist

`cache[i]` is `cache_` of process `i`, `redis[j]` the time the key of `j` expires,
`req[h]` the locals of a handler thread. A step ends wherever another thread can get
in: `check()` is `SampleNow`, `ReadCache` (first critical section), `LookupAnswers`
or `LookupFails` (the round trip, no lock held), `PutVerdict` (second critical
section). `revoke()` is `StoreRevoked` (with `acked = FALSE` for a lost reply) and
`SeedCache`. `Restart` empties one process's cache, drops its requests and forgets what
it had `seen`, so that evidence from before a restart does not count after it. `seen`
and `revokedAt` are history variables: they are written and only properties read
them. With `opts_.enabled = false` the class is constant and is not modelled.

### ReplayGuard

`seen_` is the map. `Accept` and `RefuseReplay` are `accept()`, purge, look-up and
record in one critical section. The two callers differ in where their `now` comes
from: `VerifyCode` passes the guard the sample of the verification, `VerifyAssertion`
is followed by `SampleNow`. A guard is per process and dies with it (`Restart`), as
the header says.

### TenantGate

Same shape as `check()`, with two lifetimes (60 s for an admission, 10 s for a
refusal) and a policy that tells "closed" from "cannot say". The registry holds any
of `Registry`; the run includes a state the bridge does not know and a missing row.
`closedAt`, `openedAt` and `toldLive` are history.

### Sessions

A token is a record of the claims endpoints look at, plus two facts that are not
claims: `kind`, what the bridge meant to mint, and `root`, what the chain it belongs
to began with. `token` is the sequence of tokens ever signed; its index is the jti.
Most handlers run in two steps, the checks and then `Mint` (`mintJwt()` with
`recordSession()`), because the directory is asked again in between and may have
changed or gone. Directory, registry and generated key change at any time
(`Environment`).

`Sessions` abstracts the three modules above to their promise without delay: a
token is revoked, a tenant live, a code used, or not. Their delays are what those
modules are about. Left out: expiry of tokens (a token is just no longer presented);
the `send` and `enroll_begin` requests of `verifyMfa()`, which change nothing in the
bridge; which file a ticket names; the caches of `tenantRequires2fa()` and
`sessionTtl()`.

`BoundedStaleness` says what the gate is for, without cache, lookups or failures: a
reader that asks about a switch is told a position it had less than `Lag` before the
question, or later, or that the position is unknown. The mapping is in `TenantGate`
(`Switches`): a switch is a tenant, it is on while the tenant is live, a decision is an
answer, and everything between call and decision is invisible.

### Directory

`th[t]` holds the locals of the operation a thread is in; a step ends where a network
call ends, and between two steps servers may go down, hang, come back, be written to
or replicate. `cool` is the rest of the breaker's cooldown. The directory has one user;
what varies is the set of groups that list the user, on master and replica. A group is
a record of what the searches tell apart: class, attribute, names, tenant, subtrees.
`searchUsers()` and `searchRoles()` take part with their locking and connecting; the
names they list are left out. History: `held` and `ever` are the groups that listed the
user during the operation and at any time, `steady` says that no call failed and no
membership changed during it, `failed` is the time since the last failed connect to the
master (failed searches do not trip the breaker, and do not count).

### OauthLogin

`states` is the state store, `jwks` the key cache, `config` what `fromEnv()` made of the
environment (chosen once per process, with discovery reachable or not). A flow stands
for its state, verifier and nonce; a code is named by the flow it was issued for. An
id_token is the key that signed it, the provider's `iss` and the flow of its code;
`Kid` says which key ids keys carry, one carries none. A JWKS document is a set of keys,
possibly empty, or no JSON (`Junk`); the bridge caches any 2xx body unread. Fetching keys and using them are
two steps (`FetchJwks`, `VerifyFetched`), so that a slow answer can overwrite a newer
one. The tail of the callback, from the verified identity to the minted session, is one
outcome here and is modelled in `Sessions`. Token expiry at the provider is left out.

### Content

A byte is its offset, so that a body shows which bytes of the file it holds, in which
order. `req` and `core` are chosen at the start: route, Range header, file length,
whether the core knows ranges and reports totals. Each frame is one step with
`onMeta()` and `onChunk()` in it. Lengths wrap at `LongMax` as the builds do. Status 500
stands for every error status `mapError()` chooses. In an upload the verdict of the core
and its arrival are separate: the core commits or refuses at any point of the body
(`CoreAnswers`), the connection may break with the file stored or not (`CallBreaks`), a
`Write` after either fails and only ends the loop (`WriteFails`), and the status goes by
what `Finish()` is told (`uploadStatus`). A negative end of a range, which `parseRange()`
reads like a missing one, is `Absent`.

### Admission

A connection goes from the accept queue to a worker and keeps it until it is closed;
its requests need nothing, the core, or the directory and then the core; the monitoring
paths of the public port are never shed, and `/readyz` among them asks the core. `hung` is the
set of backends that never answer, chosen at the start, so that both worlds are
explored. `shed_above_` is `ShedAbove`, `HTTP_MAX_QUEUED` is `MaxQueued`.

## 3. Runs

| Run | Shows | Bounds |
|---|---|---|
| `denylist` | `RevocationLatency`: a token verified `cache_ttl` or more after its revocation reached Redis is refused on every process. `HonouredOnFreshEvidence`: fail-closed means a real, recent "absent" behind every honoured request. `RevocationOutlivesToken`: the key lives as long as the token. | 2 processes, 2 requests, 1 token, clock 0..3, `cache_ttl` 1 |
| `replay` | `AcceptedOnceUntilExpiry`, and its reason `UsedIsRemembered` | 3 requests, 2 codes, 2 assertions, two lifetimes |
| `replay_code` | *violated*: see findings | |
| `tenant_gate` | `SuspensionBites`, `ReopeningBites`, `AdmittedOnEvidence`, and the refinement `AnswersAreBoundedlyStale` | 2 requests, 1 tenant, 4 registry states, clock 0..3, lifetimes 2 and 1 |
| `sessions` | `EachKindAtItsOwnDoor`, `KeyConfined`, `FactorFollowsSignIn`, `RotatedKeyNotRenewed` | chains of 3 tokens, 2 tenants, one change of the outside world |
| `sessions_presence` | *violated*: see findings | |
| `directory` | `RolesEarned`: however calls fail, roles come from the tenants' groups. `SignInExact`: undisturbed, a user with role groups has exactly their roles. `RolesUnderTheirTenant`. `DoorsAgree`: a user of one tenant has one identity at the password and the bearer door. `ProbesSpaced`. Live: `LockReleased`, `MasterFoundAgain` | 2 threads, master and replica, cooldown 1, one change of membership; the groups are in `MCDirectory` |
| `directory_admin` | *violated*: see findings | the same |
| `oauth` | `OneSignInPerFlow`, `SignInIsTimely`, `LoginBoundToFlow`, `RefusedKeyIsGone`, `AbandonedFlowsSwept` | 2 flows, 2 handlers, 3 keys (one without an id), documents with keys, without, and no JSON, one rotation, lifetime 1 |
| `oauth_issuer` | *violated*: see findings | the same, with one configuration |
| `content` | `BodyIsTheWindow`, `CompleteUnlessCut`, `RangeAnsweredExactly`, `AcknowledgedUploadIsWhole` | files of 0 to 4 bytes, frames of up to 3, a largest long of 7, all ranges over seven numbers |
| `admission` | live: `AcceptedIsAnswered`, `MonitorAlwaysAnswers` | 3 clients, 2 workers, queue 2, shedding above 1, 1 prober |

*Why the bounds are enough.* In the two caches a race needs one request that holds an
old answer, one that changes or reads something newer, and time to pass in between:
two requests, a clock of a few seconds, and lifetimes smaller than the clock's range,
so that entries do run out and are renewed. Tokens and tenants do not interact except
through eviction; that a `check()` never leaves more than one entry above the cache's
bound is proved for all constants (`CacheBounded`) and has no run. Two processes let one sign out and
the other keep a stale verdict. For the guards a third request is needed, to purge
while the first two hold the same credential. In `Sessions` every property is about
what a token was made from; three tokens give every chain mint, exchange, mint again
(for instance key session, hand-off code, redeemed session), and two tenants give an
inside and an outside. In `Directory` operations exclude each other, so a second thread
only has to be there to want the mutex and to act after the first; one change of
membership lets master and replica differ and a search see what an earlier one did not.
In `OauthLogin` two flows can be mixed up, two handlers can race for one state and for
the key cache, and one rotation separates what is cached from what is published.
`Content` needs a file longer than a frame, a window strictly inside it, and numbers at
and above the length and at the largest long. `Admission` needs more clients than
workers, and a queue that can both shed and be full. `MaxTime`, `MaxTokens`,
`MaxChanges` and `MaxRotations` are the only bounds in guards.

*Deadlock* is not checked in the `sessions` configurations (when the token budget is
used up, nothing more is minted) and in `admission` (a bridge that has been stopped may
stay so, and one whose backends hang may have nothing left to do).

*Symmetry* is used where the elements are interchangeable and the properties are
invariants or action properties; never in a run with a liveness property.

*Fairness.* Safety properties assume none. The two modules with liveness say what they
need in named formulas:

* `Directory`: strong fairness of the step of the thread that holds the mutex (the
  scheduler runs it, and a server that answers again and again answers its call), weak
  fairness of the clock. `LockReleased` and `MasterFoundAgain` also carry
  `ServersEndCalls` as a premise: libldap is called without a timeout, so that no server
  hangs for good is an assumption about the directory and not a fact about the code.
* `Admission`: `ThreadsRun`, weak fairness of what a worker or the reporter can do by
  itself; `ServersEndCalls`, weak fairness of a call to a backend that is not in `hung`;
  `WaitersGetTheirTurn`, strong fairness of taking the mutex and the reporter, since a
  `std::mutex` is not fair by contract but no implementation starves a waiter for ever;
  `ClientsPause`, strong fairness of closing a connection: a client that never pauses
  keeps its worker, which is how Poco's keep-alive works and not something the bridge
  limits. Nothing makes a client connect or a backend recover.

*Mutants.* Each property of a passing run has a mutated definition
(`mutants` in `PROJECT.json`) under which TLC finds it violated.

## 4. Findings

The violated runs are disagreements between what the repository says and the code:

1. `replay_code`: `ssoRedeem()` hands the guard the clock sample of its verification;
   held up past `exp`, it can have a code accepted again that another thread purged.
2. `sessions_presence`: `mintJwt()` may replace the tenant; presence is recorded under
   the one before and cut under the one after.
3. `oauth_issuer`: for Microsoft's multi-tenant endpoints no issuer is configured, and
   `OAUTH_SETUP.md` says the check is then left off. `verifyIdToken()` compares all the
   same, with the empty string, and refuses every genuine login of a provider that
   `usableNames()` offers.
4. `directory_admin`: the comment on `roleAliases()` says that the core gives a tenant
   admin "access to THEIR OWN tenant's files - and never beyond it". A Basic request is
   answered with the roles of all tenants' groups (`collectTenantGroupRoles()` searches
   the whole subtree) at whichever of the user's tenants it names: an administrator of
   one tenant who is an ordinary member of another carries `tenant_admin` there, which a
   bearer token of that tenant does not.

Observations made while modelling, without a run of their own:

* `revoke()` seeds the cache so that "this instance stops honouring the token
  immediately", but a `check()` in flight overwrites the seed; the bound of `cache_ttl`
  holds. In the same way a tenant's refusal can be overwritten by an older admission;
  the bound of 60 s holds.
* The assertion verifier grants 60 s of leeway after `exp`, the guard's memory does not.
* `issueToken()` gates the tenant addressed and mints for the one it falls back to; the
  resource routes gate again.
* `tenant_role_policy.h` calls `extractRolesFromGroups()` the only entry point for tenant
  roles and refuses deployment roles (`system_admin`) there; `getRolesByTenant()`, which
  fills session tokens, has a search of its own without that filter, and comments in
  `roleAliases()` and `ldap_authenticator.cpp` expect `system_admin` to pass verbatim.
  The comments disagree, so no property takes a side; `SignInExact` says what the code
  does and `DoorsAgree` is about names outside that namespace.
* That search also does without `roleSearchBase()`: with `FILEENGINE_LDAP_TENANT_BASE`
  set to the directory root, a password sign-in has no roles at all while a session
  token still carries those `getRolesByTenant()` finds below the root.
* A failed search looks like one that found nothing, so a sign-in whose first two
  searches fail goes on to the third, which takes any class of group, `memberUid` and
  the default tenant's groups. It can therefore come out with a role that an undisturbed
  sign-in does not give. `RolesEarned` is the bound that remains, `SignInExact` the rule
  without failures.
* A 2xx JWKS body that is empty or no JSON is cached like any other; every later login of
  that provider is refused as final, without a fetch, until a restart. A cached key
  without an id does the same to tokens of keys published after it.
* An OK of the core before the end of the body gives 204 for the part it read; a reply
  that is lost gives 500 for a file that is stored.
* `parseRange()` reads a negative end as an open one.
* `/readyz` on the public port is exempt from shedding and blocks on the core, so with a
  core that hangs it takes workers even under overload.
* `streamFileDownload()` counts the status CANCELLED as success whoever cancelled; a
  core that cancels before its first frame is answered as an empty file.
* A client that leaves in the middle of an upload looks like the end of the body: what
  arrived is committed. `getContent()`, unlike `getVersion()`, does not notice that its
  client has left and reads the stream to its end.
* The monitoring port reports a queue of eight times the threads; the queue is 64 times
  the threads or `HTTP_MAX_QUEUED`. An `HTTP_MAX_QUEUED` of four times the threads or
  less means that no request is ever shed.

## 5. Proofs

Every safety property that a passing run checks is also a theorem, for every number of
processes, requests, tokens, tenants, groups, flows, keys, connections and workers, and
for all lifetimes, sizes and bounds. Each argument is one inductive invariant, `IInv`,
that TLC checked on the run's instance before it was proved: it holds initially, every
action keeps it (one lemma per action), and it implies the properties.

The theorems rest on the named assumptions of the modules and no others: types of the
constants; values such as `NoJti`, `NoTenant`, `NoConn` outside the sets they are told
apart from; non-zero cache lifetimes, cooldown and queue; credentials that do not expire
at time 0; `Principal` not a directory user; a group's `cn` among its names;
distinct published keys that share a `kid` only by having none; file sizes and header
numbers within a long. Where a theorem is about a fail-closed denylist, its
property says `~FailOpen`.

* **TokenDenylistProofs**: `TypeCorrect`, `Inductive`, `LatencyBounded`, `FailClosed`,
  `KeyOutlivesToken`, `CacheBounded`. `RevocationLatency` speaks of a request that has its verdict; by
  then it is too late to know how old the verdict is. `IInv` therefore follows an
  `Allowed` from Redis to the caller: while it travels (`AnsweredOK`), the sample `now`
  is no later than the answer and no later than the revocation; in the cache (`EntryOK`)
  its end is at most `CacheTtl` after both; in a decided request (`DecidedOK`) the start
  is. `StoreInv` says the key is in Redis until `exp`, so that an answer after the
  revocation cannot be "absent" while the token lives. The predicates take clock and
  histories as arguments, and one lemma carries each over every step because clock and
  histories only grow. `CacheBounded` is about cardinalities, and there may be infinitely
  many jtis: that each cache is finite is an invariant of its own (`FiniteInv`).
* **ReplayGuardProofs**: `TypeCorrect`, `RecordsSurvive`, `SingleUse`. The invariant adds to
  `UsedIsRemembered` that every sample a request carries is at most the clock: a purge
  with an old sample removes less, never more.
* **TenantGateProofs**: `TypeCorrect`, `Inductive`, `SuspensionTakesEffect`,
  `ReopeningTakesEffect`, `FailsClosed`, `GateIsBoundedlyStale`. Entries and answers in flight are tied to `closedAt`, `openedAt` and
  `toldLive`: an admission ends at most `AdmitTtl` after the tenant closed, a definite
  refusal at most `RefuseTtl` after it opened.
  `GateIsBoundedlyStale` is the refinement: `EnterAsks`, `ReadCacheAnswers`,
  `PutVerdictAnswers`, `SetStateTurns` and `LeavingLeaves` map each step to one of
  `BoundedStaleness`, `SilentSteps` shows the others to be invisible, and
  `DecisionAnswers` gets the lag an answer may have from the invariant after the step.

* **SessionsProofs**: `TypeCorrect`, `OwnDoor`, `Confined`, `FactorKept`, `RotationEnds`.
  An endpoint sees claims, the properties speak of what a token is and where it came
  from; `TokenOK` closes the gap. Its `Marks` says which claims each kind has, so that a
  token without `mfa_pending` and `typ` that has a role is a session; `ChainOK` ties
  `factor` and `skgen` to the first sign-in. `RequestOK` says the same of what a handler
  has read and not yet used. For `RotationEnds` it adds what a race could spoil: a key
  that was not live when the request came is revoked or of a later generation for good,
  so that `mayRefresh()`, asked later, cannot say yes. `LocalStep` and `SignStep` carry
  the invariant over a handler that signs nothing and one that signs a token.
* **DirectoryProofs**: `TypeCorrect`, `Earned`, `ExactRoles`, `UnderTheirTenant`,
  `SameIdentity`, `MasterSpared`. `Exclusive` is mutual exclusion: one operation is under
  way and nothing has been returned since it began, so `held` belongs to the answer that
  will come. `Copies` says that whatever a server lists is in `held` or `ever`;
  `Justified` is then monotone in what an answer rests on, and survives changes of the
  directory after the return. For the exact answers it adds that an operation still
  `steady` has `held` equal to what the master lists, and that a steady sign-in reaches
  the wider searches only if the user has no role group. `SameIdentity` then compares the
  answer with the role operators (`OrdinaryGroups`, `MappingsAgree`). `BreakerOK` says
  that what is left of the cooldown and the age of the last failure together make a
  cooldown, and that a call to the master under way was begun outside it, without which a
  success, which resets the breaker, would break the sum.
* **OauthLoginProofs**: `TypeCorrect`, `OneSignIn`, `Timely`, `BoundToFlow`,
  `KeyGoneIfRefused`, `Swept`. `FlowsOK`: a state is in the store, or with one handler,
  or spent, and never two of these; `RecordOK` carries through a callback when the flow
  started, which code was exchanged, that a key looked for in a fetched document is in it,
  or has been withdrawn since, or the document has no keys, and which document decided.
* **ContentProofs**: `TypeCorrect`, `BodyExact`, `Complete`, `RangeExact`, `UploadWhole`.
  The window is an interval of offsets; after any frames the body is its first `Sent(pos)`
  bytes, and `skip` and `remaining` are functions of `pos`. `ChunkArithmetic` shows that
  for one frame, for every length of file, frame and range. For uploads `UploadOK` relates
  what the core has committed and answered to what the bridge has read, at every order of
  answer, break, failing `Write` and end of the body.
* **AdmissionProofs**: `TypeCorrect`, `InHand`. No run lists `WaitingIsInHand`; TLC
  checked it with `IInv` on the instance of `admission`. It is the safety half of
  `AcceptedIsAnswered`: a request without an answer is in the queue once or with one
  worker that still owes it (`OnePlace`, `NoneLost`, `AtWork`), and the mutex is with the
  worker at the directory (`LockOK`), so nobody waits for something that is nowhere.

Only model-checked: `LockReleased`, `MasterFoundAgain`, `AcceptedIsAnswered` and
`MonitorAlwaysAnswers`, which are liveness under fairness. That, `ENABLED`, induction
over data and modules with `RECURSIVE` operators are outside the prover's reach; the
modules use no `RECURSIVE` operator.

## 6. Plan

1. `TokenDenylist` as a second implementation of `BoundedStaleness`, with its proof, and
   the caches of `tenantRequires2fa()` and `sessionTtl()` as further readers of that kind.
2. Proofs of the operators the specifications share: what `pruneLocked`, `accept()` and
   the window arithmetic promise, as lemmas that stand by themselves.
3. `AuditPublisher` and `SessionStore` connections: reconnect once, then give up.

## 7. Not modelled

The translation of the other REST routes to gRPC (stateless, one call each; ACLs are
the core's), cryptography and JWT encoding (a token the bridge did not sign does not
verify), the client address, CORS and header parsing (pure functions of one request),
the HTTP client, environment and string utilities, start-up (sequential, run once),
what `/metrics` and the access log print, and the opaque token store, which no handler
uses.
