------------------------------- MODULE Sessions -------------------------------
(***************************************************************************)
(* The life of a credential in the HTTP bridge: every handler of           *)
(* src/src/http_server.cpp that mints, exchanges, renews, presents or ends *)
(* one.  The bridge signs five kinds of JWT with one secret:               *)
(*                                                                         *)
(*   session  mintJwt()             the bearer of a signed-in user         *)
(*   service  mintServiceJwt()      an integration acting as itself        *)
(*   pending  mintMfaPending()      password done, second factor to come   *)
(*   code     buildHandoffClaims()  one-time SSO hand-off                  *)
(*   ticket   buildTicketClaims()   one file, in a URL                     *)
(*                                                                         *)
(* What tells them apart at an endpoint is the presence or absence of      *)
(* claims, so a token is modelled by its claims and the endpoints by what  *)
(* they look at.                                                           *)
(*                                                                         *)
(* The denylist, the tenant gate and the single-use guard stand here for   *)
(* what TokenDenylist, TenantGate and ReplayGuard show of them, without    *)
(* their delays: a token is revoked, a tenant live, a code used, or not.   *)
(* An early return that changes nothing, the one for an expired token      *)
(* included, is a step not taken.                                          *)
(***************************************************************************)
EXTENDS Integers, Sequences

CONSTANTS
  Handler,     \* requests in flight
  User,        \* directory users
  Principal,   \* the integration's own principal, not in the directory
  Tenant,      \* tenants
  Home,        \* tenants every user belongs to at first
  Ip,          \* client addresses
  KeyUser,     \* owner of the one generated key:secret credential
  KeyTenant,   \* the tenant it is bound to
  Mandate,     \* tenants that require a second factor
  Enrolled,    \* users enrolled in one
  MfaEnabled,  \* cfg_.mfa_enabled
  MaxTokens,   \* bound on tokens ever signed
  MaxChanges   \* bound on changes in the directory, the registry and the key

ASSUME PartyAssumption ==
  Principal \notin User /\ KeyUser \in User /\ KeyTenant \in Tenant /\ Home \subseteq Tenant
ASSUME PolicyAssumption ==
  Mandate \subseteq Tenant /\ Enrolled \subseteq User /\ MfaEnabled \in BOOLEAN
ASSUME BoundAssumption == MaxTokens \in Nat /\ MaxChanges \in Nat

VARIABLES
  token,      \* token[j]: claims of the token with jti j, in order of signing
  revoked,    \* jtis on the denylist
  redeemed,   \* jtis in sso_replay_
  presence,   \* the webdav:session sorted sets in Redis
  members,    \* members[u]: tenants the directory says u belongs to (external)
  live,       \* tenants whose registry state is live (external)
  key,        \* the generated credential as ldap_manager holds it (external)
  changes,    \* how often the external state has changed
  req         \* req[h]: the locals of the handler thread h is running

vars == <<token, revoked, redeemed, presence, members, live, key,
          changes, req>>

external == <<members, live, key, changes>>

-----------------------------------------------------------------------------
Party == User \cup {Principal}

\* What a credential's chain of custody began with: a password or an assertion
\* without a second factor, a second factor (the bridge's own, the IdP's, or
\* one an integration vouches for), or the generated key.
Root == {"password", "factor", "key"}

\* kind and root are not claims: they say what the bridge minted and from what.
\* roles is the domain of the {tenant: [roles]} claim, factor whether amr
\* satisfies a second factor, skgen the key generation (0: no skid claim), mip
\* the address of a pending token, sid the session of a ticket.
Claims ==
  [kind : {"session", "service", "pending", "code", "ticket"},
   root : Root,
   sub : Party,
   tenant : Tenant,
   roles : SUBSET Tenant,
   factor : BOOLEAN,
   skgen : 0 .. MaxChanges + 1,
   mfa_pending : BOOLEAN,
   sso : BOOLEAN,
   typ : BOOLEAN,
   mip : Ip \cup {"none"},
   sid : 0 .. MaxTokens]

\* A session's claims before anything about it is special.
Plain(kind, root, sub, tenant, roles, factor) ==
  [kind |-> kind, root |-> root, sub |-> sub, tenant |-> tenant, roles |-> roles,
   factor |-> factor, skgen |-> 0, mfa_pending |-> FALSE, sso |-> FALSE,
   typ |-> FALSE, mip |-> "none", sid |-> 0]

\* pc: "authed" is past authenticate() and the tenant gate, "minting" is about to
\* call mintJwt, "serving" is about to answer with a ticket's file.  src is the
\* token presented (0: none, or no longer needed); keyLive is history: the key was
\* live and of this session's generation when the request arrived.
Idle ==
  [pc |-> "idle", src |-> 0, user |-> Principal, tenant |-> "none", root |-> "password",
   factor |-> FALSE, skgen |-> 0, record |-> FALSE, ip |-> "none", keyLive |-> FALSE]

Request ==
  [pc : {"idle", "authed", "minting", "serving"},
   src : 0 .. MaxTokens,
   user : Party,
   tenant : Tenant \cup {"none"},
   root : Root,
   factor : BOOLEAN,
   skgen : 0 .. MaxChanges + 1,
   record : BOOLEAN,
   ip : Ip \cup {"none"},
   keyLive : BOOLEAN]

Jti == 1 .. MaxTokens

Member == [tenant : Tenant, uid : Party, jti : Jti, ip : Ip]

TypeOK ==
  /\ token \in Seq(Claims) /\ Len(token) <= MaxTokens
  /\ revoked \subseteq Jti /\ redeemed \subseteq Jti
  /\ presence \subseteq Member
  /\ members \in [Party -> SUBSET Tenant]
  /\ live \subseteq Tenant
  /\ key \in [active : BOOLEAN, gen : 1 .. MaxChanges + 1]
  /\ changes \in 0 .. MaxChanges
  /\ req \in [Handler -> Request]

Init ==
  /\ token = <<>>
  /\ revoked = {} /\ redeemed = {}
  /\ presence = {}
  /\ members = [p \in Party |-> IF p \in User THEN Home ELSE {}]
  /\ live = Tenant
  /\ key = [active |-> TRUE, gen |-> 1]
  /\ changes = 0
  /\ req = [h \in Handler |-> Idle]

-----------------------------------------------------------------------------
(* Helpers.                                                                *)

\* jwt::verify: the bridge signed it.  That it has not expired is not said: an
\* expired token is one that is presented no more.
verify(j) == j \in DOMAIN token

tenantAdmits(t) == t \in live

\* The bound on tokens, asked at the start of what ends in one and again there.
Room == Len(token) < MaxTokens

Sign(claims) == token' = Append(token, claims)

\* The tenants of u, from the directory.  When it cannot be reached the answer is
\* empty and every caller below refuses: a step not taken.
getTenantsForUser(u) == members[u]

\* Keep the tenant asked for if the user is a member, else one they belong to.
memberTenant(u, asked, t) ==
  LET tenants == getTenantsForUser(u)
  IN  t \in tenants /\ (asked \in tenants => t = asked)

\* The tenant's own mandate; asked of password-only sessions.
tenantRequires2fa(t) == t \in Mandate

\* Enrolled, or the tenant mandates it.
mfaRequired(u, t) == u \in Enrolled \/ t \in Mandate

\* ldap_manager says Valid, asked to verify the key or for its status: it is not
\* revoked and is bound to the tenant named.
serviceCredCall(t) == key.active /\ t = KeyTenant

\* A request that has done everything but call mintJwt.
Minting(u, t, root, factor, gen, record, ip, keyLive) ==
  [pc |-> "minting", src |-> 0, user |-> u, tenant |-> t, root |-> root,
   factor |-> factor, skgen |-> gen, record |-> record, ip |-> ip, keyLive |-> keyLive]

\* Mutant: the generation is not compared.
mayRefreshAnyGeneration(u, gen, t) ==
  serviceCredCall(t) /\ u = KeyUser /\ gen > 0 /\ t \in getTenantsForUser(u)

\* mayRefresh() of service_key_policy.h: verdict, user, generation, membership.
mayRefresh(u, gen, t) ==
  /\ serviceCredCall(t)
  /\ u = KeyUser
  /\ gen > 0 /\ gen = key.gen
  /\ t \in getTenantsForUser(u)

\* What the directory may answer when a session is minted: the tenants the user
\* has roles in, or nothing if it cannot be reached, which is not an error.
getRolesByTenant(u) == {members[u], {}}

\* A key's session carries its own tenant only.
rolesForKeySession(byTenant, t) == byTenant \cap {t}

\* SessionStore: ZADD and ZREM, best effort; `reached` says they got to Redis.
add(member, reached) == IF reached THEN presence \cup {member} ELSE presence

remove(member, reached) == IF reached THEN presence \ {member} ELSE presence

recordSession(t, u, j, ip, reached) ==
  add([tenant |-> t, uid |-> u, jti |-> j, ip |-> ip], reached)

dropSession(t, u, j, ip, reached) ==
  remove([tenant |-> t, uid |-> u, jti |-> j, ip |-> ip], reached)

-----------------------------------------------------------------------------
(* Signing in.                                                             *)

\* issueToken(): Basic credentials bind, the tenant resolved from the request is
\* admitted, the tenant stamped is one the user belongs to; then either the
\* second factor is due and a pending token is signed, or a session is.
IssueToken(h, u, ip, asked, t) ==
  /\ req[h].pc = "idle"
  /\ Room
  /\ tenantAdmits(asked)
  /\ memberTenant(u, asked, t)
  /\ IF MfaEnabled /\ mfaRequired(u, t)
     THEN /\ Sign([Plain("pending", "password", u, t, {}, FALSE)
                     EXCEPT !.mfa_pending = TRUE, !.mip = ip])
          /\ UNCHANGED req
     ELSE /\ req' = [req EXCEPT ![h] =
                       Minting(u, t, "password", FALSE, 0, TRUE, ip, FALSE)]
          /\ UNCHANGED token
  /\ UNCHANGED <<revoked, redeemed, presence, external>>

\* verifyMfa(), verify and enroll_complete: a pending token presented from the
\* address it was issued to, and a second factor ldap_manager accepts.
VerifyMfa(h, j, ip) ==
  /\ req[h].pc = "idle"
  /\ Room
  /\ verify(j)
  /\ token[j].mfa_pending
  /\ token[j].mip = ip
  /\ req' = [req EXCEPT ![h] =
               Minting(token[j].sub, token[j].tenant, "factor", TRUE, 0, TRUE, ip, FALSE)]
  /\ UNCHANGED <<token, revoked, redeemed, presence, external>>

\* oauthCallback(): the IdP vouches for the user; st.tenant came from the host
\* the flow started at, and nothing asks whether the user belongs to it.
OauthCallback(h, u, ip, asked) ==
  /\ req[h].pc = "idle"
  /\ Room
  /\ req' = [req EXCEPT ![h] =
               Minting(u, asked, "factor", TRUE, 0, TRUE, ip, FALSE)]
  /\ UNCHANGED <<token, revoked, redeemed, presence, external>>

\* authExchange(), delegated: the integration vouches for the user and for the
\* methods they used.
ExchangeDelegated(h, u, ip, asked, t, factor) ==
  /\ req[h].pc = "idle"
  /\ Room
  /\ memberTenant(u, asked, t)
  /\ req' = [req EXCEPT ![h] =
               Minting(u, t, IF factor THEN "factor" ELSE "password", factor, 0,
                       TRUE, ip, FALSE)]
  /\ UNCHANGED <<token, revoked, redeemed, presence, external>>

\* authExchange(), service: configured roles, no directory, no presence entry.
ExchangeService(h, t) ==
  /\ req[h].pc = "idle"
  /\ Room
  /\ Sign(Plain("service", "password", Principal, t, {t}, FALSE))
  /\ UNCHANGED <<revoked, redeemed, presence, external, req>>

\* Mutant: the session is recorded like a person's, under no address.
IssueServiceKeyTokenRecorded(h, t) ==
  /\ req[h].pc = "idle"
  /\ Room
  /\ tenantAdmits(t)
  /\ serviceCredCall(t)
  /\ t \in getTenantsForUser(KeyUser)
  /\ req' = [req EXCEPT ![h] =
               Minting(KeyUser, t, "key", TRUE, key.gen, TRUE, "none", TRUE)]
  /\ UNCHANGED <<token, revoked, redeemed, presence, external>>

\* issueServiceKeyToken(): the key verifies for the tenant addressed, and its
\* owner still belongs to it.
IssueServiceKeyToken(h, t) ==
  /\ req[h].pc = "idle"
  /\ Room
  /\ tenantAdmits(t)
  /\ serviceCredCall(t)
  /\ t \in getTenantsForUser(KeyUser)
  /\ req' = [req EXCEPT ![h] =
               Minting(KeyUser, t, "key", TRUE, key.gen, FALSE, "none", TRUE)]
  /\ UNCHANGED <<token, revoked, redeemed, presence, external>>

\* mintJwt() and recordSession(), the last steps of every sign-in and renewal.
\* The roles are read from the directory anew (byTenant); a tenant that is not
\* among them is replaced in the token, but not in the presence entry.
Mint(h, byTenant, t, stored) ==
  LET r == req[h]
      j == Len(token) + 1
      roles == IF r.skgen = 0 THEN byTenant ELSE rolesForKeySession(byTenant, r.tenant)
  IN  /\ r.pc = "minting"
      /\ byTenant \in getRolesByTenant(r.user)
      /\ Room
      /\ IF roles = {} \/ r.tenant \in roles THEN t = r.tenant ELSE t \in roles
      /\ Sign([Plain("session", r.root, r.user, t, roles, r.factor) EXCEPT !.skgen = r.skgen])
      /\ presence' = recordSession(r.tenant, r.user, j, r.ip, stored /\ r.record)
      /\ req' = [req EXCEPT ![h] = Idle]
      /\ UNCHANGED <<revoked, redeemed, external>>

-----------------------------------------------------------------------------
(* Presenting a token.                                                     *)

\* Mutant: the tenant claim is taken as proof of membership.
tokenTenantMemberByClaim(c, t) == t \in c.roles \/ t = c.tenant

\* Only the roles map proves membership.
tokenTenantMember(c, t) == t \in c.roles

\* Not a challenge token and not a ticket.
bearerType(c) == ~c.mfa_pending /\ ~c.typ

\* The identity a token speaks for in tenant t.
identityFromClaims(j, t, ip) ==
  LET c == token[j]
  IN  [pc |-> "authed", src |-> j, user |-> c.sub, tenant |-> t, root |-> c.root,
       factor |-> c.factor, skgen |-> c.skgen, record |-> FALSE, ip |-> ip,
       keyLive |-> key.active /\ key.gen = c.skgen]

\* authenticate() of a bearer, with the tenant picked by X-Tenant or the claim,
\* and the session gate of handleV1 after it.
Authenticate(h, j, ip, t) ==
  LET c == token[j]
  IN  /\ req[h].pc = "idle"
      /\ verify(j)
      /\ c.typ \/ j \notin revoked       \* a ticket has no jti to look up
      /\ bearerType(c)
      /\ tokenTenantMember(c, t)
      /\ MfaEnabled /\ ~c.factor => ~tenantRequires2fa(t)
      /\ tenantAdmits(t)
      /\ req' = [req EXCEPT ![h] = identityFromClaims(j, t, ip)]
      /\ UNCHANGED <<token, revoked, redeemed, presence, external>>

\* authenticate() of Basic credentials: no token, no amr, no session to bind a
\* ticket to.  The tenant must be live and one the user belongs to; the tenant's
\* second-factor mandate is not asked.
AuthenticateBasic(h, u, ip, t) ==
  /\ req[h].pc = "idle"
  /\ tenantAdmits(t)
  /\ t \in getTenantsForUser(u)
  /\ req' = [req EXCEPT ![h] =
               [Idle EXCEPT !.pc = "authed", !.user = u, !.tenant = t, !.ip = ip]]
  /\ UNCHANGED <<token, revoked, redeemed, presence, external>>

\* Any resource route; and any "no" to an authenticated request: 401 or 403 from
\* the checks below, 503 from an audit log or an ldap_manager that is down.
Answer(h) ==
  /\ req[h].pc \in {"authed", "serving"}
  /\ req' = [req EXCEPT ![h] = Idle]
  /\ UNCHANGED <<token, revoked, redeemed, presence, external>>

\* downloadTicket() and playbackTicket().
MintTicket(h) ==
  LET r == req[h]
  IN  /\ r.pc = "authed"
      /\ Room
      /\ Sign([Plain("ticket", r.root, r.user, r.tenant, {r.tenant}, FALSE)
                 EXCEPT !.typ = TRUE, !.sid = r.src])
      /\ req' = [req EXCEPT ![h] = Idle]
      /\ UNCHANGED <<revoked, redeemed, presence, external>>

\* identityFromDownloadTicket(): pre-auth, for the content route only.
UseTicket(h, j, ip) ==
  LET c == token[j]
  IN  /\ req[h].pc = "idle"
      /\ verify(j)
      /\ c.typ
      /\ c.sid \notin revoked
      /\ tenantAdmits(c.tenant)
      /\ req' = [req EXCEPT ![h] =
                   [identityFromClaims(j, c.tenant, ip) EXCEPT !.pc = "serving"]]
      /\ UNCHANGED <<token, revoked, redeemed, presence, external>>

-----------------------------------------------------------------------------
(* Renewing, handing over, ending.                                         *)

\* Mutant: a key session may hand off too.
mayHandOffAny(r) == TRUE

\* Not available to a service-credential session.
mayHandOff(r) == r.skgen = 0

\* ssoHandoff(): a code for the caller's own user and tenant.
SsoHandoff(h) ==
  LET r == req[h]
  IN  /\ r.pc = "authed"
      /\ mayHandOff(r)
      /\ Room
      /\ Sign([Plain("code", r.root, r.user, r.tenant, {}, r.factor) EXCEPT !.sso = TRUE])
      /\ req' = [req EXCEPT ![h] = Idle]
      /\ UNCHANGED <<revoked, redeemed, presence, external>>

\* Mutant: the transport is taken for a second factor.
redeemedFactorAlways(c) == TRUE

\* The code's methods and "sso", which is not a second factor.
redeemedFactor(c) == c.factor

\* ssoRedeem(): once the guard has accepted the code it is spent, whether or not
\* the audit log then lets the session be minted.
SsoRedeem(h, j, ip, audited) ==
  LET c == token[j]
  IN  /\ req[h].pc = "idle"
      /\ Room
      /\ verify(j)
      /\ c.sso
      /\ j \notin redeemed
      /\ redeemed' = redeemed \cup {j}
      /\ req' = IF audited
                THEN [req EXCEPT ![h] = Minting(c.sub, c.tenant, c.root,
                                                redeemedFactor(c), 0, TRUE, ip, FALSE)]
                ELSE req
      /\ UNCHANGED <<token, revoked, presence, external>>

\* refreshToken(): the user must still belong to some tenant; methods carry over.
RefreshToken(h, t) ==
  LET r == req[h]
  IN  /\ r.pc = "authed"
      /\ Room
      /\ r.skgen = 0
      /\ memberTenant(r.user, r.tenant, t)
      /\ req' = [req EXCEPT ![h] =
                   Minting(r.user, t, r.root, r.factor, 0, TRUE, r.ip, FALSE)]
      /\ UNCHANGED <<token, revoked, redeemed, presence, external>>

\* refreshServiceKeyToken(): the key must still be live and unrotated.
RefreshServiceKeyToken(h) ==
  LET r == req[h]
  IN  /\ r.pc = "authed"
      /\ Room
      /\ r.skgen # 0
      /\ mayRefresh(r.user, r.skgen, r.tenant)
      /\ req' = [req EXCEPT ![h] =
                   Minting(r.user, r.tenant, r.root, TRUE, r.skgen, FALSE,
                           "none", r.keyLive)]
      /\ UNCHANGED <<token, revoked, redeemed, presence, external>>

\* revokeToken(): the jti goes on the denylist (or Redis is down: 503), then the
\* presence entry of the token's tenant, user, jti and CURRENT address is cut
\* (best effort).  A ticket has no jti, so its sign-out fails.
RevokeToken(h, j, ip, stored, dropped) ==
  LET c == token[j]
  IN  /\ req[h].pc = "idle"
      /\ verify(j)
      /\ ~c.typ
      /\ revoked' = IF stored THEN revoked \cup {j} ELSE revoked
      /\ presence' = dropSession(c.tenant, c.sub, j, ip, dropped)
      /\ UNCHANGED <<token, redeemed, external, req>>

-----------------------------------------------------------------------------
(* The world.                                                              *)

ChangeMembership(u, m) ==
  /\ changes < MaxChanges
  /\ m # members[u]
  /\ members' = [members EXCEPT ![u] = m]
  /\ changes' = changes + 1
  /\ UNCHANGED <<token, revoked, redeemed, presence, live, key, req>>

ChangeTenant(t) ==
  /\ changes < MaxChanges
  /\ live' = IF t \in live THEN live \ {t} ELSE live \cup {t}
  /\ changes' = changes + 1
  /\ UNCHANGED <<token, revoked, redeemed, presence, members, key, req>>

\* Rotated in place (same key_id, new generation) or revoked for good.
ChangeKey(k) ==
  /\ changes < MaxChanges
  /\ key.active
  /\ k \in {[key EXCEPT !.gen = @ + 1], [key EXCEPT !.active = FALSE]}
  /\ key' = k
  /\ changes' = changes + 1
  /\ UNCHANGED <<token, revoked, redeemed, presence, members, live, req>>

SignIn(h) ==
  \/ \E u \in User, ip \in Ip, asked, t \in Tenant : IssueToken(h, u, ip, asked, t)
  \/ \E j \in DOMAIN token, ip \in Ip : VerifyMfa(h, j, ip)
  \/ \E u \in User, ip \in Ip, asked \in Tenant : OauthCallback(h, u, ip, asked)
  \/ \E u \in User, ip \in Ip, asked, t \in Tenant, f \in BOOLEAN :
       ExchangeDelegated(h, u, ip, asked, t, f)
  \/ \E t \in Tenant : ExchangeService(h, t)
  \/ \E t \in Tenant : IssueServiceKeyToken(h, t)
  \/ \E byTenant \in SUBSET Tenant, t \in Tenant, stored \in BOOLEAN :
       Mint(h, byTenant, t, stored)

Present(h) ==
  \/ \E j \in DOMAIN token, ip \in Ip, t \in Tenant : Authenticate(h, j, ip, t)
  \/ \E u \in User, ip \in Ip, t \in Tenant : AuthenticateBasic(h, u, ip, t)
  \/ MintTicket(h)
  \/ \E j \in DOMAIN token, ip \in Ip : UseTicket(h, j, ip)
  \/ Answer(h)

Renew(h) ==
  \/ SsoHandoff(h)
  \/ \E j \in DOMAIN token, ip \in Ip, audited \in BOOLEAN : SsoRedeem(h, j, ip, audited)
  \/ \E t \in Tenant : RefreshToken(h, t)
  \/ RefreshServiceKeyToken(h)
  \/ \E j \in DOMAIN token, ip \in Ip, stored, dropped \in BOOLEAN :
       RevokeToken(h, j, ip, stored, dropped)

Environment ==
  \/ \E u \in User, m \in SUBSET Tenant : ChangeMembership(u, m)
  \/ \E t \in Tenant : ChangeTenant(t)
  \/ \E k \in [active : BOOLEAN, gen : 1 .. MaxChanges + 1] : ChangeKey(k)

Next ==
  \/ \E h \in Handler : SignIn(h) \/ Present(h) \/ Renew(h)
  \/ Environment

Spec == Init /\ [][Next]_vars

-----------------------------------------------------------------------------
(* What the handlers promise together.                                     *)

(* "A credential minted for one narrow purpose must not be accepted for a    *)
(* broader one" (authenticate()).  All five kinds are signed with one        *)
(* secret; still no challenge token, hand-off code or ticket ever passes for *)
(* a bearer, and only a ticket opens anything else.                          *)
EachKindAtItsOwnDoor ==
  \A h \in Handler :
    LET r == req[h] IN
    /\ r.pc = "authed" /\ r.src # 0 => token[r.src].kind \in {"session", "service"}
    /\ r.pc = "serving" => token[r.src].kind = "ticket"

(* "A key is bound to ONE tenant" (mintJwt()) and "a program's session must  *)
(* not open the WebDAV origin gate".  Whatever a generated credential is     *)
(* turned into, by renewal, tickets or hand-off and redemption, no token in  *)
(* the chain carries a role outside the key's tenant, and none of them ever  *)
(* leaves a presence entry.                                                  *)
KeyConfined ==
  /\ \A j \in DOMAIN token :
       token[j].root = "key" => token[j].roles \subseteq {KeyTenant}
  /\ \A p \in presence : token[p.jti].root # "key"

(* Second-factor strength is neither gained nor lost on the way: a session   *)
(* satisfies a 2FA-requiring tenant exactly if the sign-in its chain of      *)
(* renewals and hand-offs began with had a second factor behind it.          *)
FactorFollowsSignIn ==
  \A j \in DOMAIN token :
    token[j].kind = "session" => (token[j].factor <=> token[j].root # "password")

(* "Revoking or rotating a key ends its sessions at their next refresh": a   *)
(* renewal that arrives after the key was rotated or revoked never gets to   *)
(* mint.                                                                     *)
RotatedKeyNotRenewed ==
  \A h \in Handler : req[h].pc = "minting" /\ req[h].skgen # 0 => req[h].keyLive

(* revokeToken(): "the WebDAV session-presence entry is cut, so external     *)
(* WebDAV stops immediately".  After a sign-out that answered 204, from the  *)
(* address the session was recorded under and with Redis up throughout, the  *)
(* session has no presence entry.                                            *)
PresenceCutOnSignOut ==
  [][\A h \in Handler, j \in DOMAIN token, ip \in Ip :
       RevokeToken(h, j, ip, TRUE, TRUE) =>
         \A p \in presence' : ~(p.jti = j /\ p.ip = ip)]_vars
===============================================================================
