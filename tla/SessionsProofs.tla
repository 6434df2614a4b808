---------------------------- MODULE SessionsProofs ----------------------------
(***************************************************************************)
(* Proofs about Sessions, for any number of concurrent requests, users,    *)
(* tenants, tokens and changes of the key.                                 *)
(*                                                                         *)
(* The endpoints look at claims only, so the argument is about what the    *)
(* claims of a token give away: TokenOK ties them to the kind of token and *)
(* to the sign-in it began with, and RequestOK says the same of what a     *)
(* handler has read from a token and not yet used.                         *)
(***************************************************************************)
EXTENDS Sessions, SequenceTheorems, TLAPS

\* The marks that tell a kind at a door.
Marks(c) ==
  CASE c.kind = "pending"  -> c.mfa_pending /\ ~c.sso /\ ~c.typ
    [] c.kind = "code"     -> c.sso /\ ~c.mfa_pending /\ ~c.typ
    [] c.kind = "ticket"   -> c.typ /\ ~c.mfa_pending /\ ~c.sso
    [] OTHER               -> ~c.mfa_pending /\ ~c.sso /\ ~c.typ

\* The chain of custody of a bearer or of what is about to become one.
ChainOK(x) ==
  /\ x.root = "key" <=> x.skgen # 0
  /\ x.factor <=> x.root # "password"
  /\ x.skgen <= key.gen

TokenOK(c) ==
  /\ Marks(c)
  /\ c.kind \in {"session", "service"} => ChainOK(c)
  /\ c.kind = "code" => c.root # "key" /\ (c.factor <=> c.root # "password")
  /\ c.kind \in {"code", "pending"} => c.roles = {}
  /\ c.root = "key" => c.roles \subseteq {KeyTenant}

RequestOK(r) ==
  /\ r.pc \in {"authed", "minting"} =>
       /\ ChainOK(r)
       /\ r.tenant \in Tenant
       /\ r.root = "key" => r.tenant = KeyTenant
  /\ r.pc = "authed" =>
       /\ r.src # 0 => r.src \in DOMAIN token /\ token[r.src].kind \in {"session", "service"}
       /\ r.ip \in Ip
       /\ r.skgen # 0 => r.keyLive \/ ~key.active \/ r.skgen < key.gen
  /\ r.pc = "minting" =>
       /\ r.record => r.skgen = 0 /\ r.ip \in Ip
       /\ r.skgen # 0 => r.keyLive
  /\ r.pc = "serving" => r.src \in DOMAIN token /\ token[r.src].kind = "ticket"

PresenceOK ==
  \A p \in presence : p.jti \in DOMAIN token /\ token[p.jti].root # "key"

IInv ==
  /\ TypeOK
  /\ \A j \in DOMAIN token : TokenOK(token[j])
  /\ \A h \in Handler : RequestOK(req[h])
  /\ PresenceOK

-----------------------------------------------------------------------------
(* Records.                                                                *)

\* A thread without a request.
LEMMA IdleOK == Idle \in Request /\ RequestOK(Idle)
  <1>1. /\ Idle \in Request /\ Idle.pc = "idle"
    BY BoundAssumption DEF Idle, Request, Party, Root
  <1> QED
    BY <1>1 DEF RequestOK

\* A request that is about to mint, from what its handler has established.
LEMMA MintingOK ==
  ASSUME NEW u \in Party, NEW t \in Tenant, NEW root \in Root, NEW factor \in BOOLEAN,
         NEW gen \in 0 .. MaxChanges + 1, NEW record \in BOOLEAN,
         NEW ip \in Ip \cup {"none"}, NEW keyLive \in BOOLEAN,
         root = "key" <=> gen # 0, factor <=> root # "password", gen <= key.gen,
         root = "key" => t = KeyTenant,
         record => gen = 0 /\ ip \in Ip,
         gen # 0 => keyLive
  PROVE  LET r == Minting(u, t, root, factor, gen, record, ip, keyLive) IN
         r \in Request /\ RequestOK(r)
  <1> DEFINE r == Minting(u, t, root, factor, gen, record, ip, keyLive)
  <1>1. r \in Request
    BY BoundAssumption DEF Minting, Request
  <1>2. /\ r.pc = "minting" /\ r.tenant = t /\ r.root = root /\ r.factor = factor
        /\ r.skgen = gen /\ r.record = record /\ r.ip = ip /\ r.keyLive = keyLive
    BY DEF Minting
  <1> HIDE DEF r
  <1>3. ChainOK(r)
    BY <1>2 DEF ChainOK
  <1>4. RequestOK(r)
    BY <1>2, <1>3 DEF RequestOK
  <1> QED
    BY <1>1, <1>4 DEF r

-----------------------------------------------------------------------------
(* A step of one handler.                                                  *)

\* It signs nothing: the handler's locals change, the key does not.
LEMMA LocalStep ==
  ASSUME IInv, NEW h \in Handler, NEW r \in Request,
         req' = [req EXCEPT ![h] = r], RequestOK(r),
         revoked' \subseteq Jti, redeemed' \subseteq Jti,
         presence' \subseteq presence,
         UNCHANGED <<token, external>>
  PROVE  IInv'
  <1>1. req \in [Handler -> Request]
    BY DEF IInv, TypeOK
  <1>2. /\ req' \in [Handler -> Request]
        /\ \A g \in Handler : req'[g] = IF g = h THEN r ELSE req[g]
    BY <1>1
  <1>3. UNCHANGED <<token, members, live, key, changes>>
    BY DEF external
  <1>4. TypeOK'
    BY <1>2, <1>3 DEF IInv, TypeOK
  <1>5. \A g \in Handler : RequestOK(req[g])'
    <2> SUFFICES ASSUME NEW g \in Handler PROVE RequestOK(req[g])'
      OBVIOUS
    <2>1. RequestOK(req'[g])
      BY <1>2 DEF IInv
    <2> QED
      BY <1>3, <2>1 DEF RequestOK, ChainOK
  <1>6. \A j \in DOMAIN token' : TokenOK(token[j])'
    BY <1>3 DEF IInv, TokenOK, ChainOK, Marks
  <1>7. PresenceOK'
    BY <1>3 DEF IInv, PresenceOK
  <1> QED
    BY <1>4, <1>5, <1>6, <1>7 DEF IInv

\* What signing does to the sequence of tokens.
LEMMA Appended ==
  ASSUME IInv, Room, NEW c \in Claims, token' = Append(token, c)
  PROVE  /\ token' \in Seq(Claims) /\ Len(token') <= MaxTokens
         /\ Len(token) \in Nat /\ Len(token) + 1 \in Jti
         /\ DOMAIN token = 1 .. Len(token)
         /\ DOMAIN token' = 1 .. Len(token) + 1
         /\ token'[Len(token) + 1] = c
         /\ \A j \in DOMAIN token : j \in DOMAIN token' /\ token'[j] = token[j]
  <1>1. token \in Seq(Claims) /\ Len(token) \in Nat /\ DOMAIN token = 1 .. Len(token)
    BY LenProperties DEF IInv, TypeOK
  <1>2. Len(token) + 1 \in Jti
    BY <1>1, BoundAssumption DEF Room, Jti
  <1>3. token' \in Seq(Claims) /\ Len(token') = Len(token) + 1
    BY <1>1
  <1>4. /\ token'[Len(token) + 1] = c
        /\ \A j \in 1 .. Len(token) : token'[j] = token[j]
    BY <1>1
  <1>5. DOMAIN token' = 1 .. Len(token) + 1
    BY <1>3, LenProperties
  <1> QED
    BY <1>1, <1>2, <1>3, <1>4, <1>5, BoundAssumption DEF Jti

\* It signs c: the token is a good one of its kind, and what becomes of the
\* handler does not depend on it.
LEMMA SignStep ==
  ASSUME IInv, Room, NEW h \in Handler, NEW c \in Claims, token' = Append(token, c),
         TokenOK(c), NEW r \in Request, req' = [req EXCEPT ![h] = r], RequestOK(r),
         \/ presence' = presence
         \/ \E p \in Member : /\ p.jti = Len(token) + 1 /\ c.root # "key"
                              /\ presence' = presence \cup {p},
         UNCHANGED <<revoked, redeemed, external>>
  PROVE  IInv'
  <1>1. UNCHANGED <<members, live, key, changes>>
    BY DEF external
  <1>2. /\ token' \in Seq(Claims) /\ Len(token') <= MaxTokens
        /\ Len(token) \in Nat /\ Len(token) + 1 \in Jti
        /\ DOMAIN token = 1 .. Len(token) /\ DOMAIN token' = 1 .. Len(token) + 1
        /\ token'[Len(token) + 1] = c
        /\ \A j \in DOMAIN token : j \in DOMAIN token' /\ token'[j] = token[j]
    BY Appended
  <1>3. req \in [Handler -> Request]
    BY DEF IInv, TypeOK
  <1>4. /\ req' \in [Handler -> Request]
        /\ \A g \in Handler : req'[g] = IF g = h THEN r ELSE req[g]
    BY <1>3
  <1>5. presence' \subseteq Member
    BY DEF IInv, TypeOK
  <1>6. TypeOK'
    BY <1>1, <1>2, <1>4, <1>5 DEF IInv, TypeOK
  <1>7. \A g \in Handler : RequestOK(req[g])'
    <2> SUFFICES ASSUME NEW g \in Handler PROVE RequestOK(req[g])'
      OBVIOUS
    <2>1. RequestOK(req'[g])
      BY <1>4 DEF IInv
    <2> QED
      BY <1>1, <1>2, <2>1 DEF RequestOK, ChainOK
  <1>8. \A j \in DOMAIN token' : TokenOK(token[j])'
    <2> SUFFICES ASSUME NEW j \in DOMAIN token' PROVE TokenOK(token[j])'
      OBVIOUS
    <2>1. TokenOK(token'[j])
      BY <1>2 DEF IInv
    <2> QED
      BY <1>1, <2>1 DEF TokenOK, ChainOK, Marks
  <1>9. PresenceOK'
    <2>1. ASSUME NEW p \in presence
          PROVE  p.jti \in DOMAIN token' /\ token'[p.jti].root # "key"
      BY <1>2, <2>1 DEF IInv, PresenceOK
    <2>2. Len(token) + 1 \in DOMAIN token'
      BY <1>2
    <2> QED
      BY <1>2, <2>1, <2>2 DEF PresenceOK
  <1> QED
    BY <1>6, <1>7, <1>8, <1>9 DEF IInv

\* The key is rotated or revoked: generations only grow, and a revoked key stays
\* revoked, so what was not renewable stays so.
LEMMA ChangeKeyStep ==
  ASSUME IInv, NEW k \in [active : BOOLEAN, gen : 1 .. MaxChanges + 1], ChangeKey(k)
  PROVE  IInv'
  <1>1. /\ key' = k /\ key.active
        /\ key \in [active : BOOLEAN, gen : 1 .. MaxChanges + 1]
        /\ \/ k = [key EXCEPT !.gen = @ + 1]
           \/ k = [key EXCEPT !.active = FALSE]
        /\ changes' = changes + 1 /\ changes < MaxChanges
        /\ UNCHANGED <<token, revoked, redeemed, presence, members, live, req>>
    BY DEF ChangeKey, IInv, TypeOK
  <1>2. /\ key'.gen >= key.gen /\ key.gen \in Nat /\ key'.gen \in Nat
        /\ ~key'.active \/ key'.gen > key.gen
    BY <1>1, BoundAssumption
  <1>3. TypeOK'
    BY <1>1, BoundAssumption DEF IInv, TypeOK
  <1>4. \A g \in Handler : RequestOK(req[g])'
    <2> SUFFICES ASSUME NEW g \in Handler PROVE RequestOK(req[g])'
      OBVIOUS
    <2>1. RequestOK(req[g]) /\ req[g].skgen \in Nat
      BY BoundAssumption DEF IInv, TypeOK, Request
    <2> QED
      BY <1>1, <1>2, <2>1 DEF RequestOK, ChainOK
  <1>5. \A j \in DOMAIN token' : TokenOK(token[j])'
    <2> SUFFICES ASSUME NEW j \in DOMAIN token PROVE TokenOK(token[j])'
      BY <1>1
    <2>1. token[j] \in Claims
      BY LenProperties DEF IInv, TypeOK
    <2>2. TokenOK(token[j]) /\ token[j].skgen \in Nat
      BY <2>1, BoundAssumption DEF IInv, Claims
    <2> QED
      BY <1>1, <1>2, <2>2 DEF TokenOK, ChainOK, Marks
  <1>6. PresenceOK'
    BY <1>1 DEF IInv, PresenceOK
  <1> QED
    BY <1>3, <1>4, <1>5, <1>6 DEF IInv

\* The directory and the registry change.
LEMMA ChangeWorldStep ==
  ASSUME IInv, \/ \E u \in User, m \in SUBSET Tenant : ChangeMembership(u, m)
               \/ \E t \in Tenant : ChangeTenant(t)
               \/ UNCHANGED vars
  PROVE  IInv'
  <1>1. UNCHANGED <<token, revoked, redeemed, presence, key, req>>
    BY DEF ChangeMembership, ChangeTenant, vars
  <1>2. members' \in [Party -> SUBSET Tenant] /\ live' \subseteq Tenant
    BY DEF ChangeMembership, ChangeTenant, vars, IInv, TypeOK
  <1>3. changes' \in 0 .. MaxChanges
    BY BoundAssumption DEF ChangeMembership, ChangeTenant, vars, IInv, TypeOK
  <1>4. TypeOK'
    BY <1>1, <1>2, <1>3 DEF IInv, TypeOK
  <1>5. \A g \in Handler : RequestOK(req[g])'
    BY <1>1 DEF IInv, RequestOK, ChainOK
  <1>6. \A j \in DOMAIN token' : TokenOK(token[j])'
    BY <1>1 DEF IInv, TokenOK, ChainOK, Marks
  <1>7. PresenceOK'
    BY <1>1 DEF IInv, PresenceOK
  <1> QED
    BY <1>4, <1>5, <1>6, <1>7 DEF IInv

-----------------------------------------------------------------------------
(* Signing in.                                                             *)

\* What a handler knows of a token it is shown, and of itself.
LEMMA Shown ==
  ASSUME IInv
  PROVE  /\ \A j \in DOMAIN token : token[j] \in Claims /\ TokenOK(token[j]) /\ j \in Jti
         /\ \A h \in Handler : req[h] \in Request /\ RequestOK(req[h])
         /\ revoked \subseteq Jti /\ redeemed \subseteq Jti
         /\ key.gen \in 1 .. MaxChanges + 1 /\ key.active \in BOOLEAN
         /\ MaxChanges \in Nat /\ MaxTokens \in Nat
         /\ \A h \in Handler : req = [req EXCEPT ![h] = req[h]]
  <1>1. token \in Seq(Claims) /\ Len(token) \in Nat /\ DOMAIN token = 1 .. Len(token)
        /\ Len(token) <= MaxTokens
    BY LenProperties DEF IInv, TypeOK
  <1>2. \A j \in DOMAIN token : token[j] \in Claims /\ TokenOK(token[j])
    BY <1>1 DEF IInv
  <1>3. \A j \in DOMAIN token : j \in Jti
    BY <1>1, BoundAssumption DEF Jti
  <1>4. req \in [Handler -> Request] /\ \A h \in Handler : RequestOK(req[h])
    BY DEF IInv, TypeOK
  <1>5. \A h \in Handler : req = [req EXCEPT ![h] = req[h]]
    BY <1>4
  <1> QED
    BY <1>2, <1>3, <1>4, <1>5, BoundAssumption DEF IInv, TypeOK

\* issueToken().
LEMMA IssueTokenStep ==
  ASSUME IInv, NEW h \in Handler, NEW u \in User, NEW ip \in Ip,
         NEW asked \in Tenant, NEW t \in Tenant, IssueToken(h, u, ip, asked, t)
  PROVE  IInv'
  <1>1. Room /\ UNCHANGED <<revoked, redeemed, presence, external>>
    BY DEF IssueToken
  <1>2. CASE MfaEnabled /\ mfaRequired(u, t)
    <2> DEFINE q == Plain("pending", "password", u, t, {}, FALSE)
               c == [q EXCEPT !.mfa_pending = TRUE, !.mip = ip]
    <2>1. token' = Append(token, c) /\ req' = req
      BY <1>2 DEF IssueToken, Sign
    <2>2. /\ q \in Claims /\ q.kind = "pending" /\ q.root = "password" /\ q.roles = {}
          /\ q.sso = FALSE /\ q.typ = FALSE
      BY BoundAssumption DEF Plain, Claims, Root, Party
    <2> HIDE DEF q
    <2>3. /\ c \in Claims /\ c.kind = "pending" /\ c.root = "password" /\ c.roles = {}
          /\ c.mfa_pending = TRUE /\ c.sso = FALSE /\ c.typ = FALSE
      BY <2>2 DEF Claims
    <2> HIDE DEF c
    <2>4. TokenOK(c)
      BY <2>3 DEF TokenOK, Marks
    <2>5. req' = [req EXCEPT ![h] = req[h]] /\ req[h] \in Request /\ RequestOK(req[h])
      BY <2>1, Shown
    <2> QED
      BY <1>1, <2>1, <2>3, <2>4, <2>5, SignStep
  <1>3. CASE ~(MfaEnabled /\ mfaRequired(u, t))
    <2> DEFINE r == Minting(u, t, "password", FALSE, 0, TRUE, ip, FALSE)
    <2>1. req' = [req EXCEPT ![h] = r] /\ UNCHANGED token
      BY <1>3 DEF IssueToken
    <2>2. r \in Request /\ RequestOK(r)
      <3>1. 0 \in 0 .. MaxChanges + 1 /\ 0 <= key.gen
        BY Shown
      <3> QED
        BY <3>1, MintingOK DEF Root, Party
    <2> HIDE DEF r
    <2> QED
      BY <1>1, <2>1, <2>2, Shown, LocalStep
  <1> QED
    BY <1>2, <1>3

\* verifyMfa(): only a challenge token is marked as one.
LEMMA VerifyMfaStep ==
  ASSUME IInv, NEW h \in Handler, NEW j \in DOMAIN token, NEW ip \in Ip, VerifyMfa(h, j, ip)
  PROVE  IInv'
  <1> DEFINE c == token[j]
             r == Minting(c.sub, c.tenant, "factor", TRUE, 0, TRUE, ip, FALSE)
  <1>1. req' = [req EXCEPT ![h] = r]
        /\ UNCHANGED <<token, revoked, redeemed, presence, external>>
    BY DEF VerifyMfa
  <1>2. c.sub \in Party /\ c.tenant \in Tenant
    BY Shown DEF Claims
  <1>3. 0 \in 0 .. MaxChanges + 1 /\ 0 <= key.gen
    BY Shown
  <1>4. r \in Request /\ RequestOK(r)
    BY <1>2, <1>3, MintingOK DEF Root
  <1> HIDE DEF r
  <1> QED
    BY <1>1, <1>4, Shown, LocalStep

\* oauthCallback() and the delegated exchange.
LEMMA VouchedStep ==
  ASSUME IInv, NEW h \in Handler, NEW u \in User, NEW ip \in Ip, NEW asked \in Tenant,
         NEW t \in Tenant, NEW f \in BOOLEAN,
         OauthCallback(h, u, ip, asked) \/ ExchangeDelegated(h, u, ip, asked, t, f)
  PROVE  IInv'
  <1>1. 0 \in 0 .. MaxChanges + 1 /\ 0 <= key.gen /\ u \in Party
    BY Shown DEF Party
  <1>2. CASE OauthCallback(h, u, ip, asked)
    <2> DEFINE r == Minting(u, asked, "factor", TRUE, 0, TRUE, ip, FALSE)
    <2>1. req' = [req EXCEPT ![h] = r]
          /\ UNCHANGED <<token, revoked, redeemed, presence, external>>
      BY <1>2 DEF OauthCallback
    <2>2. r \in Request /\ RequestOK(r)
      BY <1>1, MintingOK DEF Root
    <2> HIDE DEF r
    <2> QED
      BY <2>1, <2>2, Shown, LocalStep
  <1>3. CASE ExchangeDelegated(h, u, ip, asked, t, f)
    <2> DEFINE root == IF f THEN "factor" ELSE "password"
               r == Minting(u, t, root, f, 0, TRUE, ip, FALSE)
    <2>1. req' = [req EXCEPT ![h] = r]
          /\ UNCHANGED <<token, revoked, redeemed, presence, external>>
      BY <1>3 DEF ExchangeDelegated
    <2>2. root \in Root /\ root # "key" /\ (f <=> root # "password")
      BY DEF Root
    <2> HIDE DEF root
    <2>3. r \in Request /\ RequestOK(r)
      BY <1>1, <2>2, MintingOK
    <2> HIDE DEF r
    <2> QED
      BY <2>1, <2>3, Shown, LocalStep
  <1> QED
    BY <1>2, <1>3

\* The service exchange.
LEMMA ExchangeServiceStep ==
  ASSUME IInv, NEW h \in Handler, NEW t \in Tenant, ExchangeService(h, t)
  PROVE  IInv'
  <1> DEFINE c == Plain("service", "password", Principal, t, {t}, FALSE)
  <1>1. Room /\ token' = Append(token, c)
        /\ UNCHANGED <<revoked, redeemed, presence, external, req>>
    BY DEF ExchangeService, Sign
  <1>2. /\ c \in Claims /\ c.kind = "service" /\ c.root = "password" /\ c.factor = FALSE
        /\ c.skgen = 0 /\ c.mfa_pending = FALSE /\ c.sso = FALSE /\ c.typ = FALSE
    BY BoundAssumption DEF Plain, Claims, Root, Party
  <1> HIDE DEF c
  <1>3. TokenOK(c)
    BY <1>2, Shown DEF TokenOK, Marks, ChainOK
  <1>4. req' = [req EXCEPT ![h] = req[h]] /\ req[h] \in Request /\ RequestOK(req[h])
    BY <1>1, Shown
  <1> QED
    BY <1>1, <1>2, <1>3, <1>4, SignStep

\* issueServiceKeyToken(): a verified key is bound to its one tenant.
LEMMA IssueServiceKeyTokenStep ==
  ASSUME IInv, NEW h \in Handler, NEW t \in Tenant, IssueServiceKeyToken(h, t)
  PROVE  IInv'
  <1> DEFINE r == Minting(KeyUser, t, "key", TRUE, key.gen, FALSE, "none", TRUE)
  <1>1. req' = [req EXCEPT ![h] = r] /\ t = KeyTenant
        /\ UNCHANGED <<token, revoked, redeemed, presence, external>>
    BY DEF IssueServiceKeyToken, serviceCredCall
  <1>2. key.gen \in 0 .. MaxChanges + 1 /\ key.gen # 0 /\ key.gen <= key.gen
        /\ KeyUser \in Party
    BY Shown, PartyAssumption DEF Party
  <1>3. r \in Request /\ RequestOK(r)
    BY <1>1, <1>2, MintingOK DEF Root
  <1> HIDE DEF r
  <1> QED
    BY <1>1, <1>3, Shown, LocalStep

\* mintJwt() and recordSession(): the session's chain is the request's, and a key
\* session gets the roles of its own tenant and no presence entry.
LEMMA MintStep ==
  ASSUME IInv, NEW h \in Handler, NEW byTenant \in SUBSET Tenant, NEW t \in Tenant,
         NEW stored \in BOOLEAN, Mint(h, byTenant, t, stored)
  PROVE  IInv'
  <1> DEFINE r == req[h]
             roles == IF r.skgen = 0 THEN byTenant ELSE rolesForKeySession(byTenant, r.tenant)
             q == Plain("session", r.root, r.user, t, roles, r.factor)
             c == [q EXCEPT !.skgen = r.skgen]
             p == [tenant |-> r.tenant, uid |-> r.user, jti |-> Len(token) + 1, ip |-> r.ip]
  <1>1. /\ r.pc = "minting" /\ Room /\ token' = Append(token, c)
        /\ presence' = IF stored /\ r.record THEN presence \cup {p} ELSE presence
        /\ req' = [req EXCEPT ![h] = Idle]
        /\ UNCHANGED <<revoked, redeemed, external>>
    BY DEF Mint, Sign, recordSession, add
  <1>2. /\ r \in Request /\ ChainOK(r) /\ r.tenant \in Tenant
        /\ r.root = "key" => r.tenant = KeyTenant
        /\ r.record => r.skgen = 0 /\ r.ip \in Ip
    BY <1>1, Shown DEF RequestOK
  <1>3. roles \in SUBSET Tenant /\ (r.root = "key" => roles \subseteq {KeyTenant})
    BY <1>2 DEF rolesForKeySession, ChainOK
  <1> HIDE DEF roles
  <1>4. /\ r.root \in Root /\ r.user \in Party /\ r.factor \in BOOLEAN
        /\ r.skgen \in 0 .. MaxChanges + 1
    BY <1>2 DEF Request
  <1>5. /\ q \in Claims
        /\ q.kind = "session" /\ q.root = r.root /\ q.roles = roles /\ q.factor = r.factor
        /\ q.mfa_pending = FALSE /\ q.sso = FALSE /\ q.typ = FALSE
    BY <1>3, <1>4, BoundAssumption DEF Plain, Claims
  <1> HIDE DEF q
  <1>6. /\ c \in Claims
        /\ c.kind = "session" /\ c.root = r.root /\ c.roles = roles /\ c.factor = r.factor
        /\ c.mfa_pending = FALSE /\ c.sso = FALSE /\ c.typ = FALSE /\ c.skgen = r.skgen
    BY <1>4, <1>5 DEF Claims
  <1> HIDE DEF c
  <1>7. TokenOK(c)
    <2>1. ChainOK(c)
      BY <1>2, <1>6 DEF ChainOK
    <2>2. Marks(c)
      BY <1>6 DEF Marks
    <2> QED
      BY <1>3, <1>6, <2>1, <2>2 DEF TokenOK
  <1>8. r.record => p \in Member /\ p.jti = Len(token) + 1 /\ c.root # "key"
    BY <1>1, <1>2, <1>4, <1>6, Appended DEF Member, ChainOK
  <1> HIDE DEF p
  <1> QED
    BY <1>1, <1>6, <1>7, <1>8, IdleOK, SignStep

-----------------------------------------------------------------------------
(* Presenting a token.                                                     *)

\* The locals identityFromClaims() fills in.
LEMMA IdentityFacts ==
  ASSUME IInv, NEW j \in DOMAIN token, NEW t \in Tenant, NEW ip \in Ip
  PROVE  LET c == token[j]
             r == identityFromClaims(j, t, ip)
         IN  /\ r \in Request
             /\ r.pc = "authed" /\ r.src = j /\ r.tenant = t /\ r.ip = ip /\ r.root = c.root
             /\ r.factor = c.factor /\ r.skgen = c.skgen
             /\ r.keyLive = (key.active /\ key.gen = c.skgen)
  <1> DEFINE c == token[j]
  <1>1. /\ c.sub \in Party /\ c.root \in Root /\ c.factor \in BOOLEAN
        /\ c.skgen \in 0 .. MaxChanges + 1
    BY Shown DEF Claims
  <1>2. j \in 0 .. MaxTokens /\ (key.active /\ key.gen = c.skgen) \in BOOLEAN
    BY Shown DEF Jti
  <1> QED
    BY <1>1, <1>2 DEF identityFromClaims, Request

\* authenticate() of a bearer: a token with a role in the tenant that is neither a
\* challenge nor a ticket is a session, and its key is live unless it has been
\* revoked or outgrown the session's generation.
LEMMA AuthenticateStep ==
  ASSUME IInv, NEW h \in Handler, NEW j \in DOMAIN token, NEW ip \in Ip, NEW t \in Tenant,
         Authenticate(h, j, ip, t)
  PROVE  IInv'
  <1> DEFINE c == token[j]
             r == identityFromClaims(j, t, ip)
  <1>1. /\ req' = [req EXCEPT ![h] = r] /\ ~c.mfa_pending /\ ~c.typ /\ t \in c.roles
        /\ UNCHANGED <<token, revoked, redeemed, presence, external>>
    BY DEF Authenticate, bearerType, tokenTenantMember
  <1>2. c \in Claims /\ TokenOK(c)
    BY Shown
  <1>3. /\ r \in Request
        /\ r.pc = "authed" /\ r.src = j /\ r.tenant = t /\ r.ip = ip /\ r.root = c.root
        /\ r.factor = c.factor /\ r.skgen = c.skgen
        /\ r.keyLive = (key.active /\ key.gen = c.skgen)
    BY IdentityFacts
  <1>4. c.kind \in {"session", "service"} /\ ChainOK(c) /\ (c.root = "key" => t = KeyTenant)
    <2>1. c.kind \in {"session", "service", "pending", "code", "ticket"}
      BY <1>2 DEF Claims
    <2>2. c.kind # "ticket" /\ c.kind # "pending" /\ c.kind # "code"
      BY <1>1, <1>2 DEF TokenOK, Marks
    <2> QED
      BY <1>1, <1>2, <2>1, <2>2 DEF TokenOK
  <1>5. c.skgen \in Nat /\ key.gen \in Nat
    BY <1>2, Shown DEF Claims
  <1> HIDE DEF r
  <1>6. ChainOK(r)
    BY <1>3, <1>4 DEF ChainOK
  <1>7. r.skgen # 0 => r.keyLive \/ ~key.active \/ r.skgen < key.gen
    <2>1. c.skgen = key.gen \/ c.skgen < key.gen
      BY <1>4, <1>5 DEF ChainOK
    <2>2. r.keyLive \/ ~key.active \/ c.skgen # key.gen
      BY <1>3, Zenon
    <2>3. c.skgen < key.gen => r.skgen < key.gen
      BY <1>3
    <2> QED
      BY <2>1, <2>2, <2>3, Zenon
  <1>8. RequestOK(r)
    BY <1>3, <1>4, <1>6, <1>7 DEF RequestOK
  <1> QED
    BY <1>1, <1>3, <1>8, Shown, LocalStep

\* authenticate() of Basic credentials, a request without a token.
LEMMA AuthenticateBasicStep ==
  ASSUME IInv, NEW h \in Handler, NEW u \in User, NEW ip \in Ip, NEW t \in Tenant,
         AuthenticateBasic(h, u, ip, t)
  PROVE  IInv'
  <1> DEFINE r == [Idle EXCEPT !.pc = "authed", !.user = u, !.tenant = t, !.ip = ip]
  <1>1. req' = [req EXCEPT ![h] = r]
        /\ UNCHANGED <<token, revoked, redeemed, presence, external>>
    BY DEF AuthenticateBasic
  <1>2. /\ r \in Request /\ r.pc = "authed" /\ r.src = 0 /\ r.tenant = t /\ r.ip = ip
        /\ r.root = "password" /\ r.factor = FALSE /\ r.skgen = 0
    <2>1. /\ Idle \in Request /\ Idle.src = 0 /\ Idle.root = "password"
          /\ Idle.factor = FALSE /\ Idle.skgen = 0
      BY IdleOK DEF Idle
    <2>2. u \in Party
      BY DEF Party
    <2> QED
      BY <2>1, <2>2 DEF Request
  <1> HIDE DEF r
  <1>3. RequestOK(r)
    BY <1>2, Shown DEF RequestOK, ChainOK
  <1> QED
    BY <1>1, <1>2, <1>3, Shown, LocalStep

\* The answer of a request.
LEMMA AnswerStep ==
  ASSUME IInv, NEW h \in Handler, Answer(h)
  PROVE  IInv'
  <1>1. req' = [req EXCEPT ![h] = Idle]
        /\ UNCHANGED <<token, revoked, redeemed, presence, external>>
    BY DEF Answer
  <1> QED
    BY <1>1, IdleOK, Shown, LocalStep

\* downloadTicket() and playbackTicket(): a ticket carries the one tenant of the
\* request, which is the key's for a key.
LEMMA MintTicketStep ==
  ASSUME IInv, NEW h \in Handler, MintTicket(h)
  PROVE  IInv'
  <1> DEFINE r == req[h]
             q == Plain("ticket", r.root, r.user, r.tenant, {r.tenant}, FALSE)
             c == [q EXCEPT !.typ = TRUE, !.sid = r.src]
  <1>1. /\ r.pc = "authed" /\ Room /\ token' = Append(token, c)
        /\ req' = [req EXCEPT ![h] = Idle]
        /\ UNCHANGED <<revoked, redeemed, presence, external>>
    BY DEF MintTicket, Sign
  <1>2. r \in Request /\ r.tenant \in Tenant /\ (r.root = "key" => r.tenant = KeyTenant)
    BY <1>1, Shown DEF RequestOK
  <1>3. r.root \in Root /\ r.user \in Party /\ r.src \in 0 .. MaxTokens
    BY <1>2 DEF Request
  <1>4. /\ q \in Claims /\ q.kind = "ticket" /\ q.root = r.root /\ q.roles = {r.tenant}
        /\ q.mfa_pending = FALSE /\ q.sso = FALSE
    BY <1>2, <1>3, BoundAssumption DEF Plain, Claims
  <1> HIDE DEF q
  <1>5. /\ c \in Claims /\ c.kind = "ticket" /\ c.root = r.root /\ c.roles = {r.tenant}
        /\ c.mfa_pending = FALSE /\ c.sso = FALSE /\ c.typ = TRUE
    BY <1>3, <1>4 DEF Claims
  <1> HIDE DEF c
  <1>6. TokenOK(c)
    BY <1>2, <1>5 DEF TokenOK, Marks
  <1> QED
    BY <1>1, <1>5, <1>6, IdleOK, SignStep

\* identityFromDownloadTicket(): only a ticket has a typ.
LEMMA UseTicketStep ==
  ASSUME IInv, NEW h \in Handler, NEW j \in DOMAIN token, NEW ip \in Ip, UseTicket(h, j, ip)
  PROVE  IInv'
  <1> DEFINE c == token[j]
             q == identityFromClaims(j, c.tenant, ip)
             r == [q EXCEPT !.pc = "serving"]
  <1>1. /\ req' = [req EXCEPT ![h] = r] /\ c.typ
        /\ UNCHANGED <<token, revoked, redeemed, presence, external>>
    BY DEF UseTicket
  <1>2. c \in Claims /\ TokenOK(c) /\ c.tenant \in Tenant
    BY Shown DEF Claims
  <1>3. q \in Request /\ q.src = j
    BY <1>2, IdentityFacts
  <1> HIDE DEF q
  <1>4. r \in Request /\ r.pc = "serving" /\ r.src = j
    BY <1>3 DEF Request
  <1>5. c.kind = "ticket"
    BY <1>1, <1>2 DEF TokenOK, Marks, Claims
  <1> HIDE DEF r
  <1>6. RequestOK(r)
    BY <1>4, <1>5 DEF RequestOK
  <1> QED
    BY <1>1, <1>4, <1>6, Shown, LocalStep
-----------------------------------------------------------------------------
(* Renewing, handing over, ending.                                         *)

\* ssoHandoff(): closed to key sessions, so no code begins with a key.
LEMMA SsoHandoffStep ==
  ASSUME IInv, NEW h \in Handler, SsoHandoff(h)
  PROVE  IInv'
  <1> DEFINE r == req[h]
             q == Plain("code", r.root, r.user, r.tenant, {}, r.factor)
             c == [q EXCEPT !.sso = TRUE]
  <1>1. /\ r.pc = "authed" /\ r.skgen = 0 /\ Room /\ token' = Append(token, c)
        /\ req' = [req EXCEPT ![h] = Idle]
        /\ UNCHANGED <<revoked, redeemed, presence, external>>
    BY DEF SsoHandoff, Sign, mayHandOff
  <1>2. r \in Request /\ r.tenant \in Tenant /\ ChainOK(r)
    BY <1>1, Shown DEF RequestOK
  <1>3. r.root \in Root /\ r.user \in Party /\ r.factor \in BOOLEAN
    BY <1>2 DEF Request
  <1>4. /\ q \in Claims /\ q.kind = "code" /\ q.root = r.root /\ q.roles = {}
        /\ q.factor = r.factor /\ q.mfa_pending = FALSE /\ q.typ = FALSE
    BY <1>2, <1>3, BoundAssumption DEF Plain, Claims
  <1> HIDE DEF q
  <1>5. /\ c \in Claims /\ c.kind = "code" /\ c.root = r.root /\ c.roles = {}
        /\ c.factor = r.factor /\ c.mfa_pending = FALSE /\ c.typ = FALSE /\ c.sso = TRUE
    BY <1>4 DEF Claims
  <1> HIDE DEF c
  <1>6. r.root # "key" /\ (r.factor <=> r.root # "password")
    BY <1>1, <1>2 DEF ChainOK
  <1>7. TokenOK(c)
    BY <1>5, <1>6 DEF TokenOK, Marks
  <1> QED
    BY <1>1, <1>5, <1>7, IdleOK, SignStep

\* ssoRedeem(): only a code is marked as one, and its methods carry over.
LEMMA SsoRedeemStep ==
  ASSUME IInv, NEW h \in Handler, NEW j \in DOMAIN token, NEW ip \in Ip,
         NEW audited \in BOOLEAN, SsoRedeem(h, j, ip, audited)
  PROVE  IInv'
  <1> DEFINE c == token[j]
             r == Minting(c.sub, c.tenant, c.root, redeemedFactor(c), 0, TRUE, ip, FALSE)
  <1>1. /\ req' = IF audited THEN [req EXCEPT ![h] = r] ELSE req
        /\ c.sso /\ redeemed' = redeemed \cup {j}
        /\ UNCHANGED <<token, revoked, presence, external>>
    BY DEF SsoRedeem
  <1>2. redeemed' \subseteq Jti /\ revoked' \subseteq Jti
    BY <1>1, Shown
  <1>3. c \in Claims /\ TokenOK(c)
    BY Shown
  <1>4. /\ c.sub \in Party /\ c.tenant \in Tenant /\ c.root \in Root /\ c.factor \in BOOLEAN
        /\ c.kind \in {"session", "service", "pending", "code", "ticket"}
    BY <1>3 DEF Claims
  <1>5. c.kind = "code"
    BY <1>1, <1>3, <1>4 DEF TokenOK, Marks
  <1>6. c.root # "key" /\ (c.factor <=> c.root # "password")
    BY <1>3, <1>5 DEF TokenOK
  <1>7. 0 \in 0 .. MaxChanges + 1 /\ 0 <= key.gen
    BY Shown
  <1>8. r \in Request /\ RequestOK(r)
    BY <1>4, <1>6, <1>7, MintingOK DEF redeemedFactor
  <1> HIDE DEF r
  <1>9. CASE audited
    BY <1>1, <1>2, <1>8, <1>9, LocalStep
  <1>10. CASE ~audited
    <2>1. req' = [req EXCEPT ![h] = req[h]] /\ req[h] \in Request /\ RequestOK(req[h])
      BY <1>1, <1>10, Shown
    <2> QED
      BY <1>1, <1>2, <2>1, LocalStep
  <1> QED
    BY <1>9, <1>10

\* refreshToken(): methods carry over.
LEMMA RefreshTokenStep ==
  ASSUME IInv, NEW h \in Handler, NEW t \in Tenant, RefreshToken(h, t)
  PROVE  IInv'
  <1> DEFINE q == req[h]
             r == Minting(q.user, t, q.root, q.factor, 0, TRUE, q.ip, FALSE)
  <1>1. /\ q.pc = "authed" /\ q.skgen = 0 /\ req' = [req EXCEPT ![h] = r]
        /\ UNCHANGED <<token, revoked, redeemed, presence, external>>
    BY DEF RefreshToken
  <1>2. q \in Request /\ ChainOK(q) /\ q.ip \in Ip
    BY <1>1, Shown DEF RequestOK
  <1>3. q.root \in Root /\ q.user \in Party /\ q.factor \in BOOLEAN
    BY <1>2 DEF Request
  <1>4. q.root # "key" /\ (q.factor <=> q.root # "password")
    BY <1>1, <1>2 DEF ChainOK
  <1>5. 0 \in 0 .. MaxChanges + 1 /\ 0 <= key.gen
    BY Shown
  <1>6. r \in Request /\ RequestOK(r)
    BY <1>2, <1>3, <1>4, <1>5, MintingOK
  <1> HIDE DEF r
  <1> QED
    BY <1>1, <1>6, Shown, LocalStep

\* refreshServiceKeyToken(): a key that is live and of the session's generation now
\* was so when the request arrived, because neither ever comes back.
LEMMA RefreshServiceKeyTokenStep ==
  ASSUME IInv, NEW h \in Handler, RefreshServiceKeyToken(h)
  PROVE  IInv'
  <1> DEFINE q == req[h]
             r == Minting(q.user, q.tenant, q.root, TRUE, q.skgen, FALSE, "none", q.keyLive)
  <1>1. /\ q.pc = "authed" /\ q.skgen # 0 /\ req' = [req EXCEPT ![h] = r]
        /\ key.active /\ q.skgen = key.gen /\ q.tenant = KeyTenant
        /\ UNCHANGED <<token, revoked, redeemed, presence, external>>
    BY DEF RefreshServiceKeyToken, mayRefresh, serviceCredCall
  <1>2. /\ q \in Request /\ ChainOK(q) /\ q.tenant \in Tenant
        /\ q.keyLive \/ ~key.active \/ q.skgen < key.gen
    BY <1>1, Shown DEF RequestOK
  <1>3. /\ q.root \in Root /\ q.user \in Party /\ q.keyLive \in BOOLEAN
        /\ q.skgen \in 0 .. MaxChanges + 1
    BY <1>2 DEF Request
  <1>4. q.keyLive /\ q.skgen <= key.gen
    BY <1>1, <1>2, <1>3, Shown
  <1>5. q.root = "key"
    BY <1>1, <1>2 DEF ChainOK
  <1>6. r \in Request /\ RequestOK(r)
    BY <1>1, <1>2, <1>3, <1>4, <1>5, MintingOK
  <1> HIDE DEF r
  <1> QED
    BY <1>1, <1>6, Shown, LocalStep

\* revokeToken(): a jti more, a presence entry less.
LEMMA RevokeTokenStep ==
  ASSUME IInv, NEW h \in Handler, NEW j \in DOMAIN token, NEW ip \in Ip,
         NEW stored \in BOOLEAN, NEW dropped \in BOOLEAN,
         RevokeToken(h, j, ip, stored, dropped)
  PROVE  IInv'
  <1>1. /\ revoked' \subseteq revoked \cup {j} /\ presence' \subseteq presence
        /\ UNCHANGED <<token, redeemed, external, req>>
    BY DEF RevokeToken, dropSession, remove
  <1>2. revoked' \subseteq Jti /\ redeemed' \subseteq Jti
    BY <1>1, Shown
  <1>3. req' = [req EXCEPT ![h] = req[h]] /\ req[h] \in Request /\ RequestOK(req[h])
    BY <1>1, Shown
  <1> QED
    BY <1>1, <1>2, <1>3, LocalStep

-----------------------------------------------------------------------------
(* The specification.                                                      *)

\* No token, no request.
LEMMA InitIInv == Init => IInv
  <1> SUFFICES ASSUME Init PROVE IInv
    OBVIOUS
  <1>1. /\ token = <<>> /\ presence = {} /\ key = [active |-> TRUE, gen |-> 1]
        /\ req = [h \in Handler |-> Idle]
    BY DEF Init
  <1>2. token \in Seq(Claims) /\ Len(token) = 0 /\ DOMAIN token = {}
    BY <1>1
  <1>3. members \in [Party -> SUBSET Tenant]
    BY PartyAssumption DEF Init
  <1>4. TypeOK
    BY <1>1, <1>2, <1>3, IdleOK, BoundAssumption DEF Init, TypeOK
  <1>5. \A h \in Handler : RequestOK(req[h])
    BY <1>1, IdleOK
  <1> QED
    BY <1>1, <1>2, <1>4, <1>5 DEF IInv, PresenceOK

\* One step per handler and per change of the world.
LEMMA NextIInv == IInv /\ [Next]_vars => IInv'
  <1> SUFFICES ASSUME IInv, [Next]_vars PROVE IInv'
    OBVIOUS
  <1>1. ASSUME NEW h \in Handler, SignIn(h) PROVE IInv'
    BY <1>1, IssueTokenStep, VerifyMfaStep, VouchedStep, ExchangeServiceStep,
       IssueServiceKeyTokenStep, MintStep DEF SignIn
  <1>2. ASSUME NEW h \in Handler, Present(h) PROVE IInv'
    BY <1>2, AuthenticateStep, AuthenticateBasicStep, AnswerStep, MintTicketStep,
       UseTicketStep DEF Present
  <1>3. ASSUME NEW h \in Handler, Renew(h) PROVE IInv'
    BY <1>3, SsoHandoffStep, SsoRedeemStep, RefreshTokenStep, RefreshServiceKeyTokenStep,
       RevokeTokenStep DEF Renew
  <1>4. CASE Environment
    BY <1>4, ChangeKeyStep, ChangeWorldStep DEF Environment
  <1>5. CASE UNCHANGED vars
    BY <1>5, ChangeWorldStep
  <1> QED
    BY <1>1, <1>2, <1>3, <1>4, <1>5 DEF Next

(* Whatever the handlers mint, present, renew and hand over, the claims of   *)
(* every token tell its kind and its chain of custody, and the locals of     *)
(* every handler agree with the token they were read from.                   *)
THEOREM Inductive == Spec => []IInv
  BY InitIInv, NextIInv, PTL DEF Spec

(* The state of src/src/http_server.cpp's credential handlers keeps its type. *)
THEOREM TypeCorrect == Spec => []TypeOK
  <1>1. IInv => TypeOK
    BY DEF IInv
  <1> QED
    BY <1>1, Inductive, PTL

(* authenticate() and the ticket route: with one secret for all five kinds of *)
(* token, only a session passes for a bearer and only a ticket for a ticket.  *)
THEOREM OwnDoor == Spec => []EachKindAtItsOwnDoor
  <1>1. IInv => EachKindAtItsOwnDoor
    BY DEF IInv, RequestOK, EachKindAtItsOwnDoor
  <1> QED
    BY <1>1, Inductive, PTL

(* mintJwt(): no token whose chain began with a generated key carries a role  *)
(* outside the key's tenant, and none leaves a presence entry.                *)
THEOREM Confined == Spec => []KeyConfined
  <1>1. IInv => KeyConfined
    BY DEF IInv, TokenOK, PresenceOK, KeyConfined
  <1> QED
    BY <1>1, Inductive, PTL

(* mintJwt() and ssoRedeem(): a session satisfies a second factor exactly if  *)
(* the sign-in at the start of its chain had one.                             *)
THEOREM FactorKept == Spec => []FactorFollowsSignIn
  <1>1. IInv => FactorFollowsSignIn
    BY DEF IInv, TokenOK, ChainOK, FactorFollowsSignIn
  <1> QED
    BY <1>1, Inductive, PTL

(* refreshServiceKeyToken(): a key rotated or revoked before a renewal        *)
(* arrived is not renewed, however the change races the other requests.       *)
THEOREM RotationEnds == Spec => []RotatedKeyNotRenewed
  <1>1. IInv => RotatedKeyNotRenewed
    BY DEF IInv, RequestOK, RotatedKeyNotRenewed
  <1> QED
    BY <1>1, Inductive, PTL
===============================================================================
