------------------------------ MODULE OauthLogin ------------------------------
(***************************************************************************)
(* Federated login of the HTTP bridge: oauthStart() and oauthCallback() of *)
(* src/src/http_server.cpp, the one-shot OAuthStateStore                   *)
(* (src/include/oauth_state_store.h), OAuthProvider with its JWKS cache    *)
(* (src/src/oauth_provider.cpp) and the verification of id_tokens          *)
(* (src/src/oidc_verify.cpp).                                              *)
(*                                                                         *)
(* A flow is one visit to the authorize route: its state key, its nonce    *)
(* and its PKCE verifier are fresh random values and are one model value   *)
(* here.  The browser may deliver a callback late, twice, or with the code *)
(* of another flow it has open.  Identity providers are external: they     *)
(* issue codes, exchange each once, sign id_tokens with one of the keys    *)
(* they publish, and rotate those keys.  Asked for the keys they answer    *)
(* with them, or, from a proxy or while they fail, with a document that    *)
(* has none or with something that is no document at all.                  *)
(*                                                                         *)
(* jwks_cache_ is a std::map that handlers read and write without a lock.  *)
(* What a build makes of two handlers in it at once is the old entry, the  *)
(* new one, or the end of the process: Restart.                            *)
(***************************************************************************)
EXTENDS Integers

CONSTANTS
  Handler,       \* callbacks in flight
  Flow,          \* visits to the authorize route
  NoFlow,        \* no code in the callback
  Provider,      \* names in OAUTH_PROVIDERS
  Env,           \* Env[p]: what OAUTH_<P>_* sets
  WellKnown,     \* WellKnown[p]: the built-in defaults for p
  Document,      \* Document[p]: what OIDC discovery would fill in
  TokenIss,      \* TokenIss[p]: the iss p puts into its id_tokens
  Pkce,          \* the providers that check the code verifier
  Key,           \* signing keys of the providers
  Kid,           \* Kid[k]: the key id of k, NoKid if it has none
  NoKid,
  Ttl,           \* lifetime of a state
  MaxRotations,  \* bound on rotations of keys
  MaxTime        \* bound on the clock

None == "none"

ASSUME TtlAssumption == Ttl \in Nat \ {0}
ASSUME FlowAssumption == NoFlow \notin Flow
ASSUME PkceAssumption == Pkce \subseteq Provider
ASSUME TimeAssumption == MaxTime \in Nat
ASSUME NoneAssumption == None \notin Provider /\ None \notin Key
\* Two keys of a key set do not carry the same key id.
ASSUME KidAssumption ==
  /\ Key \subseteq DOMAIN Kid
  /\ \A k, l \in Key : Kid[k] = Kid[l] /\ k # l => Kid[k] = NoKid

VARIABLES
  clock,
  config,     \* providers_: config[p], or NoConfig if p was skipped
  states,     \* states_: states[f] is the pending request of f, or NoState
  jwks,       \* jwks_cache_: jwks[p] is the cached document, NoDocument if none
  req,        \* req[h]: the locals of the callback h handles
  keys,       \* keys[p]: the keys p publishes (external)
  codes,      \* codes[f]: the code p issued for f (external)
  rotations,  \* rotations of keys so far
  started,    \* history: when f was started, Never if it was not
  signed,     \* history: the sign-ins that came of the state of f, capped at 2
  gone        \* history: <<p, k>> if p has withdrawn k

vars == <<clock, config, states, jwks, req, keys, codes, rotations, started, signed, gone>>
external == <<keys, codes, rotations, gone>>

-----------------------------------------------------------------------------
(* OAuthProvider::fromEnv().  A URL is set or it is not; an issuer has a   *)
(* value.                                                                  *)

NoConfig == [kind |-> None, secret |-> FALSE, verify |-> FALSE, issuer |-> None]

\* Explicit settings win over the table.
filled(e, w) ==
  [e EXCEPT !.auth = @ \/ w.auth, !.token = @ \/ w.token, !.jwks = @ \/ w.jwks,
            !.issuer = IF @ = None THEN w.issuer ELSE @]

\* Discovery needs an issuer; what it finds fills what is still unset, and its
\* issuer replaces the configured one.
discoverEndpoints(e, d, reachable) ==
  IF e.kind = "oidc" /\ e.issuer # None /\ reachable
  THEN [e EXCEPT !.auth = @ \/ d.auth, !.token = @ \/ d.token, !.jwks = @ \/ d.jwks,
                 !.issuer = IF d.issuer = None THEN @ ELSE d.issuer]
  ELSE e

fromEnv(p, reachable) ==
  LET e == discoverEndpoints(filled(Env[p], WellKnown[p]), Document[p], reachable)
  IN  IF ~e.id \/ ~e.auth \/ ~e.token
      THEN NoConfig
      ELSE [kind |-> e.kind, secret |-> e.secret, issuer |-> e.issuer,
            verify |-> e.kind = "oidc" /\ e.verify /\ e.jwks]

\* What the login screen offers; a configured provider has the rest.
usableNames == {p \in Provider : config[p] # NoConfig /\ config[p].secret}

-----------------------------------------------------------------------------
Never == -1

\* What a 2xx answer of the jwks_uri can be: a document with the keys K (none if
\* it names none that is usable), or Junk, an empty body or one that is not JSON.
\* Any of them is cached.
Keys(K) == [is |-> "keys", keys |-> K]
Junk == [is |-> "junk", keys |-> {}]
NoDocument == [is |-> "none", keys |-> {}]

Documents == [is : {"keys", "junk", "none"}, keys : SUBSET Key]

NoState == [provider |-> None, expiry |-> 0]

Idle == [pc |-> "idle", flow |-> NoFlow, code |-> NoFlow, provider |-> None, at |-> 0,
         key |-> None, attempt |-> 0, body |-> NoDocument, why |-> None]

Reason == {None, "state", "provider", "denied", "exchange", "no id_token", "jwks",
           "document", "no key", "signature", "issuer", "nonce", "identity"}

TypeOK ==
  /\ clock \in 0 .. MaxTime
  /\ \A p \in Provider : config[p].verify \in BOOLEAN
  /\ states \in [Flow -> [provider : Provider \cup {None}, expiry : Nat]]
  /\ jwks \in [Provider -> Documents]
  /\ req \in [Handler ->
       [pc : {"idle", "exchange", "verify", "identity", "signedIn", "refused"},
        flow : Flow \cup {NoFlow}, code : Flow \cup {NoFlow}, provider : Provider \cup {None},
        at : Nat, key : Key \cup {None}, attempt : {0, 1}, body : Documents,
        why : Reason]]
  /\ keys \in [Provider -> SUBSET Key]
  /\ codes \in [Flow -> [provider : Provider \cup {None}, spent : BOOLEAN]]
  /\ started \in [Flow -> Nat \cup {Never}]
  /\ signed \in [Flow -> 0 .. 2]
  /\ gone \subseteq Provider \X Key

Init ==
  /\ clock = 0
  /\ \E reachable \in SUBSET Provider :
       config = [p \in Provider |-> fromEnv(p, p \in reachable)]
  /\ states = [f \in Flow |-> NoState]
  /\ jwks = [p \in Provider |-> NoDocument]
  /\ req = [h \in Handler |-> Idle]
  /\ \E k \in Key :
       keys = [p \in Provider |-> IF Env[p].kind = "oidc" THEN {k} ELSE {}]
  /\ codes = [f \in Flow |-> [provider |-> None, spent |-> FALSE]]
  /\ rotations = 0
  /\ started = [f \in Flow |-> Never]
  /\ signed = [f \in Flow |-> 0]
  /\ gone = {}

-----------------------------------------------------------------------------
(* oauthStart() and the state store.                                       *)

\* Mutant: only states past their lifetime by a second are dropped.
sweepLate(s) == [f \in Flow |-> IF clock > s[f].expiry THEN NoState ELSE s[f]]

sweepLocked(s) == [f \in Flow |-> IF clock >= s[f].expiry THEN NoState ELSE s[f]]

\* Mutant: the lifetime is subtracted.
createBackdated(s, f, p) ==
  [sweepLocked(s) EXCEPT ![f] = [provider |-> p, expiry |-> clock - Ttl]]

create(s, f, p) ==
  [sweepLocked(s) EXCEPT ![f] = [provider |-> p, expiry |-> clock + Ttl]]

\* A provider that is not configured is answered 404.
OauthStart(f, p) ==
  /\ started[f] = Never
  /\ config[p] # NoConfig
  /\ started' = [started EXCEPT ![f] = clock]
  /\ states' = create(states, f, p)
  /\ UNCHANGED <<clock, config, jwks, req, external, signed>>

\* The user authorises the flow at the provider.
Consent(f) ==
  /\ states[f] # NoState
  /\ codes[f].provider = None
  /\ codes' = [codes EXCEPT ![f].provider = states[f].provider]
  /\ UNCHANGED <<clock, config, states, jwks, req, keys, rotations, started, signed, gone>>

\* Mutant: expiry is left to the sweep.
freshAlways(f) == states[f] # NoState

fresh(f) == states[f] # NoState /\ clock < states[f].expiry

\* Mutant: the state is dropped only when the flow succeeds.
consumeKept(f) == states

\* The entry goes in all cases.
consume(f) == [states EXCEPT ![f] = NoState]

-----------------------------------------------------------------------------
(* oauthCallback().                                                        *)

Refused(r, why) ==
  [Idle EXCEPT !.pc = "refused", !.provider = r.provider, !.key = r.key, !.why = why]

\* The callback arrives on the route of p with the state of f and the code of
\* c; the state is consumed before anything else is looked at.
OauthCallback(h, f, c, p) ==
  LET r == [Idle EXCEPT !.flow = f, !.code = c, !.provider = p, !.at = clock]
  IN  /\ req[h].pc = "idle"
      /\ started[f] # Never
      /\ states' = consume(f)
      /\ req' = [req EXCEPT ![h] =
                   CASE ~fresh(f)                  -> Refused(r, "state")
                     [] states[f].provider # p     -> Refused(r, "provider")
                     [] c = NoFlow                 -> Refused(r, "denied")
                     [] OTHER                      -> [r EXCEPT !.pc = "exchange"]]
      /\ UNCHANGED <<clock, config, jwks, external, started, signed>>

\* The provider takes a code once, for the client it was issued to, and with
\* the verifier it was issued for if it checks verifiers.
Exchangeable(r) ==
  /\ r.code # NoFlow
  /\ codes[r.code].provider = r.provider
  /\ ~codes[r.code].spent
  /\ r.provider \in Pkce => r.code = r.flow

\* The exchange succeeds: an id_token comes with it if the provider is OIDC.
ExchangeCode(h) ==
  LET r == req[h]
  IN  /\ r.pc = "exchange"
      /\ Exchangeable(r)
      /\ codes' = [codes EXCEPT ![r.code].spent = TRUE]
      /\ \E k \in (IF config[r.provider].verify THEN keys[r.provider] ELSE {None}) :
           req' = [req EXCEPT ![h].pc = IF k = None THEN "identity" ELSE "verify",
                              ![h].key = k]
      /\ UNCHANGED <<clock, config, states, jwks, keys, rotations, started, signed, gone>>

\* The provider refuses, cannot be reached, or answers without the token that
\* is needed; the code may be spent all the same.
ExchangeFails(h, spent) ==
  LET r == req[h]
      why == IF spent THEN "no id_token" ELSE "exchange"
  IN  /\ r.pc = "exchange"
      /\ spent => Exchangeable(r)
      /\ codes' = IF spent THEN [codes EXCEPT ![r.code].spent = TRUE] ELSE codes
      /\ req' = [req EXCEPT ![h] = Refused(r, why)]
      /\ UNCHANGED <<clock, config, states, jwks, keys, rotations, started, signed, gone>>

-----------------------------------------------------------------------------
(* OAuthProvider::verifyIdToken() over oidc_verify.cpp.                    *)

\* The key of the set that the header's kid selects: an exact match, or any
\* key if one side names none.
selected(K, k) ==
  LET exact == {x \in K : Kid[k] # NoKid /\ Kid[x] = Kid[k]}
  IN  IF exact # {} THEN exact ELSE {x \in K : NoKid \in {Kid[x], Kid[k]}}

\* Mutant: the nonce is not compared.
claimsCheckNoNonce(r) ==
  IF TokenIss[r.provider] # config[r.provider].issuer THEN "issuer" ELSE None

\* The claims of a token whose signature is good; its nonce is that of the
\* flow its code was issued for.
claimsCheck(r) ==
  CASE TokenIss[r.provider] # config[r.provider].issuer -> "issuer"
    [] r.code # r.flow                                  -> "nonce"
    [] OTHER                                            -> None

\* The verdicts on the token of r under the document d.
verifyIdToken(r, d) ==
  LET S == selected(d.keys, r.key)
  IN  CASE d = Junk             -> {"document"}
        [] d # Junk /\ S = {}   -> {"no key"}
        [] d # Junk /\ S # {}   -> {IF x = r.key THEN claimsCheck(r) ELSE "signature" : x \in S}

Accepted(r) == [r EXCEPT !.pc = "identity", !.key = None, !.attempt = 0, !.body = NoDocument]

\* A refusal that the document d led to.
RefusedBy(r, why, d) == [Refused(r, why) EXCEPT !.body = d]

\* Mutant: the cached keys have the last word.
afterVerdictFinal(r, why, d) == IF why = None THEN Accepted(r) ELSE RefusedBy(r, why, d)

\* Only a missing key is worth a second attempt, with a document fetched anew.
afterVerdict(r, why, d) ==
  CASE why = None                       -> Accepted(r)
    [] why = "no key" /\ r.attempt = 0  -> [r EXCEPT !.attempt = 1, !.body = NoDocument]
    [] OTHER                            -> RefusedBy(r, why, d)

\* fetchJwks() answers from the cache unless it is forced or has nothing.
mustFetch(r) == r.attempt = 1 \/ jwks[r.provider] = NoDocument

VerifyCached(h) ==
  LET r == req[h]
      d == jwks[r.provider]
  IN  /\ r.pc = "verify" /\ r.body = NoDocument
      /\ ~mustFetch(r)
      /\ \E why \in verifyIdToken(r, d) :
           req' = [req EXCEPT ![h] = afterVerdict(r, why, d)]
      /\ UNCHANGED <<clock, config, states, jwks, external, started, signed>>

\* A 2xx answer, whatever is in it.
FetchJwks(h) ==
  LET r == req[h]
  IN  /\ r.pc = "verify" /\ r.body = NoDocument
      /\ mustFetch(r)
      /\ \E d \in {Keys(keys[r.provider]), Keys({}), Junk} :
           req' = [req EXCEPT ![h].body = d]
      /\ UNCHANGED <<clock, config, states, jwks, external, started, signed>>

\* It is cached unread, and may be older than what another handler has cached by
\* now.
VerifyFetched(h) ==
  LET r == req[h]
  IN  /\ r.pc = "verify" /\ r.body # NoDocument
      /\ jwks' = [jwks EXCEPT ![r.provider] = r.body]
      /\ \E why \in verifyIdToken(r, r.body) :
           req' = [req EXCEPT ![h] = afterVerdict(r, why, r.body)]
      /\ UNCHANGED <<clock, config, states, external, started, signed>>

FetchJwksFails(h) ==
  LET r == req[h]
  IN  /\ r.pc = "verify" /\ r.body = NoDocument
      /\ mustFetch(r)
      /\ req' = [req EXCEPT ![h] = Refused(r, "jwks")]
      /\ UNCHANGED <<clock, config, states, jwks, external, started, signed>>

-----------------------------------------------------------------------------
(* The identity behind the login.                                          *)

\* A verified e-mail, from the id_token or from userinfo, that the directory
\* knows, and an audit log that took the record: a session is minted.
SignIn(h) ==
  LET f == req[h].flow
  IN  /\ req[h].pc = "identity"
      /\ req' = [req EXCEPT ![h].pc = "signedIn"]
      /\ signed' = [signed EXCEPT ![f] = IF @ < 2 THEN @ + 1 ELSE 2]
      /\ UNCHANGED <<clock, config, states, jwks, external, started>>

\* No e-mail, an unverified one, nobody in the directory, or no audit log.
IdentityRefused(h) ==
  /\ req[h].pc = "identity"
  /\ req' = [req EXCEPT ![h] = Refused(@, "identity")]
  /\ UNCHANGED <<clock, config, states, jwks, external, started, signed>>

Respond(h) ==
  /\ req[h].pc \in {"signedIn", "refused"}
  /\ req' = [req EXCEPT ![h] = Idle]
  /\ UNCHANGED <<clock, config, states, jwks, external, started, signed>>

-----------------------------------------------------------------------------
\* A provider publishes another set of keys.
Rotate(p, K) ==
  /\ rotations < MaxRotations
  /\ Env[p].kind = "oidc"
  /\ K # keys[p]
  /\ rotations' = rotations + 1
  /\ gone' = gone \cup ({p} \X (keys[p] \ K))
  /\ keys' = [keys EXCEPT ![p] = K]
  /\ UNCHANGED <<clock, config, states, jwks, req, codes, started, signed>>

\* The process ends and comes back: pending flows, keys and callbacks are gone,
\* and discovery is tried again.
Restart ==
  /\ \E reachable \in SUBSET Provider :
       config' = [p \in Provider |-> fromEnv(p, p \in reachable)]
  /\ states' = [f \in Flow |-> NoState]
  /\ jwks' = [p \in Provider |-> NoDocument]
  /\ req' = [h \in Handler |-> Idle]
  /\ UNCHANGED <<clock, external, started, signed>>

Tick ==
  /\ clock < MaxTime
  /\ clock' = clock + 1
  /\ UNCHANGED <<config, states, jwks, req, external, started, signed>>

Next ==
  \/ \E f \in Flow, p \in Provider : OauthStart(f, p)
  \/ \E f \in Flow : Consent(f)
  \/ \E h \in Handler, f \in Flow, c \in Flow \cup {NoFlow}, p \in Provider :
       OauthCallback(h, f, c, p)
  \/ \E h \in Handler : ExchangeCode(h)
  \/ \E h \in Handler, spent \in BOOLEAN : ExchangeFails(h, spent)
  \/ \E h \in Handler : VerifyCached(h)
  \/ \E h \in Handler : FetchJwks(h)
  \/ \E h \in Handler : VerifyFetched(h)
  \/ \E h \in Handler : FetchJwksFails(h)
  \/ \E h \in Handler : SignIn(h)
  \/ \E h \in Handler : IdentityRefused(h)
  \/ \E h \in Handler : Respond(h)
  \/ \E p \in Provider, K \in (SUBSET Key) \ {{}} : Rotate(p, K)
  \/ Restart
  \/ Tick

Spec == Init /\ [][Next]_vars

-----------------------------------------------------------------------------
(* What a federated login promises.                                        *)

(* "State is the CSRF + replay + binding token; consume it exactly once":    *)
(* one visit to the authorize route leads to at most one session, although   *)
(* its callback may arrive twice, at two handlers at once, after a failure   *)
(* of the exchange, or across a restart.                                     *)
OneSignInPerFlow == \A f \in Flow : signed[f] <= 1

(* A callback that the exchange is made for arrived within the lifetime of   *)
(* its state, whether or not anything swept the store in the meantime.       *)
SignInIsTimely ==
  \A h \in Handler :
    req[h].pc \in {"exchange", "verify", "identity", "signedIn"} =>
      req[h].at < started[req[h].flow] + Ttl

(* "Bind the id_token to this login": when the provider checks PKCE or the   *)
(* bridge verifies id_tokens, a session is only minted for the user who      *)
(* authorised the very flow whose state came back, though two logins of one  *)
(* browser may get their codes mixed up.                                     *)
LoginBoundToFlow ==
  \A h \in Handler :
    LET r == req[h] IN
    r.pc = "signedIn" /\ (r.provider \in Pkce \/ config[r.provider].verify)
      => r.code = r.flow

(* "On a key-id miss (rotation), refetch once": a provider may rotate its    *)
(* keys between any two steps of any login.  A login is refused for a        *)
(* missing key only if the key its token is signed with has really been      *)
(* withdrawn, or if the document fetched anew names no key at all.  It is    *)
(* refused for a bad signature only if the token names no key, or if the     *)
(* document that decided lacks its key and holds one without an id, which    *)
(* selects for every token.  That document may have been cached long ago:    *)
(* such a refusal, like one for a cached document that is no JSON, is final  *)
(* and never fetches again.                                                  *)
RefusedKeyIsGone ==
  \A h \in Handler :
    LET r == req[h] IN
    /\ r.why = "no key" => <<r.provider, r.key>> \in gone \/ r.body = Keys({})
    /\ r.why = "signature" =>
         \/ Kid[r.key] = NoKid
         \/ r.key \notin r.body.keys /\ \E x \in r.body.keys : Kid[x] = NoKid

(* "Drop expired entries so abandoned flows don't accumulate": after a new   *)
(* flow has started, the store holds no flow that is past its lifetime.      *)
AbandonedFlowsSwept ==
  [][started' # started =>
       \A f \in Flow : states'[f] # NoState => clock < started[f] + Ttl \/ started[f] = Never]_vars

(* usableNames(): "a provider is offered only if a sign-in could actually    *)
(* succeed".  A genuine id_token of a provider that the login screen offers  *)
(* is not refused for the issuer the provider puts into all of them.         *)
OfferedIssuerAccepted ==
  \A h \in Handler : req[h].why = "issuer" => req[h].provider \notin usableNames
===============================================================================
