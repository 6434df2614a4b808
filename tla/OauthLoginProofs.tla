-------------------------- MODULE OauthLoginProofs --------------------------
(***************************************************************************)
(* Proofs about OauthLogin, for any number of handlers, flows, providers   *)
(* and keys, any configuration of the providers, any lifetime of a state   *)
(* and any number of rotations.                                            *)
(*                                                                         *)
(* A state is a token that exists once: it is in the store, or one handler *)
(* holds it, or it has become a session.  FlowsOK says so; RecordOK says   *)
(* what the locals of one handler know about the flow it holds, about the  *)
(* code it exchanged and about the key its id_token was signed with.       *)
(***************************************************************************)
EXTENDS OauthLogin, TLAPS

Request ==
  [pc : {"idle", "exchange", "verify", "identity", "signedIn", "refused"},
   flow : Flow \cup {NoFlow}, code : Flow \cup {NoFlow}, provider : Provider \cup {None},
   at : Nat, key : Key \cup {None}, attempt : {0, 1}, body : Documents, why : Reason]

\* The steps of a callback in which it may still turn its flow into a session.
Live == {"exchange", "verify", "identity"}

\* p checks the verifier, or its id_tokens are verified.
Bound(p) == p \in Pkce \/ config[p].verify

Known(p, k, K) == k \in K \/ <<p, k>> \in gone

\* What a document that p answered with knows of the key k it published before.
Answered(p, k, d) == Known(p, k, d.keys) \/ d \in {Keys({}), Junk}

\* How the document d can make the signature of a token signed with k look bad.
Misleads(d, k) ==
  Kid[k] = NoKid \/ (k \notin d.keys /\ \E x \in d.keys : Kid[x] = NoKid)

RecordOK(r) ==
  /\ r.pc # "refused" => r.why = None
  /\ r.pc \notin {"verify", "refused"} => r.body = NoDocument
  /\ r.pc \in Live \cup {"signedIn"} =>
       /\ r.flow \in Flow /\ r.provider \in Provider
       /\ started[r.flow] # Never
       /\ r.at < started[r.flow] + Ttl
  /\ r.pc = "verify" =>
       /\ r.key \in Key
       /\ Known(r.provider, r.key, keys[r.provider])
       /\ r.body # NoDocument => Answered(r.provider, r.key, r.body)
       /\ r.provider \in Pkce => r.code = r.flow
  /\ r.pc \in {"identity", "signedIn"} /\ Bound(r.provider) => r.code = r.flow
  /\ r.why = "no key" => <<r.provider, r.key>> \in gone \/ r.body = Keys({})
  /\ r.why = "signature" => Misleads(r.body, r.key)

Holds(h, f) == req[h].pc \in Live /\ req[h].flow = f

FlowsOK ==
  \A f \in Flow :
    /\ signed[f] <= 1
    /\ started[f] = Never => states[f] = NoState /\ signed[f] = 0
    /\ states[f] # NoState =>
         /\ states[f].expiry = started[f] + Ttl
         /\ signed[f] = 0
         /\ \A h \in Handler : ~Holds(h, f)
    /\ \A h \in Handler : Holds(h, f) => signed[f] = 0
    /\ \A h, g \in Handler : Holds(h, f) /\ Holds(g, f) => h = g

IInv ==
  /\ TypeOK
  /\ \A h \in Handler : RecordOK(req[h])
  /\ FlowsOK

-----------------------------------------------------------------------------
(* One handler.                                                            *)

\* The documents.
LEMMA NoDocumentOK == NoDocument \in Documents
  BY DEF NoDocument, Documents

\* A callback that does nothing yet.
LEMMA IdleOK == Idle \in Request /\ RecordOK(Idle) /\ Idle.pc \notin Live
  BY NoDocumentOK DEF Idle, Request, RecordOK, Live, Reason, None

\* An answer that refuses the login carries nothing of the flow any more, for
\* every reason that the keys have no part in.
LEMMA RefusedOK ==
  ASSUME NEW r \in Request, NEW why \in Reason, why \notin {"no key", "signature"}
  PROVE  /\ Refused(r, why) \in Request
         /\ RecordOK(Refused(r, why))
         /\ Refused(r, why).pc = "refused"
  <1>1. /\ Refused(r, why) \in Request
        /\ Refused(r, why).pc = "refused" /\ Refused(r, why).why = why
    BY NoDocumentOK DEF Refused, Idle, Request
  <1> QED
    BY <1>1 DEF RecordOK, Live

\* The key that signed a token is found in every key set that contains it:
\* with a key id by its id, and without one because any key will do.
LEMMA SelectedHasKey ==
  ASSUME NEW K \in SUBSET Key, NEW k \in K
  PROVE  selected(K, k) # {}
  <1>1. CASE Kid[k] = NoKid
    BY <1>1 DEF selected
  <1>2. CASE Kid[k] # NoKid
    BY <1>2 DEF selected
  <1> QED
    BY <1>1, <1>2

\* A key that is selected for a token but did not sign it has no key id and the
\* signing key is not there to match, or the token has no key id.
LEMMA SelectedOther ==
  ASSUME NEW d \in Documents, NEW k \in Key, NEW x \in selected(d.keys, k), x # k
  PROVE  Misleads(d, k)
  <1>1. d.keys \subseteq Key
    BY DEF Documents
  <1>2. {y \in d.keys : Kid[k] # NoKid /\ Kid[y] = Kid[k]} \in {{}, {k}}
    BY <1>1, KidAssumption
  <1> QED
    BY <1>1, <1>2, KidAssumption DEF selected, Misleads

\* The locals once a document has decided.
LEMMA RefusedByOK ==
  ASSUME NEW r \in Request, NEW why \in Reason, NEW d \in Documents
  PROVE  /\ RefusedBy(r, why, d) \in Request
         /\ RefusedBy(r, why, d).pc = "refused"
         /\ RefusedBy(r, why, d).body = d
         /\ RefusedBy(r, why, d).why = why
         /\ RefusedBy(r, why, d).provider = r.provider
         /\ RefusedBy(r, why, d).key = r.key
  <1> DEFINE f == Refused(r, why)
             q == [f EXCEPT !.body = d]
  <1>1. /\ f \in Request /\ f.pc = "refused" /\ f.why = why
        /\ f.provider = r.provider /\ f.key = r.key
    BY NoDocumentOK DEF Refused, Idle, Request
  <1>2. RefusedBy(r, why, d) = q
    BY DEF RefusedBy
  <1> HIDE DEF f
  <1>3. /\ q \in Request /\ q.pc = "refused" /\ q.body = d /\ q.why = why
        /\ q.provider = r.provider /\ q.key = r.key
    BY <1>1 DEF Request
  <1> QED
    BY <1>2, <1>3

\* What OAuthProvider::verifyIdToken() makes of a token under the document d: an
\* accepted login is bound to its flow, and a login is refused for a missing key
\* only if d was fetched for this attempt and the key is withdrawn or d has none.
LEMMA VerdictOK ==
  ASSUME NEW r \in Request, RecordOK(r), r.pc = "verify",
         NEW d \in Documents, NEW why \in verifyIdToken(r, d),
         r.attempt = 1 => Answered(r.provider, r.key, d)
  PROVE  LET q == afterVerdict(r, why, d) IN
         /\ q \in Request /\ RecordOK(q)
         /\ q.pc \in Live => q.flow = r.flow
  <1>1. r.key \in Key /\ r.flow \in Flow /\ r.provider \in Provider
    BY DEF RecordOK, Live
  <1>2. /\ why \in Reason
        /\ why = None => r.code = r.flow
        /\ why = "no key" /\ r.attempt = 1
             => <<r.provider, r.key>> \in gone \/ d = Keys({})
        /\ why = "signature" => Misleads(d, r.key)
    <2>1. CASE d = Junk
      BY <2>1 DEF verifyIdToken, Reason, None
    <2>2. CASE d # Junk /\ selected(d.keys, r.key) = {}
      <3>1. why = "no key"
        BY <2>2 DEF verifyIdToken
      <3>2. r.key \notin d.keys
        BY <2>2, SelectedHasKey DEF Documents
      <3> QED
        BY <2>2, <3>1, <3>2 DEF Answered, Known, Reason, None
    <2>3. CASE d # Junk /\ selected(d.keys, r.key) # {}
      <3>1. PICK x \in selected(d.keys, r.key) :
              why = IF x = r.key THEN claimsCheck(r) ELSE "signature"
        BY <2>3 DEF verifyIdToken
      <3>2. /\ claimsCheck(r) \in {"issuer", "nonce", None}
            /\ claimsCheck(r) = None => r.code = r.flow
        BY DEF claimsCheck, None
      <3>3. x # r.key => Misleads(d, r.key)
        BY <1>1, <3>1, SelectedOther
      <3> QED
        BY <3>1, <3>2, <3>3 DEF Reason, None
    <2> QED
      BY <2>1, <2>2, <2>3
  <1>3. CASE why = None
    <2>1. afterVerdict(r, why, d) = Accepted(r)
      BY <1>3 DEF afterVerdict, None
    <2>2. /\ Accepted(r) \in Request
          /\ Accepted(r).pc = "identity" /\ Accepted(r).body = NoDocument
          /\ Accepted(r).why = r.why /\ Accepted(r).flow = r.flow
          /\ Accepted(r).code = r.code /\ Accepted(r).provider = r.provider
          /\ Accepted(r).at = r.at
      BY NoDocumentOK DEF Accepted, Request
    <2> QED
      BY <1>2, <1>3, <2>1, <2>2 DEF RecordOK, Live, None
  <1>4. CASE why = "no key" /\ r.attempt = 0
    <2> DEFINE q == [r EXCEPT !.attempt = 1, !.body = NoDocument]
    <2>1. afterVerdict(r, why, d) = q
      BY <1>4 DEF afterVerdict, None
    <2>2. /\ q \in Request
          /\ q.pc = "verify" /\ q.body = NoDocument /\ q.why = r.why /\ q.flow = r.flow
          /\ q.code = r.code /\ q.provider = r.provider /\ q.at = r.at /\ q.key = r.key
      BY NoDocumentOK DEF Request
    <2> HIDE DEF q
    <2> QED
      BY <2>1, <2>2 DEF RecordOK, Live, None
  <1>5. CASE why # None /\ ~(why = "no key" /\ r.attempt = 0)
    <2> DEFINE q == RefusedBy(r, why, d)
    <2>1. afterVerdict(r, why, d) = q
      BY <1>5 DEF afterVerdict
    <2>2. /\ q \in Request /\ q.pc = "refused" /\ q.body = d /\ q.why = why
          /\ q.provider = r.provider /\ q.key = r.key
      <3>1. why \in Reason
        BY <1>2
      <3> QED
        BY <3>1, RefusedByOK
    <2>3. r.attempt \in {0, 1}
      BY DEF Request
    <2> HIDE DEF q
    <2> QED
      BY <1>2, <1>5, <2>1, <2>2, <2>3 DEF RecordOK, Live
  <1> QED
    BY <1>3, <1>4, <1>5

-----------------------------------------------------------------------------
(* One step of one handler that leaves the store, the sign-ins and the     *)
(* published keys alone.                                                   *)

Codes == [Flow -> [provider : Provider \cup {None}, spent : BOOLEAN]]

\* Such a step preserves the invariant if the handler's new locals are good and
\* it still holds at most the flow it held.
LEMMA LocalStep ==
  ASSUME IInv, NEW h \in Handler, NEW r \in Request,
         req' = [req EXCEPT ![h] = r],
         RecordOK(r), r.pc \in Live => Holds(h, r.flow),
         jwks' \in [Provider -> Documents], codes' \in Codes,
         UNCHANGED <<clock, config, states, keys, gone, started, signed>>
  PROVE  IInv'
  <1>1. req \in [Handler -> Request]
    BY DEF IInv, TypeOK, Request
  <1>2. req' \in [Handler -> Request]
    BY <1>1
  <1>3. TypeOK'
    BY <1>2 DEF IInv, TypeOK, Request, Codes
  <1>4. \A g \in Handler : req'[g] = IF g = h THEN r ELSE req[g]
    BY <1>1
  <1>5. \A g \in Handler : RecordOK(req[g])'
    <2> SUFFICES ASSUME NEW g \in Handler
                 PROVE  RecordOK(req[g])'
      OBVIOUS
    <2>1. RecordOK(req'[g])
      BY <1>4 DEF IInv
    <2> QED
      BY <2>1 DEF RecordOK, Bound, Known, Answered, Misleads
  <1>6. \A g \in Handler, f \in Flow : Holds(g, f)' => Holds(g, f)
    BY <1>4 DEF Holds
  <1>7. FlowsOK'
    BY <1>6 DEF IInv, FlowsOK
  <1> QED
    BY <1>3, <1>5, <1>7 DEF IInv

\* OAuthProvider::exchangeCode(), answered.
LEMMA ExchangeCodeStep ==
  ASSUME IInv, NEW h \in Handler, ExchangeCode(h)
  PROVE  IInv'
  <1> DEFINE r == req[h]
  <1>1. r \in Request /\ RecordOK(r) /\ r.pc = "exchange" /\ Exchangeable(r)
    BY DEF IInv, TypeOK, Request, ExchangeCode
  <1>2. PICK k \in (IF config[r.provider].verify THEN keys[r.provider] ELSE {None}) :
          req' = [req EXCEPT ![h].pc = IF k = None THEN "identity" ELSE "verify",
                             ![h].key = k]
    BY DEF ExchangeCode
  <1> DEFINE q == [r EXCEPT !.pc = IF k = None THEN "identity" ELSE "verify", !.key = k]
  <1>3. r.provider \in Provider /\ r.flow \in Flow /\ r.body = NoDocument /\ r.why = None
    BY <1>1 DEF RecordOK, Live
  <1>4. /\ keys[r.provider] \subseteq Key
        /\ config[r.provider].verify \in BOOLEAN
    BY <1>3 DEF IInv, TypeOK
  <1>5. k \in Key \cup {None} /\ (k = None <=> ~config[r.provider].verify)
        /\ (k # None => k \in keys[r.provider])
    BY <1>2, <1>4, NoneAssumption
  <1>6. q \in Request
    BY <1>1, <1>5 DEF Request
  <1>7. req' = [req EXCEPT ![h] = q]
    BY <1>2
  <1>8. /\ q.pc = IF k = None THEN "identity" ELSE "verify"
        /\ q.key = k /\ q.flow = r.flow /\ q.code = r.code /\ q.provider = r.provider
        /\ q.at = r.at /\ q.body = r.body /\ q.why = r.why
    BY <1>1 DEF Request
  <1>9. codes' \in Codes
    <2>1. r.code \in Flow /\ codes' = [codes EXCEPT ![r.code].spent = TRUE]
      BY <1>1 DEF ExchangeCode, Exchangeable, Request
    <2> QED
      BY <2>1, ZenonT(30) DEF IInv, TypeOK, Codes
  <1> HIDE DEF q
  <1>10. RecordOK(q)
    <2>1. r.provider \in Pkce => r.code = r.flow
      BY <1>1 DEF Exchangeable
    <2>2. CASE k = None
      BY <1>1, <1>3, <1>5, <1>8, <2>1, <2>2 DEF RecordOK, Live, Bound, None
    <2>3. CASE k # None
      BY <1>1, <1>3, <1>5, <1>8, <2>1, <2>3 DEF RecordOK, Live, Known, None
    <2> QED
      BY <2>2, <2>3
  <1>11. Holds(h, q.flow)
    BY <1>1, <1>8 DEF Holds, Live
  <1> QED
    BY <1>6, <1>7, <1>9, <1>10, <1>11, LocalStep DEF ExchangeCode, IInv, TypeOK

\* OAuthProvider::exchangeCode(), refused or unanswered.
LEMMA ExchangeFailsStep ==
  ASSUME IInv, NEW h \in Handler, NEW spent \in BOOLEAN, ExchangeFails(h, spent)
  PROVE  IInv'
  <1> DEFINE r == req[h]
             q == Refused(r, IF spent THEN "no id_token" ELSE "exchange")
  <1>1. r \in Request /\ (spent => Exchangeable(r))
    BY DEF IInv, TypeOK, Request, ExchangeFails
  <1>2. q \in Request /\ RecordOK(q) /\ q.pc = "refused"
    BY <1>1, RefusedOK DEF Reason
  <1>3. req' = [req EXCEPT ![h] = q]
    BY DEF ExchangeFails
  <1>4. codes' \in Codes
    <2>1. codes \in Codes
      BY DEF IInv, TypeOK, Codes
    <2>2. CASE spent
      <3>1. r.code \in Flow
        BY <1>1, <2>2 DEF Exchangeable, Request
      <3>2. codes' = [codes EXCEPT ![r.code].spent = TRUE]
        BY <2>2 DEF ExchangeFails
      <3> HIDE DEF r
      <3> QED
        BY <2>1, <3>1, <3>2 DEF Codes
    <2>3. CASE ~spent
      BY <2>1, <2>3 DEF ExchangeFails
    <2> QED
      BY <2>2, <2>3
  <1> HIDE DEF q
  <1> QED
    BY <1>2, <1>3, <1>4, LocalStep DEF ExchangeFails, IInv, TypeOK, Live

\* The token is looked at under the cached keys.
LEMMA VerifyCachedStep ==
  ASSUME IInv, NEW h \in Handler, VerifyCached(h)
  PROVE  IInv'
  <1> DEFINE r == req[h]
  <1>1. r \in Request /\ RecordOK(r) /\ r.pc = "verify" /\ r.attempt # 1
    BY DEF IInv, TypeOK, Request, VerifyCached, mustFetch
  <1>2. jwks[r.provider] \in Documents
    BY <1>1 DEF RecordOK, Live, IInv, TypeOK
  <1>3. PICK why \in verifyIdToken(r, jwks[r.provider]) :
          req' = [req EXCEPT ![h] = afterVerdict(r, why, jwks[r.provider])]
    BY DEF VerifyCached
  <1> DEFINE q == afterVerdict(r, why, jwks[r.provider])
  <1>4. q \in Request /\ RecordOK(q) /\ (q.pc \in Live => q.flow = r.flow)
    BY <1>1, <1>2, VerdictOK
  <1>5. req' = [req EXCEPT ![h] = q]
    BY <1>3
  <1> HIDE DEF q
  <1>6. q.pc \in Live => Holds(h, q.flow)
    BY <1>1, <1>4 DEF Holds, Live
  <1> QED
    BY <1>4, <1>5, <1>6, LocalStep DEF VerifyCached, external, IInv, TypeOK, Codes

\* The token is looked at under the keys that were fetched for it.
LEMMA VerifyFetchedStep ==
  ASSUME IInv, NEW h \in Handler, VerifyFetched(h)
  PROVE  IInv'
  <1> DEFINE r == req[h]
  <1>1. r \in Request /\ RecordOK(r) /\ r.pc = "verify" /\ r.body # NoDocument
    BY DEF IInv, TypeOK, Request, VerifyFetched
  <1>2. r.body \in Documents /\ Answered(r.provider, r.key, r.body)
    BY <1>1 DEF RecordOK, Request
  <1>3. PICK why \in verifyIdToken(r, r.body) :
          req' = [req EXCEPT ![h] = afterVerdict(r, why, r.body)]
    BY DEF VerifyFetched
  <1> DEFINE q == afterVerdict(r, why, r.body)
  <1>4. q \in Request /\ RecordOK(q) /\ (q.pc \in Live => q.flow = r.flow)
    BY <1>1, <1>2, VerdictOK
  <1>5. req' = [req EXCEPT ![h] = q]
    BY <1>3
  <1>6. jwks' \in [Provider -> Documents]
    BY <1>2 DEF VerifyFetched, IInv, TypeOK
  <1> HIDE DEF q
  <1>7. q.pc \in Live => Holds(h, q.flow)
    BY <1>1, <1>4 DEF Holds, Live
  <1> QED
    BY <1>4, <1>5, <1>6, <1>7, LocalStep DEF VerifyFetched, external, IInv, TypeOK, Codes

\* The document is fetched: what comes back is what the provider publishes then,
\* no key, or no document.
LEMMA FetchJwksStep ==
  ASSUME IInv, NEW h \in Handler, FetchJwks(h)
  PROVE  IInv'
  <1> DEFINE r == req[h]
  <1>1. r \in Request /\ RecordOK(r) /\ r.pc = "verify"
    BY DEF IInv, TypeOK, Request, FetchJwks
  <1>2. keys[r.provider] \in SUBSET Key
    BY <1>1 DEF RecordOK, Live, IInv, TypeOK
  <1>3. PICK d \in {Keys(keys[r.provider]), Keys({}), Junk} :
          req' = [req EXCEPT ![h].body = d]
    BY DEF FetchJwks
  <1> DEFINE q == [r EXCEPT !.body = d]
  <1>4. d \in Documents /\ (d = Keys(keys[r.provider]) => d.keys = keys[r.provider])
    BY <1>2, <1>3 DEF Keys, Junk, Documents
  <1>5. Answered(r.provider, r.key, d)
    BY <1>1, <1>3, <1>4 DEF RecordOK, Answered, Known
  <1>6. q \in Request
    BY <1>1, <1>4 DEF Request
  <1>7. /\ q.pc = r.pc /\ q.key = r.key /\ q.flow = r.flow /\ q.code = r.code
        /\ q.provider = r.provider /\ q.at = r.at /\ q.body = d /\ q.why = r.why
    BY <1>1 DEF Request
  <1>8. req' = [req EXCEPT ![h] = q]
    BY <1>3
  <1> HIDE DEF q
  <1>9. RecordOK(q) /\ Holds(h, q.flow)
    BY <1>1, <1>5, <1>7 DEF RecordOK, Holds, Live, None
  <1> QED
    BY <1>6, <1>8, <1>9, LocalStep DEF FetchJwks, external, IInv, TypeOK, Codes

\* Refusals for other reasons, and the end of a request.
LEMMA RefusalStep ==
  ASSUME IInv, NEW h \in Handler, FetchJwksFails(h) \/ IdentityRefused(h) \/ Respond(h)
  PROVE  IInv'
  <1>1. req[h] \in Request
    BY DEF IInv, TypeOK, Request
  <1>2. PICK q \in {Refused(req[h], "jwks"), Refused(req[h], "identity"), Idle} :
          req' = [req EXCEPT ![h] = q]
    BY DEF FetchJwksFails, IdentityRefused, Respond
  <1>3. q \in Request /\ RecordOK(q) /\ q.pc \notin Live
    BY <1>1, RefusedOK, IdleOK DEF Reason, Live
  <1>4. UNCHANGED <<clock, config, states, jwks, external, started, signed>>
    BY DEF FetchJwksFails, IdentityRefused, Respond
  <1> QED
    BY <1>2, <1>3, <1>4, LocalStep DEF external, IInv, TypeOK, Codes

-----------------------------------------------------------------------------
(* The steps that move a state, and those of the environment.              *)

\* oauthStart(): the flow is new, so nobody holds it; the others lose their
\* state if it is expired and keep it unchanged if it is not.
LEMMA OauthStartStep ==
  ASSUME IInv, NEW f \in Flow, NEW p \in Provider, OauthStart(f, p)
  PROVE  IInv'
  <1>1. /\ started[f] = Never /\ clock \in Nat /\ Ttl \in Nat /\ Ttl > 0
        /\ states \in [Flow -> [provider : Provider \cup {None}, expiry : Nat]]
        /\ started \in [Flow -> Nat \cup {Never}]
    BY TtlAssumption DEF OauthStart, IInv, TypeOK
  <1>2. /\ started' = [started EXCEPT ![f] = clock]
        /\ UNCHANGED <<clock, config, jwks, req, keys, codes, gone, signed>>
    BY DEF OauthStart, external
  <1>3. states' = [e \in Flow |-> IF e = f THEN [provider |-> p, expiry |-> clock + Ttl]
                                  ELSE IF clock >= states[e].expiry THEN NoState
                                  ELSE states[e]]
    BY DEF OauthStart, create, sweepLocked
  <1>4. states' \in [Flow -> [provider : Provider \cup {None}, expiry : Nat]]
    BY <1>1, <1>3 DEF NoState
  <1>5. started' \in [Flow -> Nat \cup {Never}] /\ started'[f] = clock
        /\ \A e \in Flow : e # f => started'[e] = started[e]
    BY <1>1, <1>2
  <1>6. TypeOK'
    BY <1>2, <1>4, <1>5 DEF IInv, TypeOK
  <1>7. \A h \in Handler : ~Holds(h, f)
    BY <1>1 DEF IInv, RecordOK, Holds
  <1>8. \A h \in Handler : RecordOK(req[h])'
    <2> SUFFICES ASSUME NEW h \in Handler
                 PROVE  RecordOK(req[h])'
      OBVIOUS
    <2>1. RecordOK(req[h])
      BY DEF IInv
    <2>2. req[h].pc \in Live \cup {"signedIn"} =>
            req[h].flow # f /\ started'[req[h].flow] = started[req[h].flow]
      BY <1>1, <1>5, <2>1 DEF RecordOK
    <2> QED
      BY <1>2, <2>1, <2>2 DEF RecordOK, Bound, Known, Answered, Misleads
  <1>9. FlowsOK'
    <2> SUFFICES ASSUME NEW e \in Flow
                 PROVE  /\ signed'[e] <= 1
                        /\ started'[e] = Never => states'[e] = NoState /\ signed'[e] = 0
                        /\ states'[e] # NoState =>
                             /\ states'[e].expiry = started'[e] + Ttl
                             /\ signed'[e] = 0
                             /\ \A h \in Handler : ~Holds(h, e)'
                        /\ \A h \in Handler : Holds(h, e)' => signed'[e] = 0
                        /\ \A h, g \in Handler : Holds(h, e)' /\ Holds(g, e)' => h = g
      BY DEF FlowsOK
    <2>1. \A h \in Handler : Holds(h, e)' <=> Holds(h, e)
      BY <1>2 DEF Holds
    <2>2. CASE e = f
      BY <1>1, <1>2, <1>3, <1>5, <1>7, <2>1, <2>2 DEF IInv, FlowsOK, Never
    <2>3. CASE e # f
      BY <1>1, <1>2, <1>3, <1>5, <2>1, <2>3 DEF IInv, FlowsOK
    <2> QED
      BY <2>2, <2>3
  <1> QED
    BY <1>6, <1>8, <1>9 DEF IInv

\* oauthCallback() before the exchange: the state leaves the store in every
\* case, and the handler holds the flow if the state was there and fresh.
LEMMA OauthCallbackStep ==
  ASSUME IInv, NEW h \in Handler, NEW f \in Flow, NEW c \in Flow \cup {NoFlow},
         NEW p \in Provider, OauthCallback(h, f, c, p)
  PROVE  IInv'
  <1> DEFINE r == [Idle EXCEPT !.flow = f, !.code = c, !.provider = p, !.at = clock]
             q == CASE ~fresh(f)              -> Refused(r, "state")
                    [] states[f].provider # p -> Refused(r, "provider")
                    [] c = NoFlow             -> Refused(r, "denied")
                    [] OTHER                  -> [r EXCEPT !.pc = "exchange"]
             s == [r EXCEPT !.pc = "exchange"]
  <1>1. /\ req[h].pc = "idle" /\ started[f] # Never
        /\ states' = [states EXCEPT ![f] = NoState]
        /\ req' = [req EXCEPT ![h] = q]
        /\ UNCHANGED <<clock, config, jwks, keys, codes, gone, started, signed>>
    BY DEF OauthCallback, consume, external
  <1>2. /\ req \in [Handler -> Request] /\ clock \in Nat
        /\ states \in [Flow -> [provider : Provider \cup {None}, expiry : Nat]]
    BY DEF IInv, TypeOK, Request
  <1>3. /\ r \in Request /\ s \in Request
        /\ s.pc = "exchange" /\ s.flow = f /\ s.provider = p /\ s.at = clock
        /\ s.body = NoDocument /\ s.why = None
    BY <1>2, NoDocumentOK DEF Idle, Request, Reason
  <1>4. \/ q = Refused(r, "state") \/ q = Refused(r, "provider") \/ q = Refused(r, "denied")
        \/ fresh(f) /\ q = s
    OBVIOUS
  <1> HIDE DEF q, r, s
  <1>5. fresh(f) => /\ states[f] # NoState /\ clock < started[f] + Ttl
                    /\ signed[f] = 0
                    /\ \A g \in Handler : ~Holds(g, f)
    BY DEF fresh, IInv, FlowsOK
  <1>6. \/ q \in Request /\ RecordOK(q) /\ q.pc = "refused"
        \/ q = s /\ fresh(f)
    <2>1. \A why \in {"state", "provider", "denied"} :
            /\ Refused(r, why) \in Request /\ RecordOK(Refused(r, why))
            /\ Refused(r, why).pc = "refused"
      <3>1. \A why \in {"state", "provider", "denied"} :
              why \in Reason /\ why \notin {"no key", "signature"}
        BY DEF Reason
      <3> QED
        BY <1>3, <3>1, RefusedOK, Zenon
    <2> QED
      BY <1>4, <2>1, Zenon
  <1>7. q \in Request /\ RecordOK(q)
    <2>1. fresh(f) => RecordOK(s)
      BY <1>1, <1>3, <1>5 DEF RecordOK, Live, None
    <2> QED
      BY <1>3, <1>6, <2>1
  <1>8. /\ \A g \in Handler : req'[g] = IF g = h THEN q ELSE req[g]
        /\ req' \in [Handler -> Request]
        /\ states' \in [Flow -> [provider : Provider \cup {None}, expiry : Nat]]
    BY <1>1, <1>2, <1>7 DEF NoState
  <1>9. TypeOK'
    BY <1>1, <1>8 DEF IInv, TypeOK, Request
  <1>10. \A g \in Handler : RecordOK(req[g])'
    <2> SUFFICES ASSUME NEW g \in Handler
                 PROVE  RecordOK(req[g])'
      OBVIOUS
    <2>1. RecordOK(req'[g])
      BY <1>7, <1>8 DEF IInv
    <2> QED
      BY <1>1, <2>1 DEF RecordOK, Bound, Known, Answered, Misleads
  <1>11. \A g \in Handler, e \in Flow :
           Holds(g, e)' => Holds(g, e) \/ (g = h /\ e = f /\ fresh(f))
    BY <1>3, <1>6, <1>8 DEF Holds, Live
  <1>12. FlowsOK'
    <2> SUFFICES ASSUME NEW e \in Flow
                 PROVE  /\ signed'[e] <= 1
                        /\ started'[e] = Never => states'[e] = NoState /\ signed'[e] = 0
                        /\ states'[e] # NoState =>
                             /\ states'[e].expiry = started'[e] + Ttl
                             /\ signed'[e] = 0
                             /\ \A g \in Handler : ~Holds(g, e)'
                        /\ \A g \in Handler : Holds(g, e)' => signed'[e] = 0
                        /\ \A g, i \in Handler : Holds(g, e)' /\ Holds(i, e)' => g = i
      BY DEF FlowsOK
    <2>1. CASE e = f
      <3>1. states'[e] = NoState
        BY <1>1, <1>2, <2>1
      <3> QED
        BY <1>1, <1>5, <1>11, <2>1, <3>1 DEF IInv, FlowsOK
    <2>2. CASE e # f
      <3>1. states'[e] = states[e]
        BY <1>1, <1>2, <2>2
      <3> QED
        BY <1>1, <1>11, <2>2, <3>1 DEF IInv, FlowsOK
    <2> QED
      BY <2>1, <2>2
  <1> QED
    BY <1>9, <1>10, <1>12 DEF IInv

\* The session is minted: the handler lets go of its flow in the same step.
LEMMA SignInStep ==
  ASSUME IInv, NEW h \in Handler, SignIn(h)
  PROVE  IInv'
  <1> DEFINE r == req[h]
             f == r.flow
             q == [r EXCEPT !.pc = "signedIn"]
  <1>1. /\ r \in Request /\ RecordOK(r) /\ r.pc = "identity"
        /\ req \in [Handler -> Request] /\ signed \in [Flow -> 0 .. 2]
    BY DEF IInv, TypeOK, Request, SignIn
  <1>2. /\ req' = [req EXCEPT ![h] = q]
        /\ UNCHANGED <<clock, config, states, jwks, keys, codes, gone, started>>
    BY DEF SignIn, external
  <1>3. /\ q \in Request /\ q.pc = "signedIn" /\ q.flow = r.flow /\ q.code = r.code
        /\ q.provider = r.provider /\ q.at = r.at /\ q.body = r.body /\ q.why = r.why
    BY <1>1 DEF Request
  <1> HIDE DEF q
  <1>4. f \in Flow /\ Holds(h, f)
    BY <1>1 DEF RecordOK, Holds, Live
  <1>5. /\ signed[f] = 0 /\ states[f] = NoState /\ started[f] # Never
        /\ \A g \in Handler : Holds(g, f) => g = h
    BY <1>1, <1>4 DEF IInv, FlowsOK, RecordOK, Live
  <1>6. signed' = [signed EXCEPT ![f] = 1]
    BY <1>1, <1>4, <1>5 DEF SignIn
  <1>7. /\ \A g \in Handler : req'[g] = IF g = h THEN q ELSE req[g]
        /\ req' \in [Handler -> Request]
    BY <1>1, <1>2, <1>3
  <1>8. TypeOK'
    <2>1. signed' \in [Flow -> 0 .. 2]
      <3>1. 1 \in 0 .. 2
        OBVIOUS
      <3> QED
        BY <1>1, <1>6, <3>1, Zenon
    <2> QED
      BY <1>2, <1>7, <2>1 DEF IInv, TypeOK, Request
  <1>9. \A g \in Handler : RecordOK(req[g])'
    <2> SUFFICES ASSUME NEW g \in Handler
                 PROVE  RecordOK(req[g])'
      OBVIOUS
    <2>1. RecordOK(q)
      BY <1>1, <1>3 DEF RecordOK, Live, None
    <2>2. RecordOK(req'[g])
      BY <1>7, <2>1 DEF IInv
    <2> QED
      BY <1>2, <2>2 DEF RecordOK, Bound, Known, Answered, Misleads
  <1>10. \A g \in Handler, e \in Flow : Holds(g, e)' => Holds(g, e) /\ g # h
    BY <1>3, <1>7 DEF Holds, Live
  <1>11. FlowsOK'
    BY <1>1, <1>2, <1>5, <1>6, <1>10 DEF IInv, FlowsOK
  <1> QED
    BY <1>8, <1>9, <1>11 DEF IInv

\* A key that a provider withdraws is remembered as gone.
LEMMA RotateStep ==
  ASSUME IInv, NEW p \in Provider, NEW K \in SUBSET Key, Rotate(p, K)
  PROVE  IInv'
  <1>1. /\ keys' = [keys EXCEPT ![p] = K]
        /\ gone' = gone \cup ({p} \X (keys[p] \ K))
        /\ UNCHANGED <<clock, config, states, jwks, req, codes, started, signed>>
    BY DEF Rotate
  <1>2. keys \in [Provider -> SUBSET Key] /\ gone \subseteq Provider \X Key
    BY DEF IInv, TypeOK
  <1>3. TypeOK'
    BY <1>1, <1>2 DEF IInv, TypeOK
  <1>4. FlowsOK'
    BY <1>1 DEF IInv, FlowsOK, Holds
  <1>5. \A o \in Provider, k \in Key : k \in keys[o] => k \in keys'[o] \/ <<o, k>> \in gone'
    BY <1>1, <1>2
  <1>6. \A h \in Handler : RecordOK(req[h])'
    <2> SUFFICES ASSUME NEW h \in Handler
                 PROVE  RecordOK(req[h])'
      OBVIOUS
    <2>1. RecordOK(req[h])
      BY DEF IInv
    <2> QED
      BY <1>1, <1>5, <2>1 DEF RecordOK, Bound, Known, Answered, Misleads, Live
  <1> QED
    BY <1>3, <1>4, <1>6 DEF IInv

\* A restart forgets the flows and the handlers.
LEMMA RestartStep ==
  ASSUME IInv, Restart
  PROVE  IInv'
  <1>1. \A p \in Provider : config'[p].verify \in BOOLEAN
    <2>1. PICK reachable \in SUBSET Provider :
            config' = [p \in Provider |-> fromEnv(p, p \in reachable)]
      BY DEF Restart
    <2>2. \A p \in Provider : fromEnv(p, p \in reachable).verify \in BOOLEAN
      BY DEF fromEnv, NoConfig
    <2> QED
      BY <2>1, <2>2
  <1>2. /\ states' = [f \in Flow |-> NoState] /\ jwks' = [p \in Provider |-> NoDocument]
        /\ req' = [h \in Handler |-> Idle]
        /\ UNCHANGED <<clock, keys, codes, gone, started, signed>>
    BY DEF Restart, external
  <1>3. TypeOK'
    BY <1>1, <1>2, IdleOK, NoDocumentOK DEF IInv, TypeOK, Request, NoState
  <1>4. \A h \in Handler : RecordOK(req[h])'
    BY <1>2 DEF RecordOK, Idle, Live, None
  <1>5. FlowsOK'
    BY <1>2, IdleOK DEF IInv, FlowsOK, Holds
  <1> QED
    BY <1>3, <1>4, <1>5 DEF IInv

\* The user's consent and the passing of time touch nothing the invariant is
\* about.
LEMMA ConsentOrTickStep ==
  ASSUME IInv, (\E f \in Flow : Consent(f)) \/ Tick
  PROVE  IInv'
  <1>1. /\ UNCHANGED <<config, states, jwks, req, keys, gone, started, signed>>
        /\ codes' \in Codes /\ clock' \in 0 .. MaxTime
    BY TimeAssumption DEF Consent, Tick, external, IInv, TypeOK, Codes
  <1>2. TypeOK' /\ FlowsOK'
    BY <1>1 DEF IInv, TypeOK, FlowsOK, Holds, Codes
  <1>3. \A h \in Handler : RecordOK(req[h])'
    BY <1>1 DEF IInv, RecordOK, Bound, Known, Answered, Misleads
  <1> QED
    BY <1>2, <1>3 DEF IInv

-----------------------------------------------------------------------------
\* The start of the process.
LEMMA InitIInv == Init => IInv
  <1> SUFFICES ASSUME Init PROVE IInv
    OBVIOUS
  <1>1. \A p \in Provider : config[p].verify \in BOOLEAN
    <2>1. PICK reachable \in SUBSET Provider :
            config = [p \in Provider |-> fromEnv(p, p \in reachable)]
      BY DEF Init
    <2>2. \A p \in Provider : fromEnv(p, p \in reachable).verify \in BOOLEAN
      BY DEF fromEnv, NoConfig
    <2> QED
      BY <2>1, <2>2
  <1>2. keys \in [Provider -> SUBSET Key]
    BY DEF Init
  <1>3. /\ states = [f \in Flow |-> NoState] /\ req = [h \in Handler |-> Idle]
        /\ started = [f \in Flow |-> Never] /\ signed = [f \in Flow |-> 0]
    BY DEF Init
  <1>4. TypeOK
    BY <1>1, <1>2, <1>3, IdleOK, NoDocumentOK, TimeAssumption
    DEF Init, TypeOK, Request, NoState
  <1>5. \A h \in Handler : RecordOK(req[h])
    BY <1>3, IdleOK
  <1>6. FlowsOK
    BY <1>3, IdleOK DEF FlowsOK, Holds
  <1> QED
    BY <1>4, <1>5, <1>6 DEF IInv

\* Every step of the bridge, of a provider or of a browser.
LEMMA NextIInv == IInv /\ [Next]_vars => IInv'
  <1> SUFFICES ASSUME IInv, [Next]_vars PROVE IInv'
    OBVIOUS
  <1>1. CASE UNCHANGED vars
    <2>1. \A h \in Handler : RecordOK(req[h])'
      BY <1>1 DEF vars, IInv, RecordOK, Bound, Known, Answered, Misleads
    <2> QED
      BY <1>1, <2>1 DEF vars, IInv, TypeOK, FlowsOK, Holds
  <1>2. CASE \E f \in Flow, p \in Provider : OauthStart(f, p)
    BY <1>2, OauthStartStep
  <1>3. CASE (\E f \in Flow : Consent(f)) \/ Tick
    BY <1>3, ConsentOrTickStep
  <1>4. CASE \E h \in Handler, f \in Flow, c \in Flow \cup {NoFlow}, p \in Provider :
               OauthCallback(h, f, c, p)
    BY <1>4, OauthCallbackStep
  <1>5. CASE \E h \in Handler : ExchangeCode(h)
    BY <1>5, ExchangeCodeStep
  <1>6. CASE \E h \in Handler, spent \in BOOLEAN : ExchangeFails(h, spent)
    BY <1>6, ExchangeFailsStep
  <1>7. CASE \E h \in Handler : VerifyCached(h)
    BY <1>7, VerifyCachedStep
  <1>8. CASE \E h \in Handler : FetchJwks(h)
    BY <1>8, FetchJwksStep
  <1>9. CASE \E h \in Handler : VerifyFetched(h)
    BY <1>9, VerifyFetchedStep
  <1>10. CASE \E h \in Handler : FetchJwksFails(h) \/ IdentityRefused(h) \/ Respond(h)
    BY <1>10, RefusalStep
  <1>11. CASE \E h \in Handler : SignIn(h)
    BY <1>11, SignInStep
  <1>12. CASE \E p \in Provider, K \in (SUBSET Key) \ {{}} : Rotate(p, K)
    BY <1>12, RotateStep
  <1>13. CASE Restart
    BY <1>13, RestartStep
  <1> QED
    BY <1>1, <1>2, <1>3, <1>4, <1>5, <1>6, <1>7, <1>8, <1>9, <1>10, <1>11, <1>12, <1>13
    DEF Next

\* The inductive invariant holds in every reachable state.
THEOREM Inductive == Spec => []IInv
  BY InitIInv, NextIInv, PTL DEF Spec

\* The locals of every callback and the state store keep their types.
THEOREM TypeCorrect == Spec => []TypeOK
  <1>1. IInv => TypeOK
    BY DEF IInv
  <1> QED
    BY <1>1, Inductive, PTL

\* OAuthStateStore::consume(): however often and at however many handlers a
\* callback arrives, one visit to the authorize route gives at most one session.
THEOREM OneSignIn == Spec => []OneSignInPerFlow
  <1>1. IInv => OneSignInPerFlow
    BY DEF IInv, FlowsOK, OneSignInPerFlow
  <1> QED
    BY <1>1, Inductive, PTL

\* No code is exchanged, and no session minted, for a callback that came after
\* its state had expired, swept or not.
THEOREM Timely == Spec => []SignInIsTimely
  <1>1. IInv => SignInIsTimely
    BY DEF IInv, RecordOK, Live, SignInIsTimely
  <1> QED
    BY <1>1, Inductive, PTL

\* With PKCE at the provider or id_tokens verified by the bridge, the session is
\* for the user who authorised the flow whose state came back.
THEOREM BoundToFlow == Spec => []LoginBoundToFlow
  <1>1. IInv => LoginBoundToFlow
    BY DEF IInv, RecordOK, Bound, LoginBoundToFlow
  <1> QED
    BY <1>1, Inductive, PTL

\* OAuthProvider::verifyIdToken() with its one refetch: through any number of
\* rotations at any moment and with any mix of cached and fetched documents, bad
\* ones included, a login is not refused for a missing key unless the key was
\* withdrawn or the refetched document is empty; and a document that holds the
\* signing key by its id never makes its signature look bad.
THEOREM KeyGoneIfRefused == Spec => []RefusedKeyIsGone
  <1>1. IInv => RefusedKeyIsGone
    BY DEF IInv, RecordOK, Misleads, RefusedKeyIsGone
  <1> QED
    BY <1>1, Inductive, PTL

\* OAuthStateStore::sweepLocked(): after oauthStart() every flow in the store
\* but the new one is within its lifetime.
THEOREM Swept == Spec => AbandonedFlowsSwept
  <1>1. ASSUME IInv, [Next]_vars, started' # started, NEW f \in Flow, states'[f] # NoState
        PROVE  clock < started[f] + Ttl \/ started[f] = Never
    <2>1. PICK e \in Flow, p \in Provider : OauthStart(e, p)
      BY <1>1
      DEF Next, vars, Consent, OauthCallback, ExchangeCode, ExchangeFails, VerifyCached,
          FetchJwks, VerifyFetched, FetchJwksFails, SignIn, IdentityRefused, Respond,
          Rotate, Restart, Tick
    <2>2. CASE f = e
      BY <2>1, <2>2 DEF OauthStart
    <2>3. CASE f # e
      <3>1. states'[f] = IF clock >= states[f].expiry THEN NoState ELSE states[f]
        BY <2>1, <2>3 DEF OauthStart, create, sweepLocked
      <3>2. states[f].expiry \in Nat /\ clock \in Nat
        BY <1>1 DEF IInv, TypeOK
      <3>3. states[f] # NoState /\ clock < states[f].expiry
        BY <1>1, <3>1, <3>2
      <3> QED
        BY <1>1, <3>3 DEF IInv, FlowsOK
    <2> QED
      BY <2>2, <2>3
  <1>2. IInv /\ [Next]_vars =>
          [started' # started =>
             \A f \in Flow : states'[f] # NoState =>
               clock < started[f] + Ttl \/ started[f] = Never]_vars
    BY <1>1
  <1> QED
    BY <1>2, Inductive, PTL DEF Spec, AbandonedFlowsSwept
===============================================================================
