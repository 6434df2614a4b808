----------------------------- MODULE ReplayGuard -----------------------------
(***************************************************************************)
(* The single-use guards of the HTTP bridge: class ReplayGuard             *)
(* (src/include/replay_guard.h) with its two users in                      *)
(* src/src/http_server.cpp, each with a guard of its own:                  *)
(*                                                                         *)
(*   authExchange()  an integration's signed assertion, guarded by replay_ *)
(*   ssoRedeem()     a one-time hand-off code, guarded by sso_replay_      *)
(*                                                                         *)
(* Both verify the credential, then ask the guard, then mint a session.    *)
(* They differ in two ways that matter: an assertion is still accepted     *)
(* Leeway seconds past its exp, and the guard is given a clock sample taken *)
(* after the verification; a code is refused at its exp, but the guard is  *)
(* given the very sample the code was verified with.                       *)
(*                                                                         *)
(* A guard lives in one process and dies with it (a single-bridge          *)
(* deployment, says the header), so what it promises it promises for the   *)
(* life of the process.                                                    *)
(***************************************************************************)
EXTENDS Integers

CONSTANTS
  Handler,    \* requests in flight
  Assertion,  \* jtis of integration assertions
  Code,       \* jtis of hand-off codes
  NoJti,      \* the jti of an assertion that carries none
  Exp,        \* Exp[j] is the exp claim of the credential
  Leeway,     \* clock-skew leeway of verifyIntegrationAssertion
  MaxTime     \* bound on the clock

Jti == Assertion \cup Code

ASSUME KindAssumption ==
  Assertion \cap Code = {} /\ NoJti \notin Jti
ASSUME LifetimeAssumption ==
  Exp \in [Jti \cup {NoJti} -> Nat \ {0}]
ASSUME HorizonAssumption == Leeway \in Nat /\ MaxTime \in Nat

VARIABLES
  clock,  \* seconds, as std::time(nullptr) sees them
  seen_,  \* seen_[j]: the recorded expiry, 0 if there is no record
  req,    \* req[h]: the locals of the handler thread h is running
  used    \* history: jtis a guard of this process has accepted

vars == <<clock, seen_, req, used>>

-----------------------------------------------------------------------------
Idle == [pc |-> "idle", jti |-> NoJti, now |-> 0]

Request ==
  [pc : {"idle", "verified", "sampled", "accepted"},
   jti : Jti \cup {NoJti},
   now : Nat]

NoRecords == [j \in Jti |-> 0]

TypeOK ==
  /\ clock \in Nat
  /\ seen_ \in [Jti -> Nat]
  /\ req \in [Handler -> Request]
  /\ used \subseteq Jti

Init ==
  /\ clock = 0
  /\ seen_ = NoRecords
  /\ req = [h \in Handler |-> Idle]
  /\ used = {}

-----------------------------------------------------------------------------
(* class ReplayGuard.                                                      *)

\* The records that share a guard with j.
GuardOf(j) == IF j \in Assertion THEN Assertion ELSE Code

\* Mutant: a record is dropped in the last second of its life.
purgeOneEarly(s, g, now) ==
  [j \in Jti |-> IF j \in g /\ s[j] <= now + 1 THEN 0 ELSE s[j]]

purgeLocked(s, g, now) ==
  [j \in Jti |-> IF j \in g /\ s[j] <= now THEN 0 ELSE s[j]]

\* Mutant: the record holds the lifetime left instead of the expiry.
recordedRemaining(s, j, now) == [s EXCEPT ![j] = Exp[j] - now]

\* What accept() leaves in the map when it says yes.
recorded(s, j, now) == [s EXCEPT ![j] = Exp[j]]

\* accept() says no: there is a record and it is live.
isReplay(s, j, now) == s[j] > now

-----------------------------------------------------------------------------
(* The two handlers.                                                       *)

\* ssoRedeem(): one sample of the clock serves jwt::verify and the guard.
VerifyCode(h, j) ==
  /\ req[h].pc = "idle"
  /\ clock < Exp[j]
  /\ req' = [req EXCEPT ![h] = [pc |-> "sampled", jti |-> j, now |-> clock]]
  /\ UNCHANGED <<clock, seen_, used>>

\* authExchange(): verifyIntegrationAssertion samples the clock for itself.
VerifyAssertion(h, j) ==
  /\ req[h].pc = "idle"
  /\ clock <= Exp[j] + Leeway
  /\ req' = [req EXCEPT ![h] = [pc |-> "verified", jti |-> j, now |-> 0]]
  /\ UNCHANGED <<clock, seen_, used>>

\* ... and the handler samples it again for the guard.
SampleNow(h) ==
  /\ req[h].pc = "verified"
  /\ req' = [req EXCEPT ![h].pc = "sampled", ![h].now = clock]
  /\ UNCHANGED <<clock, seen_, used>>

\* accept() of an empty jti: nothing to key on, always accepted, never stored.
AcceptUnnamed(h) ==
  /\ req[h].pc = "sampled"
  /\ req[h].jti = NoJti
  /\ req' = [req EXCEPT ![h].pc = "accepted"]
  /\ UNCHANGED <<clock, seen_, used>>

\* Mutant: the record is looked for before the guard's lock is taken, and a
\* racing accept() of the same jti is not noticed.
AcceptUnlocked(h) ==
  LET r == req[h]
      s == purgeLocked(seen_, GuardOf(r.jti), r.now)
  IN  /\ r.pc = "sampled"
      /\ r.jti # NoJti
      /\ seen_' = recorded(s, r.jti, r.now)
      /\ used' = used \cup {r.jti}
      /\ req' = [req EXCEPT ![h].pc = "accepted"]
      /\ UNCHANGED clock

\* accept() says yes: purge, look, record, all under the guard's mutex.
Accept(h) ==
  LET r == req[h]
      s == purgeLocked(seen_, GuardOf(r.jti), r.now)
  IN  /\ r.pc = "sampled"
      /\ r.jti # NoJti
      /\ ~isReplay(s, r.jti, r.now)
      /\ seen_' = recorded(s, r.jti, r.now)
      /\ used' = used \cup {r.jti}
      /\ req' = [req EXCEPT ![h].pc = "accepted"]
      /\ UNCHANGED clock

\* accept() says no: the request is answered 401; the purge has happened.
RefuseReplay(h) ==
  LET r == req[h]
      s == purgeLocked(seen_, GuardOf(r.jti), r.now)
  IN  /\ r.pc = "sampled"
      /\ r.jti # NoJti
      /\ isReplay(s, r.jti, r.now)
      /\ seen_' = s
      /\ req' = [req EXCEPT ![h] = Idle]
      /\ UNCHANGED <<clock, used>>

\* What follows: the session is minted, or the user is unknown, the token type
\* is not enabled or the audit log is down and it is not.  Either way the guard
\* keeps the record: a credential that was accepted is spent.
Finish(h) ==
  /\ req[h].pc = "accepted"
  /\ req' = [req EXCEPT ![h] = Idle]
  /\ UNCHANGED <<clock, seen_, used>>

-----------------------------------------------------------------------------
\* The process dies and comes back: both guards are empty.
Restart ==
  /\ seen_' = NoRecords
  /\ req' = [h \in Handler |-> Idle]
  /\ used' = {}
  /\ UNCHANGED clock

Tick ==
  /\ clock < MaxTime
  /\ clock' = clock + 1
  /\ UNCHANGED <<seen_, req, used>>

Next ==
  \/ \E h \in Handler, j \in Code : VerifyCode(h, j)
  \/ \E h \in Handler, j \in Assertion \cup {NoJti} : VerifyAssertion(h, j)
  \/ \E h \in Handler : SampleNow(h)
  \/ \E h \in Handler : AcceptUnnamed(h)
  \/ \E h \in Handler : Accept(h)
  \/ \E h \in Handler : RefuseReplay(h)
  \/ \E h \in Handler : Finish(h)
  \/ Restart
  \/ Tick

Spec == Init /\ [][Next]_vars

-----------------------------------------------------------------------------
(* What the guards promise.                                                *)

\* Handler h gets a yes for the named jti it holds in this step.
IsAccepted(h) ==
  /\ req[h].pc = "sampled"
  /\ req[h].jti # NoJti
  /\ req'[h].pc = "accepted"

(* "An assertion is accepted at most once until its own expiry" (the header  *)
(* of ReplayGuard).  While the credential is unexpired by the clock on the   *)
(* wall, whatever sample the caller passes in, accept() never says yes to a  *)
(* jti some handler of this process already got a yes for.                   *)
AcceptedOnceUntilExpiry ==
  [][\A h \in Handler :
       IsAccepted(h) /\ clock < Exp[req[h].jti] => req[h].jti \notin used]_vars

(* Why it holds: no purge, whichever handler runs it and however old its     *)
(* clock sample is, drops the record of a used credential before it expires. *)
UsedIsRemembered ==
  \A j \in used : clock < Exp[j] => seen_[j] = Exp[j]

(* The comment on sso_replay_: "a code is redeemable once".  The guard never *)
(* says yes twice to the same hand-off code.                                 *)
CodeRedeemedOnce ==
  [][\A h \in Handler :
       IsAccepted(h) /\ req[h].jti \in Code => req[h].jti \notin used]_vars
=============================================================================
