-------------------------- MODULE ReplayGuardProofs --------------------------
(***************************************************************************)
(* The single-use promise of ReplayGuard, for any number of handlers and   *)
(* credentials, any lifetimes and any leeway.                              *)
(*                                                                         *)
(* UsedIsRemembered is inductive once it is joined with the fact that no   *)
(* handler holds a clock sample from the future: a purge with sample `now` *)
(* drops records that expired by `now`, hence by the clock.                *)
(***************************************************************************)
EXTENDS ReplayGuard, TLAPS

\* A handler between its sample and the guard holds a sample of the past.
SamplesPast == \A h \in Handler : req[h].now <= clock

IInv == TypeOK /\ SamplesPast /\ UsedIsRemembered

\* A purge leaves a map of records, and keeps what is live at its sample.
LEMMA PurgeShape ==
  ASSUME NEW s \in [Jti -> Nat], NEW g, NEW now \in Nat
  PROVE  /\ purgeLocked(s, g, now) \in [Jti -> Nat]
         /\ \A k \in Jti : s[k] > now => purgeLocked(s, g, now)[k] = s[k]
  BY DEF purgeLocked

\* Recording changes one record, to the credential's expiry.
LEMMA RecordShape ==
  ASSUME NEW s \in [Jti -> Nat], NEW j \in Jti, NEW now \in Nat
  PROVE  /\ recorded(s, j, now) \in [Jti -> Nat]
         /\ \A k \in Jti : recorded(s, j, now)[k] = IF k = j THEN Exp[j] ELSE s[k]
  BY LifetimeAssumption DEF recorded

\* The initial state.
LEMMA InitIInv == Init => IInv
  BY DEF Init, IInv, TypeOK, SamplesPast, UsedIsRemembered, Idle, Request, NoRecords

\* A purge run with a sample of the past keeps every record that still matters.
LEMMA PurgeRemembers ==
  ASSUME IInv, NEW g, NEW now \in Nat, now <= clock
  PROVE  \A j \in used :
           clock < Exp[j] => purgeLocked(seen_, g, now)[j] = Exp[j]
  <1>1. TAKE j \in used
  <1>2. HAVE clock < Exp[j]
  <1>3. j \in Jti /\ seen_[j] = Exp[j] /\ seen_ \in [Jti -> Nat] /\ clock \in Nat
    BY <1>2 DEF IInv, TypeOK, UsedIsRemembered
  <1>4. Exp[j] \in Nat
    BY <1>3, LifetimeAssumption
  <1>5. seen_[j] > now
    BY <1>2, <1>3, <1>4
  <1>6. purgeLocked(seen_, g, now)[j] = seen_[j]
    BY <1>3, <1>5, PurgeShape
  <1> QED BY <1>3, <1>6

\* A yes keeps the invariant: the new record is the credential's own expiry.
LEMMA AcceptIInv ==
  ASSUME IInv, NEW h \in Handler, Accept(h)
  PROVE  IInv'
  <1> DEFINE r == req[h]
             s == purgeLocked(seen_, GuardOf(r.jti), r.now)
  <1>1. r.jti \in Jti /\ r.now \in Nat /\ r.now <= clock /\ seen_ \in [Jti -> Nat]
    BY DEF Accept, IInv, TypeOK, SamplesPast, Request
  <1>2. s \in [Jti -> Nat]
    BY <1>1, PurgeShape
  <1>3. \A j \in used : clock < Exp[j] => s[j] = Exp[j]
    BY <1>1, PurgeRemembers
  <1>4. /\ clock' = clock
        /\ seen_' = recorded(s, r.jti, r.now)
        /\ used' = used \cup {r.jti}
        /\ req' = [req EXCEPT ![h].pc = "accepted"]
    BY DEF Accept
  <1> HIDE DEF s
  <1>5. TypeOK'
    <2>1. seen_' \in [Jti -> Nat]
      BY <1>1, <1>2, <1>4, RecordShape
    <2>2. req' \in [Handler -> Request]
      BY <1>4 DEF IInv, TypeOK, Request
    <2> QED BY <1>1, <1>4, <2>1, <2>2 DEF IInv, TypeOK
  <1>6. SamplesPast'
    BY <1>4 DEF IInv, TypeOK, SamplesPast, Request
  <1>7. UsedIsRemembered'
    <2>1. \A k \in Jti : seen_'[k] = IF k = r.jti THEN Exp[r.jti] ELSE s[k]
      BY <1>1, <1>2, <1>4, RecordShape
    <2>2. used \subseteq Jti
      BY DEF IInv, TypeOK
    <2> QED BY <1>1, <1>3, <1>4, <2>1, <2>2 DEF UsedIsRemembered
  <1> QED BY <1>5, <1>6, <1>7 DEF IInv

\* A no only purges.
LEMMA RefuseIInv ==
  ASSUME IInv, NEW h \in Handler, RefuseReplay(h)
  PROVE  IInv'
  <1> DEFINE r == req[h]
             s == purgeLocked(seen_, GuardOf(r.jti), r.now)
  <1>1. r.jti \in Jti /\ r.now \in Nat /\ r.now <= clock /\ seen_ \in [Jti -> Nat]
    BY DEF RefuseReplay, IInv, TypeOK, SamplesPast, Request
  <1>2. s \in [Jti -> Nat]
    BY <1>1, PurgeShape
  <1>3. \A j \in used : clock < Exp[j] => s[j] = Exp[j]
    BY <1>1, PurgeRemembers
  <1>4. /\ UNCHANGED <<clock, used>>
        /\ seen_' = s
        /\ req' = [req EXCEPT ![h] = Idle]
    BY DEF RefuseReplay
  <1> HIDE DEF s
  <1>5. TypeOK'
    BY <1>2, <1>4 DEF IInv, TypeOK, Request, Idle
  <1>6. SamplesPast'
    BY <1>4 DEF IInv, TypeOK, SamplesPast, Idle
  <1>7. UsedIsRemembered'
    BY <1>3, <1>4 DEF UsedIsRemembered
  <1> QED BY <1>5, <1>6, <1>7 DEF IInv

\* The steps that touch no guard.
LEMMA HandlerIInv ==
  ASSUME IInv, NEW h \in Handler, UNCHANGED <<clock, seen_, used>>,
         NEW r \in Request, r.now <= clock,
         req' = [req EXCEPT ![h] = r]
  PROVE  IInv'
  <1>1. TypeOK'
    BY DEF IInv, TypeOK
  <1>2. SamplesPast'
    BY DEF IInv, TypeOK, SamplesPast
  <1>3. UsedIsRemembered'
    BY DEF IInv, UsedIsRemembered
  <1> QED BY <1>1, <1>2, <1>3 DEF IInv

\* Every step.
LEMMA NextIInv == IInv /\ [Next]_vars => IInv'
  <1> SUFFICES ASSUME IInv, [Next]_vars PROVE IInv'
    OBVIOUS
  <1> USE DEF Request, Idle
  <1>0. clock \in Nat /\ req \in [Handler -> Request]
    BY DEF IInv, TypeOK
  <1>1. ASSUME NEW h \in Handler, NEW j \in Code, VerifyCode(h, j) PROVE IInv'
    <2> DEFINE r == [pc |-> "sampled", jti |-> j, now |-> clock]
    <2>1. r \in Request /\ r.now <= clock
      BY <1>0 DEF Jti
    <2> QED BY <1>1, <2>1, HandlerIInv DEF VerifyCode
  <1>2. ASSUME NEW h \in Handler, NEW j \in Assertion \cup {NoJti},
               VerifyAssertion(h, j)
        PROVE  IInv'
    <2> DEFINE r == [pc |-> "verified", jti |-> j, now |-> 0]
    <2>1. r \in Request /\ r.now <= clock
      BY <1>0 DEF Jti
    <2> QED BY <1>2, <2>1, HandlerIInv DEF VerifyAssertion
  <1>3. ASSUME NEW h \in Handler, SampleNow(h) PROVE IInv'
    <2> DEFINE r == [req[h] EXCEPT !.pc = "sampled", !.now = clock]
    <2>0. r \in Request /\ r.now = clock
      BY <1>0
    <2>1. r \in Request /\ r.now <= clock
      BY <1>0, <2>0
    <2>2. req' = [req EXCEPT ![h] = r]
      BY <1>0, <1>3 DEF SampleNow
    <2>3. UNCHANGED <<clock, seen_, used>>
      BY <1>3 DEF SampleNow
    <2> QED BY <2>1, <2>2, <2>3, HandlerIInv
  <1>4. ASSUME NEW h \in Handler, AcceptUnnamed(h) PROVE IInv'
    <2> DEFINE r == [req[h] EXCEPT !.pc = "accepted"]
    <2>1. r \in Request /\ r.now <= clock
      BY <1>0 DEF IInv, SamplesPast
    <2>2. req' = [req EXCEPT ![h] = r]
      BY <1>0, <1>4 DEF AcceptUnnamed
    <2>3. UNCHANGED <<clock, seen_, used>>
      BY <1>4 DEF AcceptUnnamed
    <2> QED BY <2>1, <2>2, <2>3, HandlerIInv
  <1>5. ASSUME NEW h \in Handler, Finish(h) PROVE IInv'
    <2>1. Idle \in Request /\ Idle.now <= clock
      BY <1>0
    <2> QED BY <1>5, <2>1, HandlerIInv DEF Finish
  <1>6. CASE Restart
    BY <1>0, <1>6 DEF Restart, NoRecords, IInv, TypeOK, SamplesPast, UsedIsRemembered
  <1>7. CASE Tick
    <2>1. TypeOK' /\ SamplesPast'
      BY <1>0, <1>7 DEF Tick, IInv, TypeOK, SamplesPast
    <2>2. UsedIsRemembered'
      <3>1. \A j \in used : Exp[j] \in Nat
        BY LifetimeAssumption DEF IInv, TypeOK
      <3> QED BY <1>0, <1>7, <3>1 DEF Tick, IInv, UsedIsRemembered
    <2> QED BY <2>1, <2>2 DEF IInv
  <1>8. CASE UNCHANGED vars
    BY <1>8 DEF vars, IInv, TypeOK, SamplesPast, UsedIsRemembered
  <1> QED BY <1>1, <1>2, <1>3, <1>4, <1>5, <1>6, <1>7, <1>8,
             AcceptIInv, RefuseIInv DEF Next

(* Records and requests of the guards keep their types under every purge.    *)
THEOREM TypeCorrect == Spec => []TypeOK
  <1>1. IInv => TypeOK
    BY DEF IInv
  <1> QED BY <1>1, InitIInv, NextIInv, PTL DEF Spec

(* The records of used, unexpired credentials survive every purge, of every  *)
(* guard, with every clock sample a handler can hold.                        *)
THEOREM RecordsSurvive == Spec => []UsedIsRemembered
  <1>1. IInv => UsedIsRemembered
    BY DEF IInv
  <1> QED BY <1>1, InitIInv, NextIInv, PTL DEF Spec

\* A yes for a used, unexpired credential contradicts its record.
LEMMA YesIsFresh ==
  ASSUME IInv, [Next]_vars, NEW h \in Handler, IsAccepted(h),
         clock < Exp[req[h].jti]
  PROVE  req[h].jti \notin used
  <1> SUFFICES ASSUME req[h].jti \in used PROVE FALSE
    OBVIOUS
  <1> DEFINE j == req[h].jti
             now == req[h].now
  <1>1. /\ j \in Jti /\ now \in Nat /\ now <= clock /\ clock \in Nat
        /\ req \in [Handler -> Request]
    BY DEF IInv, TypeOK, SamplesPast, Request
  <1>2. Exp[j] \in Nat
    BY <1>1, LifetimeAssumption
  <1>3. purgeLocked(seen_, GuardOf(j), now)[j] = Exp[j]
    BY <1>1, PurgeRemembers
  <1>4. isReplay(purgeLocked(seen_, GuardOf(j), now), j, now)
    BY <1>1, <1>2, <1>3 DEF isReplay
  <1>5. ~Accept(h)
    BY <1>4 DEF Accept
  <1>6. req[h].pc = "sampled" /\ req'[h].pc = "accepted" /\ j # NoJti
    BY DEF IsAccepted
  <1>7. ASSUME NEW k \in Handler, NEW c \in Code, VerifyCode(k, c) PROVE FALSE
    BY <1>1, <1>6, <1>7 DEF VerifyCode
  <1>8. ASSUME NEW k \in Handler, NEW c \in Assertion \cup {NoJti},
               VerifyAssertion(k, c)
        PROVE  FALSE
    BY <1>1, <1>6, <1>8 DEF VerifyAssertion
  <1>9. ASSUME NEW k \in Handler, SampleNow(k) PROVE FALSE
    BY <1>1, <1>6, <1>9 DEF SampleNow
  <1>10. ASSUME NEW k \in Handler, AcceptUnnamed(k) PROVE FALSE
    BY <1>1, <1>6, <1>10 DEF AcceptUnnamed
  <1>11. ASSUME NEW k \in Handler, Accept(k) PROVE FALSE
    BY <1>1, <1>5, <1>6, <1>11 DEF Accept
  <1>12. ASSUME NEW k \in Handler, RefuseReplay(k) PROVE FALSE
    BY <1>1, <1>6, <1>12 DEF RefuseReplay, Idle
  <1>13. ASSUME NEW k \in Handler, Finish(k) PROVE FALSE
    BY <1>1, <1>6, <1>13 DEF Finish, Idle
  <1>14. CASE Restart
    BY <1>6, <1>14 DEF Restart, Idle
  <1>15. CASE Tick \/ UNCHANGED vars
    BY <1>6, <1>15 DEF Tick, vars
  <1> QED BY <1>7, <1>8, <1>9, <1>10, <1>11, <1>12, <1>13, <1>14, <1>15 DEF Next

(* "An assertion is accepted at most once until its own expiry": for any     *)
(* number of concurrent requests and any interleaving, no guard accepts an   *)
(* unexpired credential a second time in the life of the process.            *)
THEOREM SingleUse == Spec => AcceptedOnceUntilExpiry
  <1>1. IInv /\ [Next]_vars =>
          [\A h \in Handler :
             IsAccepted(h) /\ clock < Exp[req[h].jti] => req[h].jti \notin used]_vars
    BY YesIsFresh
  <1> QED BY <1>1, InitIInv, NextIInv, PTL DEF Spec, AcceptedOnceUntilExpiry
=============================================================================
