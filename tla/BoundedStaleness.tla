--------------------------- MODULE BoundedStaleness ---------------------------
(***************************************************************************)
(* What a cached yes-or-no question promises.  The truth is a switch that  *)
(* somebody else turns; a reader asks for it and is told a position it had *)
(* at a moment that lies less than Lag before the reader asked, or later,  *)
(* or that the position is not known.  No cache, lookup or failure is      *)
(* visible here.                                                           *)
(***************************************************************************)
EXTENDS Integers

CONSTANTS
  Reader,
  Switch,
  Lag,    \* Lag[v]: how old the news of the position v may be
  NoName  \* no switch

VARIABLES
  now,
  on,       \* on[s]: the position of s
  turned,   \* turned[s]: when it was last turned
  read      \* read[r]: what r has asked and been told

vars == <<now, on, turned, read>>

Silent == [is |-> "silent", of |-> NoName, at |-> 0]

Init ==
  /\ now = 0
  /\ on \in [Switch -> BOOLEAN]
  /\ turned = [s \in Switch |-> 0]
  /\ read = [r \in Reader |-> Silent]

Turn(s) ==
  /\ on' = [on EXCEPT ![s] = ~@]
  /\ turned' = [turned EXCEPT ![s] = now]
  /\ UNCHANGED <<now, read>>

Ask(r, s) ==
  /\ read[r].is = "silent"
  /\ read' = [read EXCEPT ![r] = [is |-> "asked", of |-> s, at |-> now]]
  /\ UNCHANGED <<now, on, turned>>

\* s was in position v less than Lag[v] before the time a, or after it.
Held(s, v, a) == on[s] = v \/ a < turned[s] + Lag[v]

Told == {"on", "off", "unknown"}

Answer(r, told) ==
  /\ read[r].is = "asked"
  /\ told = "on" => Held(read[r].of, TRUE, read[r].at)
  /\ told = "off" => Held(read[r].of, FALSE, read[r].at)
  /\ read' = [read EXCEPT ![r].is = told]
  /\ UNCHANGED <<now, on, turned>>

\* Readers take their answers, or are gone before they have one.
Leave(R) ==
  /\ read' = [r \in Reader |-> IF r \in R THEN Silent ELSE read[r]]
  /\ UNCHANGED <<now, on, turned>>

Pass ==
  /\ now' = now + 1
  /\ UNCHANGED <<on, turned, read>>

Next ==
  \/ \E s \in Switch : Turn(s)
  \/ \E r \in Reader, s \in Switch : Ask(r, s)
  \/ \E r \in Reader, told \in Told : Answer(r, told)
  \/ \E R \in SUBSET Reader : Leave(R)
  \/ Pass

Spec == Init /\ [][Next]_vars
===============================================================================
