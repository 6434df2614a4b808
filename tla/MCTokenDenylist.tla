--------------------------- MODULE MCTokenDenylist ---------------------------
(* Values of the constants of TokenDenylist for TLC.                        *)
EXTENDS TokenDenylist, TLC

CONSTANT TokenExp  \* the exp of every session token

\* The empty jti stands for a short-lived ticket.
MCExp == [j \in Jti \cup {NoJti} |-> IF j = NoJti THEN 1 ELSE TokenExp]

MCSymmetry ==
  Permutations(Handler) \cup Permutations(Instance) \cup Permutations(Jti)
==============================================================================
