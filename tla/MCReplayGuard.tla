---------------------------- MODULE MCReplayGuard ----------------------------
(* Values of the constants of ReplayGuard for TLC.                          *)
EXTENDS ReplayGuard, TLC

CONSTANTS ShortLived, ShortExp, LongExp

\* Credentials of two lifetimes, so that one can outlive another's record.
MCExp == [j \in Jti \cup {NoJti} |-> IF j \in ShortLived THEN ShortExp ELSE LongExp]

MCSymmetry == Permutations(Handler)
==============================================================================
