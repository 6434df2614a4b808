----------------------------- MODULE MCTenantGate -----------------------------
(* Values of the constants of TenantGate for TLC.                            *)
EXTENDS TenantGate, TLC

MCSymmetry == Permutations(Handler) \cup Permutations(Tenant)
===============================================================================
