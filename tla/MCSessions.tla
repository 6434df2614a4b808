------------------------------ MODULE MCSessions ------------------------------
(* Sessions for TLC: every constant is given by the configurations.           *)
EXTENDS Sessions
===============================================================================
