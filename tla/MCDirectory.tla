------------------------------ MODULE MCDirectory ------------------------------
(* Values of the constants of Directory for TLC.                             *)
EXTENDS Directory

InTenants(tenant) ==
  {"ou=tenants", "root"} \cup (IF tenant = "default" THEN {DefaultTenantBase} ELSE {})

\* An ordinary group of a tenant; one of the default tenant that only the third
\* search finds, spelled with a capital and with a deployment name besides its
\* cn; and one outside the tenants' subtree.
MCGroup ==
  {[under |-> InTenants("acme"), tenant |-> "acme", class |-> "groupOfNames",
    attr |-> "member", cn |-> "administrators", names |-> {"administrators"}],
   [under |-> InTenants("default"), tenant |-> "default", class |-> "other",
    attr |-> "memberUid", cn |-> "Erasure_admins", names |-> {"Erasure_admins", "system_ops"}],
   [under |-> {"root"}, tenant |-> "none", class |-> "groupOfNames",
    attr |-> "member", cn |-> "operators", names |-> {"operators"}]}

MCDeployment == {"system_ops"}

MCLower ==
  [n \in {"administrators", "Erasure_admins", "system_ops", "operators"} |->
     IF n = "Erasure_admins" THEN "erasure_admins" ELSE n]
================================================================================
