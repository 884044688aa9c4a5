----------------------------- MODULE MCListers -----------------------------
(***************************************************************************)
(* Listers for TLC: the tenant "system" and two others, so that a key     *)
(* without tenant and the keys of two tenants exist; two namespaces and    *)
(* two names, so that Get has to tell them apart; two label values, so     *)
(* that a selector accepts an object or not; three objects, so that an     *)
(* indexer holds the same name for three tenants.                          *)
(***************************************************************************)
EXTENDS Listers

ThreeTenants == {TenantSystem, "t1", "t2"}
TwoNamespaces == {"n1", "n2"}
TwoNames == {"a", "b"}
TwoLabels == {"x", "y"}

=============================================================================
