--------------------------- MODULE MCProvisioning ---------------------------
(* The provisioning job on a few tenants and workers. *)
EXTENDS TenantProvisioning, TLC

MCSymmetry == Permutations(Tenants) \cup Permutations(Workers) \cup Permutations(Emails)
=============================================================================
