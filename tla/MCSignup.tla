------------------------------ MODULE MCSignup ------------------------------
(* Registrations that compete for slugs and addresses, with their jobs. *)
EXTENDS TenantSignup, TLC

MCSymmetry == Permutations(Tenants) \cup Permutations(Emails) \cup Permutations(Slugs)
=============================================================================
