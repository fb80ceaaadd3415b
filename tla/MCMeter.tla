-------------------------------- MODULE MCMeter --------------------------------
(* TenantMeter for TLC: pollers and requests are interchangeable.           *)
EXTENDS TenantMeter, TLC

Symmetry == Permutations(Pollers) \cup Permutations(Requests)
=============================================================================
