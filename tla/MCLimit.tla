-------------------------------- MODULE MCLimit --------------------------------
(* ConcurrencyLimit for TLC: services, calls and setters are interchangeable. *)
EXTENDS ConcurrencyLimit

Symmetry ==
  Permutations(Services) \cup Permutations(Calls) \cup Permutations(Setters)
=============================================================================
