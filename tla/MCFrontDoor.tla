------------------------------ MODULE MCFrontDoor ------------------------------
(* FrontDoor for TLC: services, calls and setters are interchangeable.      *)
EXTENDS FrontDoor

Symmetry ==
  Permutations(Services) \cup Permutations(Calls) \cup Permutations(Setters)
=============================================================================
