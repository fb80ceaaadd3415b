CONSTANTS
  Workers = {w1, w2, w3}
  Services = {s1, s2}
  Calls = {c1, c2}
  Reserve = 1
SPECIFICATION FairSpec
INVARIANTS TypeOK GateConservation ClaimsWithinSpare RestOffersSpare
PROPERTY IdleGateAdmits
