CONSTANTS
  Services = {s1, s2, s3}
  Calls = {c1, c2}
  Setters = {cc}
  Controller = cc
  Limits = {0, 1, 2, 3, 4}
  MaxPermits = 4
  MaxLoad = 4
  Target = 3
  Samples = {0, 3, 4}
  Whole = 4
  Smoothing = 2
  Decrease = 2
  Increase = 2
  Distance = 1
  Refractory = 1
  MinLimit = 0
  MaxLimit = 4
SPECIFICATION FairControllerSpec
INVARIANTS ControllerTypeOK WithinHighestCeiling
PROPERTIES RaisesOnlyInUse WaitersAdvance OverloadIsRelieved ZeroIsLeft
