CONSTANTS
  Services = {s1, s2}
  Calls = {c1}
  Setters = {t1}
  Limits = {0, 1, 2}
  MaxPermits = 2
  Tenants = {alice}
  Scale = 2
  Shares = {1, 3, nan}
  NaN = nan
  MaxCalls = 3
SPECIFICATION DoorSpec
SYMMETRY Symmetry
INVARIANTS DoorTypeOK ReadyIsCurrent RefusedIsShareOfRun NeverOverRefused
PROPERTY ShedsOnlyTurnedAway
