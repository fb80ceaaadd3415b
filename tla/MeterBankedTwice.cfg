CONSTANTS
  Pollers = {p1, p2}
  Requests = {}
  MaxTime = 2
SPECIFICATION Spec
INVARIANTS BankedWithinElapsed
CHECK_DEADLOCK FALSE
