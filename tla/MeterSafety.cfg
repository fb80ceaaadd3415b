CONSTANTS
  Pollers = {p1}
  Requests = {r1, r2}
  MaxTime = 1
SPECIFICATION Spec
SYMMETRY Symmetry
INVARIANTS TypeOK BilledWithinMeasured LedgerIsAttributed InflightIsMembers
CHECK_DEADLOCK FALSE
