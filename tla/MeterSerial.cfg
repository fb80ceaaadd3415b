CONSTANTS
  Pollers = {p1}
  Requests = {r1, r2, r3}
  MaxTime = 4
SPECIFICATION SerialSpec
INVARIANTS DrawingDoesNotChangeBill BillWithinPresence LoneTimeIsOwed BankedWithinElapsed
PROPERTIES ImplementsIdeal
CHECK_DEADLOCK FALSE
