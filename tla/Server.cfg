CONSTANTS
  Workers = {w1, w2}
  Services = {svc}
  Calls = {r1, r2, r3}
  Reserve = 1
  Svc = svc
  Serve = serve
  Nothing = nothing
SPECIFICATION FairServerSpec
INVARIANTS ServerTypeOK RestIsDone
PROPERTIES QueuedStarts
