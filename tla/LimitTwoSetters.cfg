CONSTANTS
  Services = {s1, s2, s3}
  Calls = {c1, c2}
  Setters = {t1, t2}
  Limits = {0, 1, 2}
  MaxPermits = 2
SPECIFICATION Spec
SYMMETRY Symmetry
INVARIANTS TypeOK Conservation WithinCeilingPerSetter
