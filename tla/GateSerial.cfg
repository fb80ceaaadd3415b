CONSTANTS
  Workers = {w1, w2, w3}
  Services = {s1, s2, s3}
  Calls = {c1, c2}
  Reserve = 1
SPECIFICATION PromptSpec
PROPERTY ImplementsIdeal
