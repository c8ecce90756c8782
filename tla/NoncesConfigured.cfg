CONSTANTS
  n1 = n1
  n1b = n1b
  n2 = n2
  n3 = n3
  bad = bad
  r1 = r1
  r2 = r2
  r3 = r3
  r4 = r4
  None = None
  Requests = {r1, r2, r3, r4}
  Spellings = {n1, n2, n3}
  ValueOf <- PlainValueOf
  WellFormed = {n1, n2, n3}
  Configured <- ThreeFromEnvironment
  DefaultSize = 2
SYMMETRY Symmetry
SPECIFICATION Spec
INVARIANT NoReplayInConfiguredWindow
