SPECIFICATION Spec
CONSTANTS
  None = None
  k1 = k1
  k2 = k2
  c1 = c1
  c2 = c2
  Requests = {r1, r2, r3}
  Keys = {k1, k2}
  Contacts = {c1, c2}
  Inputs <- MCInputs
  Persistent = TRUE
  MaxRestarts = 1
SYMMETRY Symmetry
INVARIANTS TypeOK OneAccountPerKey KnownKeyIsVerified
PROPERTIES StaysDeactivated DeactivatedIsFrozen
