SPECIFICATION Spec
CONSTANTS
  None = None
  Callers = {c1, c2, c3, c4}
  Ids = {i1, i2}
  Attributes <- MCAttributes
  Values = {"default", "new"}
  Default <- MCDefault
  Payloads <- MCPayloads
SYMMETRY Symmetry
CHECK_DEADLOCK FALSE
INVARIANTS TypeOK ResultIsCurrent OutcomeTellsEffect
PROPERTIES CollectionKept
