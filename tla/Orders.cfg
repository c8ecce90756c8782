SPECIFICATION Spec
CONSTANTS
  None = None
  Accounts = {alice}
  Keys = {aliceKey}
  KidOf <- MCKidOf
  Creators = {c1}
  Readers = {g1, g2}
  lower = lower
  mixed = mixed
  host = host
  Names = {lower, mixed, host}
  DomainNames = {lower, mixed}
  Lower <- MCLower
  Csrs <- MCCsrs
  MaxFailures = 1
  MaxRestarts = 1
SYMMETRY Symmetry
CHECK_DEADLOCK FALSE
INVARIANTS TypeOK AnswersAreWhole ParentsFirst ListedIsReadable LateIsRefused NeverStuck
PROPERTIES ShownIsKept
