CONSTANTS
  a1 = a1
  a2 = a2
  z1 = z1
  z2 = z2
  c1 = c1
  c2 = c2
  c3 = c3
  k1 = k1
  k2 = k2
  k3 = k3
  d1 = d1
  d2 = d2
  r1 = r1
  r2 = r2
  r3 = r3
  Other = Other
  None = None
  Accounts = {a1, a2}
  Authorizations = {z1, z2}
  Challenges = {c1, c2, c3}
  Requests = {r1, r2}
  Keys = {k1, k2, k3}
  Kids = {d1, d2}
  Kid <- MCKid
  KidOf <- MCKidOf
  AccountOf <- MCAccountOf
  AuthorizationOf <- MCAuthorizationOf
  TypeOf <- MCTypeOf
  Bodies <- AllBodies
  Posts <- AllPosts
  Served <- AnyServed
  Unreliable = {c1, c2}
  Engine = "internaldb"
  Version = "v2"
  MaxFaults = 0
SYMMETRY Symmetry
SPECIFICATION Spec
INVARIANTS
  AuthorizationEarned
  NoLateVerification
