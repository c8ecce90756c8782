SPECIFICATION LifeSpec
CONSTANTS
  alice = alice
  aliceKey = aliceKey
  namesake = namesake
  aliceKid = aliceKid
  otherKid = otherKid
  authz = authz
  http = http
  own = own
  None = None
  Root = Root
  Accounts = {alice}
  Authorizations = {authz}
  Challenges = {http}
  Requests = {r1, r2}
  CertRequests = {n1}
  Keys = {aliceKey, namesake}
  Kids = {aliceKid, otherKid}
  Kid <- MCKid
  KidOf <- MCKidOf
  AccountOf <- MCAccountOf
  AuthorizationOf <- MCAuthorizationOf
  TypeOf <- MCTypeOf
  Bodies <- MCBodies
  Posts <- MCPosts
  Served <- MCServed
  Unreliable = {}
  Engine = "mongodb"
  Version = "v1"
  DomainOf <- MCDomainOf
  Csrs = {own}
  DomainsOf <- MCDomainsOf
  Malformed = {}
  Modes = {TRUE}
  MaxFaults = 1
  MaxDeaths = 1
  MaxRestarts = 1
SYMMETRY Symmetry
INVARIANTS CertificateProved
PROPERTIES ValidationKept IssuanceKept
