SPECIFICATION FairSpec
CONSTANTS
  alice = alice
  bob = bob
  aliceKey = aliceKey
  bobKey = bobKey
  aliceAuthz = aliceAuthz
  csr1 = csr1
  csr2 = csr2
  wide = wide
  junk = junk
  None = None
  Root = Root
  Accounts = {alice, bob}
  Authorizations = {aliceAuthz}
  Requests = {r1, r2}
  Keys = {aliceKey, bobKey}
  KidOf <- MCKidOf
  AccountOf <- MCOneAccountOf
  DomainOf <- MCOneDomainOf
  Csrs = {csr1, csr2, wide, junk}
  DomainsOf <- MCDomainsOf
  Malformed = {junk}
  Modes = {TRUE, FALSE}
  MaxDeaths = 1
  MaxRestarts = 1
INVARIANTS CertificateEarned OwnCsrUnlessRival HandedOutIsRecorded SyncAnswerSigned NeverForgotten
PROPERTIES CertificationKept AnsweredEventually AcceptedIsSigned
