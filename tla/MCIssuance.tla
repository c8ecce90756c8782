----------------------------- MODULE MCIssuance -----------------------------
(* Issuance for TLC: an account with an authorization, another with none;    *)
(* two CSRs for its domain with different keys, one for two domains and one  *)
(* that does not parse.                                                      *)
EXTENDS Issuance, TLC

CONSTANTS alice, bob, aliceKey, bobKey, aliceAuthz, csr1, csr2, wide, junk

MCKidOf == alice :> aliceKey @@ bob :> bobKey
MCDomainsOf ==
  csr1 :> {"example.com"} @@ csr2 :> {"example.com"} @@
  wide :> {"example.com", "www.example.com"} @@ junk :> {}

MCOneAccountOf == aliceAuthz :> alice
MCOneDomainOf == aliceAuthz :> "example.com"
=============================================================================
