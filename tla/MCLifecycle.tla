---------------------------- MODULE MCLifecycle -----------------------------
(* Lifecycle for TLC: one account, one authorization with one challenge,     *)
(* which either of two keys that have the kid of the account may answer and  *)
(* whose peer serves the answer of one of them, and whose CSR names its      *)
(* domain. A CSR may come signed with another kid.                           *)
EXTENDS Lifecycle, TLC

CONSTANTS alice, aliceKey, namesake, aliceKid, otherKid, authz, http, own

MCKid == aliceKey :> aliceKid @@ namesake :> aliceKid
MCKidOf == alice :> aliceKid
MCAccountOf == authz :> alice
MCAuthorizationOf == http :> authz
MCTypeOf == http :> "http-01"
MCDomainOf == authz :> "example.com"
MCDomainsOf == own :> {"example.com"}

MCBodies ==
  {[token |-> None, type |-> None, keyAuthorization |-> <<http, k>>] : k \in Keys}
MCPosts ==
  {[challenge |-> http, key |-> b.keyAuthorization[2], body |-> b] : b \in MCBodies}
MCServed == http :> {<<http, namesake>>}

Symmetry == Permutations(Requests)
=============================================================================
