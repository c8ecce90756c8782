----------------------- MODULE MCChallengeValidation -----------------------
(* Instances of ChallengeValidation for TLC: the authorization of one        *)
(* account with the two challenges AuthorizationService.create gives it, and *)
(* an authorization of a second account. Of the three keys, two have one     *)
(* kid.                                                                      *)
EXTENDS ChallengeValidation, TLC

CONSTANTS a1, a2, z1, z2, c1, c2, c3, k1, k2, k3, d1, d2, r1, r2, r3, Other

Symmetry == Permutations(Requests)

MCKid == k1 :> d1 @@ k2 :> d2 @@ k3 :> d1
MCKidOf == a1 :> d1 @@ a2 :> d2
MCAccountOf == z1 :> a1 @@ z2 :> a2
MCAuthorizationOf == c1 :> z1 @@ c2 :> z1 @@ c3 :> z2
MCTypeOf == c1 :> "http-01" @@ c2 :> "tls-sni-01" @@ c3 :> "http-01"

(* One account with one authorization.                                       *)
OneKid == k1 :> d1 @@ k3 :> d1
OneKidOf == a1 :> d1
OneAccountOf == z1 :> a1
OneAuthorizationOf == c1 :> z1 @@ c2 :> z1
OneTypeOf == c1 :> "http-01" @@ c2 :> "tls-sni-01"

Body(token, type, keyAuthorization) ==
  [token |-> token, type |-> type, keyAuthorization |-> keyAuthorization]

(* Right for c1 in every attribute, right for c2 and c3 with the optional    *)
(* attributes left out, and each way of being wrong for c1.                  *)
AllBodies ==
  {Body(c1, "http-01", <<c1, k1>>),
   Body(None, None, <<c2, k1>>),
   Body(None, None, <<c3, k2>>),
   Body(c2, "http-01", <<c1, k1>>),
   Body(c1, "tls-sni-01", <<c1, k1>>),
   Body(c1, "http-01", <<c1, k2>>),
   Body(None, None, <<c1, k3>>)}

(* Every body for every challenge, with every key and without one.           *)
AllPosts ==
  [challenge : Challenges \cup {None}, key : Keys \cup {None}, body : AllBodies]

(* One right message for each key and challenge, and for no challenge.       *)
OwnPost(c, k) == [challenge |-> c, key |-> k, body |-> Body(None, None, <<c, k>>)]
OwnPosts ==
  {OwnPost(c, k) : c \in {c1, c2}, k \in {k1}} \cup
  {OwnPost(c1, k3), [OwnPost(c1, k1) EXCEPT !.challenge = None]}
OwnBodies == {m.body : m \in OwnPosts}

(* The peers serve the answer of any key, or something else.                 *)
AnyServed == [c \in Challenges |-> (Challenges \X Keys) \cup {Other}]
OwnServed == [c \in Challenges |-> {<<c, k1>>, Other}]

(* The peer of c1 is set up as it should be.                                 *)
ReliableServed == [c \in Challenges |-> IF c = c1 THEN {<<c1, k1>>} ELSE {<<c, k1>>, Other}]
=============================================================================
