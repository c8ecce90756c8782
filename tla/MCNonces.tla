------------------------------ MODULE MCNonces ------------------------------
(* Instances of Nonces for TLC: a nonce with two spellings, two others and a *)
(* malformed one.                                                            *)
EXTENDS Nonces, TLC

CONSTANTS n1, n1b, n2, n3, bad, r1, r2, r3, r4

Symmetry == Permutations(Requests)

MCValueOf == n1 :> n1 @@ n1b :> n1 @@ n2 :> n2 @@ bad :> bad
PlainValueOf == n1 :> n1 @@ n2 :> n2 @@ n3 :> n3

TwoGiven == [size |-> 2, isNumber |-> TRUE]
ThreeFromEnvironment == [size |-> 3, isNumber |-> FALSE]
=============================================================================
