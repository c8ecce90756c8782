------------------------------ MODULE MCOrders ------------------------------
(* One account; a domain in lower and in mixed case, and a name that is no   *)
(* domain. As a common name the mixed case is folded, as an alternative name *)
(* it is an authorization of its own.                                        *)
EXTENDS Orders, TLC

CONSTANTS lower, mixed, host

MCKidOf == [a \in Accounts |-> CHOOSE k \in Keys : TRUE]
MCLower == [n \in Names |-> IF n = mixed THEN lower ELSE n]

TwoCases == [common |-> {mixed}, alternative |-> {mixed, host}, malformed |-> FALSE]
OneCase == [common |-> {mixed}, alternative |-> {lower}, malformed |-> FALSE]
Nameless == [common |-> {host}, alternative |-> {}, malformed |-> FALSE]
Junk == [common |-> {}, alternative |-> {}, malformed |-> TRUE]

Symmetry == Permutations(Readers)

MCCsrs == {TwoCases, OneCase, Nameless, Junk}
=============================================================================
