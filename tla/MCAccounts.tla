----------------------------- MODULE MCAccounts -----------------------------
(* Three requests with two keys: new accounts, also without a key or for an  *)
(* account that exists only, and updates that write, deactivate, or do both. *)
EXTENDS Accounts, TLC

CONSTANTS k1, k2, c1, c2

New(k, byKid, contact, onlyExisting) ==
  [kind |-> "new", key |-> k, byKid |-> byKid, contact |-> contact, flag |-> onlyExisting]

Update(k, byKid, contact, deactivated) ==
  [kind |-> "update", key |-> k, byKid |-> byKid, contact |-> contact, flag |-> deactivated]

MCInputs ==
  {New(k1, FALSE, c1, FALSE), New(k1, TRUE, None, FALSE), New(k1, FALSE, None, TRUE),
   New(None, FALSE, None, FALSE), New(k2, FALSE, None, FALSE),
   Update(k1, FALSE, c2, FALSE), Update(k1, FALSE, c2, TRUE), Update(k1, TRUE, None, TRUE),
   Update(k2, FALSE, c1, FALSE), Update(None, FALSE, c1, FALSE)}

Symmetry == Permutations(Requests)
=============================================================================
