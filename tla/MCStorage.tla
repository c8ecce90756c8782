----------------------------- MODULE MCStorage ------------------------------
(* Two attributes that are declared and one that is not.                     *)
EXTENDS Storage, TLC

MCAttributes == {"status", "csr"}
MCDefault == [a \in MCAttributes |-> "default"]

MCPayloads ==
  { "status" :> "new", "csr" :> "new", "csr" :> "default",
    "status" :> "new" @@ "processing" :> "new", "processing" :> "new" }

Symmetry == Permutations(Callers) \cup Permutations(Ids)
=============================================================================
