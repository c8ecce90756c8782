---------------------------- MODULE Certification ----------------------------
(* What new-cert, renew and the polls promise together, with nothing said of *)
(* requests, answer codes and workers. An account files a CSR with a valid   *)
(* authorization, a certificate is ordered for that authorization, and is    *)
(* drafted from the CSR filed at that time or later. Whoever is told of it   *)
(* is told what is on record, and a draft once begun may be lost.            *)
CONSTANTS
  Authorizations, Requests,
  KeyOf,  \* the key of the account that owns an authorization
  Fits    \* the pairs of an authorization and a CSR for exactly its domain

VARIABLES
  sent,       \* the pairs of a key and a CSR that came signed by it
  valid,      \* the authorizations that are valid
  filed,      \* the CSR filed with each authorization: a set of at most one
  orderedFor, \* the authorization each certificate is ordered for, likewise
  draft, pem, \* the CSR it is being made of, and the one it was made of
  told,       \* the certificate each client was told of, with its pem
  repeated    \* whether work that is done may be done again

certificationVars == <<sent, valid, filed, orderedFor, draft, pem, told, repeated>>

Nothing == [r \in Requests |-> {}]

CertificationInit ==
  /\ sent = {} /\ valid = {} /\ repeated = FALSE
  /\ filed = [a \in Authorizations |-> {}]
  /\ orderedFor = Nothing /\ draft = Nothing /\ pem = Nothing /\ told = Nothing

Send ==
  /\ \E message \in sent' : sent' = sent \cup {message}
  /\ UNCHANGED <<valid, filed, orderedFor, draft, pem, told, repeated>>

Authorize ==
  /\ \E a \in valid' : valid' = valid \cup {a}
  /\ UNCHANGED <<sent, filed, orderedFor, draft, pem, told, repeated>>

File(a) ==
  /\ a \in valid
  /\ \E message \in sent :
       /\ message[1] = KeyOf[a] /\ <<a, message[2]>> \in Fits
       /\ filed' = [filed EXCEPT ![a] = {message[2]}]
  /\ UNCHANGED <<sent, valid, orderedFor, draft, pem, told, repeated>>

Order(c) ==
  /\ orderedFor[c] = {}
  /\ \E a \in valid : filed[a] # {} /\ orderedFor' = [orderedFor EXCEPT ![c] = {a}]
  /\ UNCHANGED <<sent, valid, filed, draft, pem, told, repeated>>

(* What its owner has been told is not made again.                           *)
Draft(c) ==
  /\ told[c] = {} /\ (pem[c] # {} => repeated)
  /\ \E a \in orderedFor[c] : draft' = [draft EXCEPT ![c] = filed[a]]
  /\ UNCHANGED <<sent, valid, filed, orderedFor, pem, told, repeated>>

Issue(c) ==
  /\ draft[c] # {}
  /\ pem' = [pem EXCEPT ![c] = draft[c]]
  /\ draft' = [draft EXCEPT ![c] = {}]
  /\ UNCHANGED <<sent, valid, filed, orderedFor, told, repeated>>

(* Drafts are lost with the processes that make them; unless it was the      *)
(* server's, they are made again, even those that have been issued.          *)
Lose ==
  /\ \A c \in Requests : draft'[c] \in {draft[c], {}}
  /\ repeated => repeated'
  /\ UNCHANGED <<sent, valid, filed, orderedFor, pem, told>>

(* Whoever has ordered a certificate is told of that one, when no work on it *)
(* is left; others may be told of any.                                       *)
Tell(r, c) ==
  /\ told[r] = {}
  /\ orderedFor[r] # {} => r = c /\ draft[c] = {}
  /\ \E csr \in pem[c] : told' = [told EXCEPT ![r] = {<<c, csr>>}]
  /\ UNCHANGED <<sent, valid, filed, orderedFor, draft, pem, repeated>>

CertificationNext ==
  \/ Send \/ Authorize \/ Lose
  \/ \E a \in Authorizations : File(a)
  \/ \E c \in Requests : Order(c) \/ Draft(c) \/ Issue(c) \/ \E r \in Requests : Tell(r, c)

CertificationSpec == CertificationInit /\ [][CertificationNext]_certificationVars
=============================================================================
