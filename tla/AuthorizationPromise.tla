------------------------ MODULE AuthorizationPromise ------------------------
(* What validation promises, with nothing said of how: an authorization      *)
(* becomes valid only after an answer to one of its challenges, made with a  *)
(* key that may answer it, was accepted and this answer then found at the    *)
(* peer, in this order, and a valid authorization is valid for ever.         *)
CONSTANTS Authorizations, Challenges, AuthorizationOf,
          MayAnswer  \* the keys that may answer each challenge

VARIABLES
  authorizations,  \* status of each authorization
  answered,        \* the keys each challenge was answered with
  proved           \* those whose answer the peer served after that

promiseVars == <<authorizations, answered, proved>>

PromiseInit ==
  /\ authorizations = [a \in Authorizations |-> "pending"]
  /\ answered = [c \in Challenges |-> {}]
  /\ proved = [c \in Challenges |-> {}]

AnswerChallenge(c, k) ==
  /\ answered' = [answered EXCEPT ![c] = @ \cup {k}]
  /\ UNCHANGED <<authorizations, proved>>

Prove(c, k) ==
  /\ proved' = [proved EXCEPT ![c] = @ \cup {k}]
  /\ UNCHANGED <<authorizations, answered>>

Authorize(a) ==
  /\ \E c \in Challenges : AuthorizationOf[c] = a /\ proved[c] # {}
  /\ authorizations' = [authorizations EXCEPT ![a] = "valid"]
  /\ UNCHANGED <<answered, proved>>

PromiseNext ==
  \/ \E c \in Challenges : \E k \in MayAnswer[c] : AnswerChallenge(c, k)
  \/ \E c \in Challenges : \E k \in answered[c] : Prove(c, k)
  \/ \E a \in Authorizations : Authorize(a)

PromiseSpec == PromiseInit /\ [][PromiseNext]_promiseVars
=============================================================================
