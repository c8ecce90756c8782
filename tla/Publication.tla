----------------------------- MODULE Publication -----------------------------
(* What new-order and new-authz promise their clients, with nothing said of  *)
(* the calls and promises it takes: the tree of records that a creation is   *)
(* asked for comes into being at once or not at all, and whoever reads a     *)
(* part of it reads what was asked for. A tree is a function from its ids to *)
(* the ids right below.                                                      *)
CONSTANTS Creators, Readers

VARIABLES
  due,   \* the tree that each creation is to make, if there is one
  tree,  \* the tree that it has made, if it has
  told   \* the id each client was answered with and the ids below, if it was

publicationVars == <<due, tree, told>>

PublicationInit ==
  /\ due = [c \in Creators |-> {}]
  /\ tree = [c \in Creators |-> {}]
  /\ told = [q \in Creators \cup Readers |-> {}]

Accept(c) ==
  /\ due[c] = {}
  /\ \E t \in due'[c] : due' = [due EXCEPT ![c] = {t}]
  /\ UNCHANGED <<tree, told>>

Publish(c) ==
  /\ due[c] # {} /\ tree[c] = {}
  /\ tree' = [tree EXCEPT ![c] = due[c]]
  /\ UNCHANGED <<due, told>>

IsRoot(id, t) == \A parent \in DOMAIN t : id \notin t[parent]

(* The client that asked for a tree is answered with its root, and whoever   *)
(* reads with any part of it.                                                *)
Answer(q, c) ==
  /\ told[q] = {}
  /\ \E t \in tree[c] : \E id \in DOMAIN t :
       /\ q \in Creators => q = c /\ IsRoot(id, t)
       /\ told' = [told EXCEPT ![q] = {<<id, t[id]>>}]
  /\ UNCHANGED <<due, tree>>

(* All trees are lost with the internal database, made or not.               *)
Lose ==
  /\ due' = [c \in Creators |-> {}]
  /\ tree' = [c \in Creators |-> {}]
  /\ UNCHANGED told

PublicationNext ==
  \/ \E c \in Creators : Accept(c) \/ Publish(c)
  \/ \E q \in Creators \cup Readers, c \in Creators : Answer(q, c)
  \/ Lose

PublicationSpec == PublicationInit /\ [][PublicationNext]_publicationVars
=============================================================================
