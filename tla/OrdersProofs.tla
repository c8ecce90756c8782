---------------------------- MODULE OrdersProofs ----------------------------
(* Proofs about Orders, for any accounts, names, CSRs and requests, in both  *)
(* versions, on both engines, and for any number of failures and restarts.   *)
EXTENDS Orders, TLAPS

-----------------------------------------------------------------------------
(* The inductive invariant.                                                  *)
Settled == {"list", "answered", "lost"}
Joined == Settled \cup {"join"}

(* An authorization and its challenges have been created.                    *)
Whole(a) == job[a] \in {"wait", "lost"} /\ \A c \in ChallengesOf(a) : job[c] = "done"

(* What id names has been created with all that belongs to it.               *)
Finished(id) ==
  \/ /\ id \in Creators /\ server.version = "v2"
     /\ request[id].pc \in Settled /\ request[id].account \in Accounts
     /\ Wiped \/ orders[id] = FilledOrder(id)
     /\ \A n \in Wanted(id) : Whole(<<id, n>>)
  \/ id \in AuthorizationIds /\ Whole(id)
  \/ id \in ChallengeIds /\ Whole(AuthorizationOf(id))

(* What a creation makes.                                                    *)
Made(r) == IF server.version = "v2" THEN r ELSE <<r, request[r].wanted>>

(* The internal database has been lost with all promises, and the accounts   *)
(* without which nothing can be created again, or nothing has been lost.     *)
Loss ==
  IF Wiped
  THEN /\ \A a \in Accounts : accounts[a] = "none"
       /\ \A r \in Creators : orders[r] = NoOrder
       /\ \A a \in AuthorizationIds : authorizations[a] = NoAuthorization
       /\ \A c \in ChallengeIds : challenges[c] = NoChallenge
       /\ \A j \in Jobs : job[j] \in {"none", "done", "failed", "lost"}
  ELSE \A a \in Accounts : accounts[a] # "none"

(* An authorization is created for a request that wants it and waits.        *)
Authorizing(a) ==
  LET r == a[1] IN
  /\ job[a] \in {"none", "create", "update", "wait", "failed", "lost"}
  /\ job[a] # "none" =>
       /\ a[2] \in Wanted(r)
       /\ request[r].pc \in Joined /\ request[r].account \in Accounts
       /\ server.version = "v2" => Wiped \/ orders[r] = FilledOrder(r)
  /\ job[a] \in {"none", "create"} => authorizations[a] = NoAuthorization
  /\ job[a] = "update" => authorizations[a] = BareAuthorization
  /\ job[a] = "wait" => authorizations[a] = FilledAuthorization(a)
  /\ authorizations[a] \in {NoAuthorization, BareAuthorization, FilledAuthorization(a)}

(* A challenge is created when its authorization has its attributes.         *)
Challenging(c) ==
  LET a == AuthorizationOf(c) IN
  /\ job[c] \in {"none", "create", "update", "done", "failed", "lost"}
  /\ job[c] # "none" =>
       job[a] \in {"wait", "lost"} /\ (Wiped \/ authorizations[a] = FilledAuthorization(a))
  /\ job[c] \in {"create", "update"} => job[a] = "wait"
  /\ job[c] \in {"none", "create"} => challenges[c] = NoChallenge
  /\ job[c] = "update" => challenges[c] = BareChallenge
  /\ job[c] = "done" => Wiped \/ challenges[c] = FilledChallenge(c)
  /\ challenges[c] \in {NoChallenge, BareChallenge, FilledChallenge(c)}

(* How far a request is that creates.                                        *)
Creates(r) ==
  LET q == request[r] IN
  /\ q.pc \in {"idle", "find", "create", "fill", "join", "list", "answered", "lost"}
  /\ q.pc = "idle" => q = Idle
  /\ q.pc # "idle" =>
       /\ q.kind = "new"
       /\ q.wanted \in IF server.version = "v2" THEN Csrs \cup {None} ELSE Names
  /\ q.pc \in {"idle", "find"} => q.account = None
  /\ q.pc \in {"idle", "find", "create"} => orders[r] = NoOrder
  /\ q.pc = "fill" => orders[r] = BareOrder
  /\ q.pc \in {"create", "fill"} => server.version = "v2"
  /\ q.pc \in {"create", "fill", "join", "list"} => ~Wiped /\ q.account \in Accounts
  /\ q.pc \in {"join", "list"} /\ server.version = "v2" => orders[r] = FilledOrder(r)
  /\ q.pc = "list" => q.target = Made(r) /\ Finished(Made(r))
  /\ orders[r] \in {NoOrder, BareOrder, FilledOrder(r)}
  /\ orders[r].stored # "none" => q.account \in Accounts
  /\ q.account # None => q.wanted # None /\ ~q.late
  /\ q.late => \A a \in Accounts : KidOf[a] = q.key => accounts[a] # "valid"

TargetOf(kind) ==
  IF kind = "order" THEN Creators
  ELSE IF kind = "authorization" THEN AuthorizationIds ELSE ChallengeIds

Root(id) == IF id \in Creators THEN id ELSE id[1]

(* How far a request is that reads.                                          *)
Reads(r) ==
  LET q == request[r] IN
  /\ q.pc \in Getting \cup {"idle", "list", "again", "answered", "lost"}
  /\ q.pc = "idle" => q = Idle
  /\ q.pc # "idle" => q.kind \in {"order", "orders", "authorization", "challenge"}
  /\ q.pc # "idle" /\ q.kind # "orders" /\ q.target # None =>
       /\ q.target \in TargetOf(q.kind) /\ Finished(q.target)
       /\ q.late => accounts[Owner(q.target)] # "valid"
  /\ q.pc = "challenge" => q.kind = "challenge"
  /\ q.pc = "authorization" =>
       \/ q.target = None /\ q.authorization = None /\ q.kind = "authorization"
       \/ /\ q.target # None /\ q.kind \in {"authorization", "challenge"}
          /\ q.authorization =
               IF q.kind = "challenge" THEN AuthorizationOf(q.target) ELSE q.target
  /\ q.pc = "order" =>
       \/ q.target = None /\ q.order = None /\ q.kind = "order"
       \/ /\ q.target # None /\ q.kind # "orders"
          /\ q.order = Root(q.target) /\ server.version = "v2"
  /\ q.pc = "owner" =>
       \/ q.kind = "orders" /\ q.account = None
       \/ q.target # None /\ q.kind # "orders" /\ q.account = Owner(q.target)
  /\ q.pc \in {"list", "again"} =>
       /\ ~Wiped /\ ~q.late /\ q.target # None
       /\ q.kind \in IF q.pc = "list" THEN {"order", "authorization"} ELSE {"challenge"}
  /\ q.pc = "answered" /\ ~q.failed /\ ~Wiped /\ q.kind # "orders" /\ q.target # None =>
       \/ q.code = 200
       \/ q.code = 403 /\ accounts[Owner(q.target)] = "deactivated"

(* What an answer has told.                                                  *)
Told(r) ==
  LET q == request[r] IN
  /\ ~Succeeded(r) => q.location = None /\ q.body = {}
  /\ Succeeded(r) =>
       /\ ~q.late /\ q.target # None /\ Finished(q.target)
       /\ q.location = q.target /\ q.body = Kids(q.target)

IInv ==
  /\ TypeOK
  /\ Loss
  /\ \A a \in AuthorizationIds : Authorizing(a)
  /\ \A c \in ChallengeIds : Challenging(c)
  /\ \A r \in Creators : Creates(r)
  /\ \A r \in Readers : Reads(r)
  /\ \A r \in Requests : Told(r)

-----------------------------------------------------------------------------
(* Ids.                                                                      *)
LEMMA AuthorizationParts ==
  ASSUME NEW a \in AuthorizationIds
  PROVE  /\ a[1] \in Creators /\ a[2] \in Names /\ a = <<a[1], a[2]>>
         /\ a \in Jobs /\ a \in Ids /\ a # None /\ a \notin Creators
         /\ ChallengesOf(a) \subseteq ChallengeIds
         /\ \A c \in ChallengesOf(a) : AuthorizationOf(c) = a
BY OrdersAssumption
   DEF AuthorizationIds, ChallengeIds, ChallengesOf, AuthorizationOf, Jobs, Ids

LEMMA ChallengeParts ==
  ASSUME NEW c \in ChallengeIds
  PROVE  /\ c[1] \in Creators /\ AuthorizationOf(c) \in AuthorizationIds
         /\ c \in ChallengesOf(AuthorizationOf(c)) /\ AuthorizationOf(c)[1] = c[1]
         /\ c \in Jobs /\ c \in Ids /\ c # None /\ c \notin Creators
BY OrdersAssumption
   DEF AuthorizationIds, ChallengeIds, ChallengesOf, AuthorizationOf, Jobs, Ids

LEMMA IdsDiffer == AuthorizationIds \cap ChallengeIds = {}
<1>. SUFFICES ASSUME NEW a \in AuthorizationIds, NEW c \in ChallengeIds, a = c PROVE FALSE
  OBVIOUS
<1>1. DOMAIN a = 1..2 /\ DOMAIN c = 1..3
  BY DEF AuthorizationIds, ChallengeIds
<1>. QED
  BY <1>1

LEMMA WantedAreNames ==
  ASSUME NEW r \in Creators, Creates(r), request[r].account \in Accounts
  PROVE  Wanted(r) \subseteq Names /\ Made(r) \in Ids
<1>. USE OrdersAssumption
<1>1. /\ request[r].pc # "idle" /\ request[r].wanted # None
      /\ request[r].wanted \in IF server.version = "v2" THEN Csrs \cup {None} ELSE Names
  BY DEF Creates
<1>2. \A csr \in Csrs : Domains(csr) \subseteq Names
  BY DEF Domains, Csr
<1>3. Wanted(r) \subseteq Names
  BY <1>1, <1>2 DEF Wanted
<1>4. Made(r) \in Ids
  BY <1>1 DEF Made, Ids, AuthorizationIds
<1>. QED
  BY <1>3, <1>4

(* Whoever has an authorization started has an account.                      *)
LEMMA FinishedParts ==
  ASSUME IInv, NEW id, Finished(id)
  PROVE  /\ id \in Ids /\ id # None
         /\ Root(id) \in Creators /\ request[Root(id)].account \in Accounts
         /\ Owner(id) = request[Root(id)].account
         /\ request[Root(id)].pc \in Joined
<1>. USE OrdersAssumption DEF IInv
<1>1. CASE id \in Creators
  <2>1. id \notin AuthorizationIds \cup ChallengeIds
    BY <1>1
  <2>. QED
    BY <1>1, <2>1 DEF Finished, Ids, Root, Owner, Joined
<1>2. CASE id \notin Creators
  <2>1. Root(id) = id[1] /\ Owner(id) = request[id[1]].account
    BY <1>2 DEF Root, Owner
  <2>2. CASE id \in AuthorizationIds /\ Whole(id)
    <3>1. job[id] # "none" /\ Authorizing(id)
      BY <2>2 DEF Whole
    <3>. QED
      BY <2>1, <2>2, <3>1, AuthorizationParts DEF Authorizing
  <2>3. CASE id \in ChallengeIds /\ Whole(AuthorizationOf(id))
    <3>1. /\ AuthorizationOf(id) \in AuthorizationIds /\ AuthorizationOf(id)[1] = id[1]
          /\ id[1] \in Creators /\ id \in Ids /\ id # None
      BY <2>3, ChallengeParts
    <3>2. job[AuthorizationOf(id)] # "none" /\ Authorizing(AuthorizationOf(id))
      BY <2>3, <3>1 DEF Whole
    <3>. QED
      BY <2>1, <3>1, <3>2 DEF Authorizing
  <2>. QED
    BY <1>2, <2>2, <2>3 DEF Finished
<1>. QED
  BY <1>1, <1>2

(* What belongs to an id that has been created has been created too.         *)
LEMMA KidsAreFinished ==
  ASSUME IInv, NEW id, Finished(id)
  PROVE  Kids(id) \subseteq Ids /\ \A kid \in Kids(id) : Finished(kid)
<1>. USE OrdersAssumption DEF IInv
<1>1. CASE id \in Creators
  <2>1. /\ \A n \in Wanted(id) : Whole(<<id, n>>)
        /\ request[id].account \in Accounts /\ Creates(id)
    BY <1>1 DEF Finished, AuthorizationIds, ChallengeIds
  <2>2. Wanted(id) \subseteq Names
    BY <1>1, <2>1, WantedAreNames
  <2>3. \A n \in Wanted(id) : <<id, n>> \in AuthorizationIds
    BY <1>1, <2>2 DEF AuthorizationIds
  <2>. QED
    BY <1>1, <2>1, <2>3 DEF Kids, Finished, Ids
<1>2. CASE id \in AuthorizationIds
  <2>1. Whole(id)
    BY <1>2, IdsDiffer DEF Finished
  <2>2. ChallengesOf(id) \subseteq ChallengeIds /\ \A c \in ChallengesOf(id) : AuthorizationOf(c) = id
    BY <1>2, AuthorizationParts
  <2>3. \A c \in ChallengesOf(id) : Finished(c)
    BY <2>1, <2>2 DEF Finished
  <2>. QED
    BY <1>2, <2>2, <2>3 DEF Kids, Ids
<1>3. CASE id \notin Creators /\ id \notin AuthorizationIds
  BY <1>3 DEF Kids
<1>. QED
  BY <1>1, <1>2, <1>3

(* As long as nothing is lost, what belongs to such an id is what is stored  *)
(* for it.                                                                   *)
LEMMA ChildrenAreKids ==
  ASSUME IInv, NEW id \in Creators \cup AuthorizationIds, Finished(id), ~Wiped
  PROVE  Children(id) = Kids(id)
<1>. USE OrdersAssumption DEF IInv
<1>1. CASE id \in Creators
  <2>1. /\ \A n \in Wanted(id) : Whole(<<id, n>>) /\ server.version = "v2"
        /\ request[id].account \in Accounts /\ Creates(id)
    BY <1>1 DEF Finished, AuthorizationIds, ChallengeIds
  <2>2. Wanted(id) \subseteq Names
    BY <1>1, <2>1, WantedAreNames
  <2>3. ASSUME NEW a \in AuthorizationIds, authorizations[a].order = id PROVE a \in Kids(id)
    <3>1. authorizations[a] = FilledAuthorization(a)
      BY <1>1, <2>3 DEF Authorizing, NoAuthorization, BareAuthorization
    <3>2. a[1] = id /\ job[a] # "none"
      BY <1>1, <2>1, <2>3, <3>1 DEF FilledAuthorization, Authorizing, NoAuthorization
    <3>. QED
      BY <1>1, <3>2, AuthorizationParts DEF Authorizing, Kids
  <2>4. ASSUME NEW n \in Wanted(id)
        PROVE  <<id, n>> \in AuthorizationIds /\ authorizations[<<id, n>>].order = id
    <3>. DEFINE a == <<id, n>>
    <3>1. a \in AuthorizationIds
      BY <1>1, <2>2 DEF AuthorizationIds
    <3>2. /\ AuthorizationOf(<<id, n, "http-01">>) = a
          /\ <<id, n, "http-01">> \in ChallengesOf(a) /\ <<id, n, "http-01">> \in ChallengeIds
      BY <1>1, <2>2 DEF AuthorizationOf, ChallengesOf, ChallengeIds, ChallengeTypes
    <3>3. job[<<id, n, "http-01">>] = "done"
      BY <2>1, <3>2 DEF Whole
    <3>4. authorizations[a] = FilledAuthorization(a)
      BY <3>2, <3>3 DEF Challenging
    <3>. QED
      BY <2>1, <3>1, <3>4 DEF FilledAuthorization
  <2>. QED
    BY <1>1, <2>3, <2>4 DEF Children, Kids
<1>2. CASE id \in AuthorizationIds
  <2>1. Whole(id) /\ id \notin Creators
    BY <1>2, IdsDiffer DEF Finished
  <2>2. ASSUME NEW c \in ChallengeIds, challenges[c].authorization = id PROVE c \in ChallengesOf(id)
    <3>1. challenges[c] = FilledChallenge(c)
      BY <1>2, <2>2 DEF Challenging, NoChallenge, BareChallenge
    <3>. QED
      BY <2>2, <3>1, ChallengeParts DEF FilledChallenge
  <2>3. ASSUME NEW c \in ChallengesOf(id)
        PROVE  c \in ChallengeIds /\ challenges[c].authorization = id
    <3>1. c \in ChallengeIds /\ AuthorizationOf(c) = id
      BY <1>2, <2>3, AuthorizationParts
    <3>2. challenges[c] = FilledChallenge(c)
      BY <2>1, <2>3, <3>1 DEF Whole, Challenging
    <3>. QED
      BY <3>1, <3>2 DEF FilledChallenge
  <2>. QED
    BY <1>2, <2>1, <2>2, <2>3 DEF Children, Kids
<1>. QED
  BY <1>1, <1>2

(* The ids that answers have given are of this kind.                         *)
LEMMA KnownIsFinished ==
  ASSUME IInv, NEW id \in Known
  PROVE  Finished(id)
<1>1. PICK r \in Requests : id \in {request[r].location} \cup request[r].body /\ id # None
  BY DEF Known
<1>2. Told(r)
  BY DEF IInv
<1>3. Succeeded(r)
  BY <1>1, <1>2 DEF Told
<1>. QED
  BY <1>1, <1>2, <1>3, KidsAreFinished DEF Told

-----------------------------------------------------------------------------
(* What every step keeps.                                                    *)
Grows ==
  /\ server' = server
  /\ Wiped => Wiped'
  /\ \A a \in Accounts :
       /\ accounts[a] # "valid" => accounts'[a] # "valid"
       /\ accounts[a] = "deactivated" => accounts'[a] = "deactivated" \/ Wiped'
  /\ \A r \in Creators :
       /\ request[r].pc # "idle" =>
            /\ request'[r].kind = request[r].kind /\ request'[r].key = request[r].key
            /\ request'[r].wanted = request[r].wanted /\ request'[r].late = request[r].late
       /\ request[r].account # None => request'[r].account = request[r].account
       /\ request[r].pc \in Joined =>
            request'[r].pc \in Joined /\ (Wiped' \/ orders'[r] = orders[r])
       /\ request[r].pc \in Settled => request'[r].pc \in Settled
  /\ \A j \in Jobs :
       /\ job[j] = "done" => job'[j] = "done"
       /\ job[j] \in {"wait", "lost"} => job'[j] \in {"wait", "lost"}

LEMMA CreatorGrows ==
  ASSUME Grows, NEW r \in Creators, request[r].pc # "idle"
  PROVE  /\ Wanted(r)' = Wanted(r) /\ Made(r)' = Made(r)
         /\ request[r].account # None =>
              /\ FilledOrder(r)' = FilledOrder(r)
              /\ \A a \in AuthorizationIds :
                   a[1] = r => FilledAuthorization(a)' = FilledAuthorization(a)
BY DEF Grows, Wanted, Made, FilledOrder, FilledAuthorization, Domains

LEMMA WholeGrows ==
  ASSUME Grows, NEW a \in AuthorizationIds, Whole(a)
  PROVE  Whole(a)'
<1>1. a \in Jobs /\ ChallengesOf(a) \subseteq Jobs
  BY AuthorizationParts DEF Jobs
<1>. QED
  BY <1>1 DEF Grows, Whole, ChallengesOf

LEMMA FinishedGrows ==
  ASSUME IInv, Grows, NEW id, Finished(id)
  PROVE  Finished(id)' /\ Kids(id)' = Kids(id) /\ Owner(id)' = Owner(id)
<1>. USE OrdersAssumption DEF IInv
<1>1. /\ Root(id) \in Creators /\ request[Root(id)].account \in Accounts
      /\ request[Root(id)].account # None /\ request[Root(id)].pc # "idle"
      /\ Root(id)' = Root(id)
  BY FinishedParts DEF Joined, Settled, Root
<1>2. Owner(id)' = Owner(id)
  BY <1>1 DEF Grows, Root, Owner
<1>3. CASE id \in Creators
  <2>1. /\ server.version = "v2" /\ request[id].pc \in Settled /\ Creates(id)
        /\ Wiped \/ orders[id] = FilledOrder(id)
        /\ \A n \in Wanted(id) : Whole(<<id, n>>)
    BY <1>3 DEF Finished, AuthorizationIds, ChallengeIds
  <2>2. /\ Wanted(id)' = Wanted(id) /\ FilledOrder(id)' = FilledOrder(id)
        /\ request[id].account \in Accounts /\ request[id].account # None
    BY <1>1, <1>3, CreatorGrows DEF Root
  <2>3. Wanted(id) \subseteq Names
    BY <1>3, <2>1, <2>2, WantedAreNames
  <2>4. \A n \in Wanted(id) : Whole(<<id, n>>)'
    BY <1>3, <2>1, <2>3, WholeGrows DEF AuthorizationIds
  <2>5. Finished(id)'
    BY <1>3, <2>1, <2>2, <2>4 DEF Finished, Grows, Joined
  <2>. QED
    BY <1>2, <1>3, <2>2, <2>5 DEF Kids
<1>4. CASE id \notin Creators
  <2>1. Finished(id)'
    BY <1>4, WholeGrows, ChallengeParts DEF Finished, AuthorizationOf
  <2>. QED
    BY <1>2, <1>4, <2>1 DEF Kids, ChallengesOf
<1>. QED
  BY <1>3, <1>4

-----------------------------------------------------------------------------
(* What a step does not touch stays as it should be.                         *)
LEMMA AuthorizingKept ==
  ASSUME IInv, Grows, NEW a \in AuthorizationIds,
         job'[a] = job[a], authorizations'[a] = authorizations[a]
  PROVE  Authorizing(a)'
<1>. USE OrdersAssumption DEF IInv
<1>1. a[1] \in Creators
  BY AuthorizationParts
<1>2. Authorizing(a)
  OBVIOUS
<1>3. CASE job[a] = "none"
  BY <1>2, <1>3 DEF Authorizing
<1>4. CASE job[a] # "none"
  <2>1. /\ request[a[1]].pc \in Joined /\ request[a[1]].pc # "idle"
        /\ request[a[1]].account \in Accounts /\ request[a[1]].account # None
    BY <1>2, <1>4 DEF Authorizing, Joined, Settled
  <2>2. /\ Wanted(a[1])' = Wanted(a[1]) /\ FilledOrder(a[1])' = FilledOrder(a[1])
        /\ FilledAuthorization(a)' = FilledAuthorization(a)
    BY <1>1, <2>1, CreatorGrows
  <2>3. /\ request'[a[1]].pc \in Joined /\ request'[a[1]].account \in Accounts
        /\ Wiped' \/ orders'[a[1]] = orders[a[1]]
        /\ Wiped => Wiped'
        /\ server' = server
    BY <1>1, <2>1 DEF Grows
  <2>. QED
    BY <1>2, <1>4, <2>2, <2>3 DEF Authorizing
<1>. QED
  BY <1>3, <1>4

LEMMA ChallengingKept ==
  ASSUME IInv, Grows, NEW c \in ChallengeIds,
         job'[c] = job[c], challenges'[c] = challenges[c],
         job[c] # "none" => authorizations'[AuthorizationOf(c)] = authorizations[AuthorizationOf(c)],
         job[AuthorizationOf(c)] = "wait" => job'[AuthorizationOf(c)] = "wait"
  PROVE  Challenging(c)'
<1>. USE OrdersAssumption DEF IInv
<1>. DEFINE a == AuthorizationOf(c)
<1>1. a \in AuthorizationIds /\ a[1] \in Creators /\ a' = a /\ a \in Jobs
  BY ChallengeParts, AuthorizationParts DEF AuthorizationOf
<1>2. Challenging(c) /\ Authorizing(a) /\ FilledChallenge(c)' = FilledChallenge(c)
  BY <1>1 DEF FilledChallenge, AuthorizationOf
<1>3. CASE job[c] = "none"
  BY <1>2, <1>3 DEF Challenging
<1>4. CASE job[c] # "none"
  <2>1. job[a] \in {"wait", "lost"}
    BY <1>2, <1>4 DEF Challenging
  <2>2. /\ request[a[1]].pc # "idle"
        /\ request[a[1]].account \in Accounts /\ request[a[1]].account # None
    BY <1>1, <1>2, <2>1 DEF Authorizing, Joined, Settled
  <2>3. FilledAuthorization(a)' = FilledAuthorization(a)
    BY <1>1, <2>2, CreatorGrows
  <2>4. job'[a] \in {"wait", "lost"} /\ (Wiped => Wiped')
    BY <1>1, <2>1 DEF Grows
  <2>. HIDE DEF a
  <2>5. /\ authorizations'[a] = authorizations[a]
        /\ job[a] = "wait" => job'[a] = "wait"
    BY <1>4 DEF a
  <2>6. /\ Wiped \/ authorizations[a] = FilledAuthorization(a)
        /\ job[c] \in {"create", "update"} => job[a] = "wait"
    BY <1>2, <1>4 DEF Challenging, a
  <2>7. a = AuthorizationOf(c)
    BY DEF a
  <2>8. a' = AuthorizationOf(c)'
    BY DEF a
  <2>9. /\ job'[c] # "none" =>
             job'[a] \in {"wait", "lost"} /\ (Wiped' \/ authorizations'[a] = FilledAuthorization(a)')
        /\ job'[c] \in {"create", "update"} => job'[a] = "wait"
    BY <2>3, <2>4, <2>5, <2>6
  <2>. QED
    BY <1>1, <1>2, <2>4, <2>8, <2>9 DEF Challenging
<1>. QED
  BY <1>3, <1>4

LEMMA CreatesKept ==
  ASSUME IInv, Grows, NEW r \in Creators,
         request'[r] = request[r], orders'[r] = orders[r], Wiped' = Wiped
  PROVE  Creates(r)'
<1>. USE OrdersAssumption DEF IInv
<1>1. Creates(r) /\ FilledOrder(r)' = FilledOrder(r) /\ Made(r)' = Made(r)
  BY DEF FilledOrder, Made, Grows
<1>2. request[r].pc = "list" => Finished(Made(r))'
  BY <1>1, FinishedGrows DEF Creates
<1>3. \A a \in Accounts : accounts[a] # "valid" => accounts'[a] # "valid"
  BY DEF Grows
<1>4. server' = server
  BY DEF Grows
<1>. QED
  BY <1>1, <1>2, <1>3, <1>4 DEF Creates

LEMMA ReadsKept ==
  ASSUME IInv, Grows, NEW r \in Readers, request'[r] = request[r], Wiped' = Wiped
  PROVE  Reads(r)'
<1>. USE OrdersAssumption DEF IInv
<1>. DEFINE q == request[r]
<1>1. Reads(r) /\ server' = server
  BY DEF Grows
<1>2. CASE q.pc = "idle"
  BY <1>1, <1>2 DEF Reads
<1>3. CASE q.pc # "idle" /\ (q.kind = "orders" \/ q.target = None)
  BY <1>1, <1>3 DEF Reads
<1>4. CASE q.pc # "idle" /\ q.kind # "orders" /\ q.target # None
  <2>1. Finished(q.target)
    BY <1>1, <1>4 DEF Reads
  <2>2. /\ Finished(q.target)' /\ Owner(q.target)' = Owner(q.target)
        /\ Owner(q.target) \in Accounts
    BY <2>1, FinishedGrows, FinishedParts
  <2>3. /\ accounts[Owner(q.target)] # "valid" => accounts'[Owner(q.target)] # "valid"
        /\ accounts[Owner(q.target)] = "deactivated" =>
             accounts'[Owner(q.target)] = "deactivated" \/ Wiped'
    BY <2>2 DEF Grows
  <2>. QED
    BY <1>1, <1>4, <2>2, <2>3 DEF Reads, Root, AuthorizationOf
<1>. QED
  BY <1>2, <1>3, <1>4

LEMMA ToldKept ==
  ASSUME IInv, Grows, NEW r \in Requests, request'[r] = request[r]
  PROVE  Told(r)'
<1>1. Told(r) /\ Succeeded(r)' = Succeeded(r)
  BY DEF IInv, Succeeded
<1>. QED
  BY <1>1, FinishedGrows DEF Told

-----------------------------------------------------------------------------
(* The steps of a request: it may write to its order and start the creation  *)
(* of authorizations.                                                        *)
Keeps(r) ==
  /\ request' \in [Requests -> RequestRecord]
  /\ \A q \in Requests \ {r} : request'[q] = request[q]
  /\ request[r].pc # "idle" =>
       /\ request'[r].kind = request[r].kind /\ request'[r].key = request[r].key
       /\ request'[r].wanted = request[r].wanted /\ request'[r].late = request[r].late
  /\ r \in Creators =>
       /\ request[r].account # None => request'[r].account = request[r].account
       /\ request[r].pc \in Joined => request'[r].pc \in Joined
       /\ request[r].pc \in Settled => request'[r].pc \in Settled

OrderRecord == [stored : Stored, account : Accounts \cup {None}]

Moves(r, started) ==
  /\ Keeps(r)
  /\ UNCHANGED <<server, accounts, authorizations, challenges, restarts>>
  /\ failures' \in 0..MaxFailures
  /\ orders' \in [Creators -> OrderRecord]
  /\ \A q \in Creators : orders'[q] # orders[q] => q = r /\ request[r].pc \in {"create", "fill"}
  /\ \A a \in started :
       a \in AuthorizationIds /\ a[1] = r /\ r \in Creators /\ request[r].pc \notin Joined
  /\ job' = [j \in Jobs |-> IF j \in started THEN "create" ELSE job[j]]

LEMMA NotYetStarted ==
  ASSUME IInv, NEW r \in Requests, NEW started, Moves(r, started)
  PROVE  /\ \A a \in started : a \in AuthorizationIds /\ job[a] = "none" /\ job'[a] = "create"
         /\ \A j \in Jobs \ started : job'[j] = job[j]
<1>1. ASSUME NEW a \in started PROVE a \in AuthorizationIds /\ job[a] = "none" /\ job'[a] = "create"
  <2>1. a \in AuthorizationIds /\ a \in Jobs /\ request[a[1]].pc \notin Joined /\ Authorizing(a)
    BY DEF Moves, IInv, Jobs
  <2>. QED
    BY <2>1 DEF Moves, Authorizing
<1>. QED
  BY <1>1 DEF Moves

LEMMA MovesGrow ==
  ASSUME IInv, NEW r \in Requests, NEW started, Moves(r, started)
  PROVE  Grows
<1>1. \A j \in Jobs :
        /\ job[j] = "done" => job'[j] = "done"
        /\ job[j] \in {"wait", "lost"} => job'[j] \in {"wait", "lost"}
  BY NotYetStarted
<1>2. ASSUME NEW q \in Creators
      PROVE  /\ request[q].pc # "idle" =>
                  /\ request'[q].kind = request[q].kind /\ request'[q].key = request[q].key
                  /\ request'[q].wanted = request[q].wanted
                  /\ request'[q].late = request[q].late
             /\ request[q].account # None => request'[q].account = request[q].account
             /\ request[q].pc \in Joined =>
                  request'[q].pc \in Joined /\ orders'[q] = orders[q]
             /\ request[q].pc \in Settled => request'[q].pc \in Settled
  <2>1. CASE q = r
    BY <2>1 DEF Moves, Keeps, Joined, Settled
  <2>2. CASE q # r
    BY <2>2 DEF Moves, Keeps, Requests
  <2>. QED
    BY <2>1, <2>2
<1>. QED
  BY <1>1, <1>2 DEF Grows, Moves, Wiped

LEMMA MovesInv ==
  ASSUME IInv, NEW r \in Requests, NEW started, Moves(r, started),
         started # {} =>
           /\ ~Wiped /\ request'[r].pc \in Joined /\ request'[r].account \in Accounts
           /\ \A a \in started : a[2] \in Wanted(r)'
           /\ server.version = "v2" => orders'[r] = FilledOrder(r)',
         r \in Creators => Creates(r)', r \in Readers => Reads(r)', Told(r)'
  PROVE  IInv' /\ Grows
<1>. USE OrdersAssumption DEF IInv
<1>1. Grows /\ Wiped' = Wiped
  BY MovesGrow DEF Moves, Wiped
<1>2. TypeOK'
  <2>1. job' \in [Jobs -> {"none", "create", "update", "wait", "done", "failed", "lost"}]
    BY DEF Moves, TypeOK
  <2>. QED
    BY <2>1 DEF TypeOK, Moves, Keeps, OrderRecord
<1>3. Loss'
  <2>1. CASE Wiped
    <3>1. started = {}
      BY <2>1
    <3>2. \A q \in Creators : request[q].pc \notin {"create", "fill"}
      BY <2>1 DEF Creates
    <3>3. \A q \in Creators : orders'[q] = orders[q]
      BY <3>2 DEF Moves
    <3>4. \A j \in Jobs : job'[j] = job[j]
      BY <3>1, NotYetStarted
    <3>. QED
      BY <1>1, <2>1, <3>3, <3>4 DEF Loss, Moves
  <2>2. CASE ~Wiped
    BY <1>1, <2>2 DEF Loss, Moves
  <2>. QED
    BY <2>1, <2>2
<1>4. ASSUME NEW a \in AuthorizationIds PROVE Authorizing(a)'
  <2>1. a \in Jobs
    BY DEF Jobs
  <2>2. CASE a \notin started
    BY <1>1, <2>1, <2>2, AuthorizingKept, NotYetStarted DEF Moves
  <2>3. CASE a \in started
    <3>1. /\ job[a] = "none" /\ job'[a] = "create" /\ a[1] = r
          /\ authorizations'[a] = authorizations[a]
      BY <2>3, NotYetStarted DEF Moves
    <3>2. authorizations'[a] = NoAuthorization
      BY <3>1 DEF Authorizing
    <3>. QED
      BY <1>1, <2>3, <3>1, <3>2 DEF Authorizing, Moves, NoAuthorization
  <2>. QED
    BY <2>2, <2>3
<1>5. ASSUME NEW c \in ChallengeIds PROVE Challenging(c)'
  <2>1. /\ c \in Jobs \ started /\ AuthorizationOf(c) \in Jobs
        /\ UNCHANGED <<authorizations, challenges>>
    BY ChallengeParts, IdsDiffer DEF Moves, Jobs
  <2>2. job'[c] = job[c] /\ (job[AuthorizationOf(c)] = "wait" => job'[AuthorizationOf(c)] = "wait")
    BY <2>1, NotYetStarted
  <2>. QED
    BY <1>1, <2>1, <2>2, ChallengingKept
<1>6. ASSUME NEW q \in Creators PROVE Creates(q)'
  BY <1>1, CreatesKept DEF Moves, Keeps, Requests
<1>7. ASSUME NEW q \in Readers PROVE Reads(q)'
  BY <1>1, ReadsKept DEF Moves, Keeps, Requests
<1>8. ASSUME NEW q \in Requests PROVE Told(q)'
  BY <1>1, ToldKept DEF Moves, Keeps
<1>. QED
  BY <1>1, <1>2, <1>3, <1>4, <1>5, <1>6, <1>7, <1>8

(* A new local state of one request.                                         *)
LEMMA Put ==
  ASSUME TypeOK, NEW r \in Requests, NEW new \in RequestRecord,
         request' = [request EXCEPT ![r] = new]
  PROVE  /\ request' \in [Requests -> RequestRecord] /\ request'[r] = new
         /\ \A q \in Requests \ {r} : request'[q] = request[q]
BY DEF TypeOK

(* The attributes that no step but an arrival changes.                       *)
Same(old, new) ==
  /\ new.kind = old.kind /\ new.key = old.key /\ new.wanted = old.wanted
  /\ new.late = old.late

LEMMA GotoIs ==
  ASSUME TypeOK, NEW r \in Requests, NEW pc \in Pcs, Goto(r, pc)
  PROVE  /\ request' \in [Requests -> RequestRecord]
         /\ \A q \in Requests \ {r} : request'[q] = request[q]
         /\ request'[r].pc = pc /\ Same(request[r], request'[r])
         /\ request'[r].target = request[r].target /\ request'[r].account = request[r].account
         /\ request'[r].order = request[r].order
         /\ request'[r].authorization = request[r].authorization
         /\ request'[r].location = request[r].location /\ request'[r].body = request[r].body
<1>. DEFINE new == [request[r] EXCEPT !.pc = pc]
<1>1. request[r] \in RequestRecord
  BY DEF TypeOK
<1>2. new \in RequestRecord
  BY ONLY <1>1, pc \in Pcs DEF RequestRecord
<1>3. request' = [request EXCEPT ![r] = new]
  <2>1. request \in [Requests -> RequestRecord]
    BY DEF TypeOK
  <2>. QED
    BY ONLY <2>1, r \in Requests, Goto(r, pc) DEF Goto
<1>4. /\ new.pc = pc /\ Same(request[r], new)
      /\ new.target = request[r].target /\ new.account = request[r].account
      /\ new.order = request[r].order /\ new.authorization = request[r].authorization
      /\ new.location = request[r].location /\ new.body = request[r].body
  BY ONLY <1>1 DEF RequestRecord, Same
<1>. HIDE DEF new
<1>5. /\ request' \in [Requests -> RequestRecord] /\ request'[r] = new
      /\ \A q \in Requests \ {r} : request'[q] = request[q]
  BY ONLY <1>2, <1>3, r \in Requests, TypeOK, Put
<1>. QED
  BY ONLY <1>4, <1>5

LEMMA RespondIs ==
  ASSUME TypeOK, NEW r \in Requests, NEW code \in Codes, NEW location \in Ids \cup {None},
         NEW body \in SUBSET Ids, Respond(r, code, location, body)
  PROVE  /\ request' \in [Requests -> RequestRecord]
         /\ \A q \in Requests \ {r} : request'[q] = request[q]
         /\ request'[r].pc = "answered" /\ request'[r].code = code
         /\ request'[r].location = location /\ request'[r].body = body
         /\ Same(request[r], request'[r]) /\ request'[r].target = request[r].target
         /\ request'[r].account = request[r].account /\ request'[r].failed = request[r].failed
<1>. DEFINE new == [request[r] EXCEPT !.pc = "answered", !.code = code,
                                      !.location = location, !.body = body]
<1>1. request[r] \in RequestRecord /\ "answered" \in Pcs
  BY DEF TypeOK, Pcs
<1>2. new \in RequestRecord
  <2>. DEFINE mid == [request[r] EXCEPT !.pc = "answered", !.code = code]
  <2>1. mid \in RequestRecord
    BY ONLY <1>1, code \in Codes DEF RequestRecord
  <2>2. new = [mid EXCEPT !.location = location, !.body = body]
    BY ONLY <1>1 DEF RequestRecord
  <2>. HIDE DEF mid, new
  <2>. QED
    BY ONLY <2>1, <2>2, location \in Ids \cup {None}, body \in SUBSET Ids DEF RequestRecord
<1>3. request' = [request EXCEPT ![r] = new]
  <2>1. request \in [Requests -> RequestRecord]
    BY DEF TypeOK
  <2>. QED
    BY ONLY <2>1, r \in Requests, Respond(r, code, location, body) DEF Respond
<1>4. /\ new.pc = "answered" /\ new.code = code /\ new.location = location /\ new.body = body
      /\ Same(request[r], new) /\ new.target = request[r].target
      /\ new.account = request[r].account /\ new.failed = request[r].failed
  BY ONLY <1>1 DEF RequestRecord, Same
<1>. HIDE DEF new
<1>5. /\ request' \in [Requests -> RequestRecord] /\ request'[r] = new
      /\ \A q \in Requests \ {r} : request'[q] = request[q]
  BY ONLY <1>2, <1>3, r \in Requests, TypeOK, Put
<1>. QED
  BY ONLY <1>4, <1>5

(* Steps that change nothing but the request.                                *)
LEMMA StillMoves ==
  ASSUME IInv, NEW r \in Requests, Keeps(r),
         UNCHANGED <<server, accounts, records, job, faults>>
  PROVE  Moves(r, {})
<1>1. job' = [j \in Jobs |-> IF j \in {} THEN "create" ELSE job[j]]
  BY DEF IInv, TypeOK
<1>. QED
  BY <1>1 DEF IInv, TypeOK, Moves, OrderRecord, records, faults

LEMMA StillInv ==
  ASSUME IInv, NEW r \in Requests, Keeps(r),
         UNCHANGED <<server, accounts, records, job, faults>>,
         r \in Creators => Creates(r)', r \in Readers => Reads(r)', Told(r)'
  PROVE  IInv' /\ Grows
BY StillMoves, MovesInv

LEMMA StillGrows ==
  ASSUME IInv, NEW r \in Requests, Keeps(r),
         UNCHANGED <<server, accounts, records, job, faults>>
  PROVE  Grows
BY StillMoves, MovesGrow

(* A request that is refused.                                                *)
LEMMA RefuseIs ==
  ASSUME TypeOK, NEW r \in Requests, NEW code \in Codes, Refuse(r, code)
  PROVE  /\ request' \in [Requests -> RequestRecord]
         /\ \A q \in Requests \ {r} : request'[q] = request[q]
         /\ request'[r].pc = "answered" /\ request'[r].code = code
         /\ request'[r].location = None /\ request'[r].body = {}
         /\ Same(request[r], request'[r]) /\ request'[r].target = request[r].target
         /\ request'[r].account = request[r].account /\ request'[r].failed = request[r].failed
<1>1. Respond(r, code, None, {}) /\ None \in Ids \cup {None} /\ {} \in SUBSET Ids
  BY DEF Refuse
<1>. QED
  BY ONLY <1>1, TypeOK, r \in Requests, code \in Codes, RespondIs

LEMMA RefuseInv ==
  ASSUME IInv, NEW r \in Requests, NEW code \in Codes, Refuse(r, code),
         request[r].pc # "idle", ~Over(r), code \notin {200, 201},
         UNCHANGED <<server, accounts, records, job, faults>>,
         r \in Readers =>
           \/ request[r].kind = "orders" \/ request[r].target = None \/ Wiped
           \/ code = 403 /\ accounts[Owner(request[r].target)] = "deactivated"
  PROVE  IInv' /\ Grows
<1>. USE OrdersAssumption DEF IInv
<1>2. /\ request' \in [Requests -> RequestRecord]
      /\ \A q \in Requests \ {r} : request'[q] = request[q]
      /\ request'[r].pc = "answered" /\ request'[r].code = code
      /\ request'[r].location = None /\ request'[r].body = {}
      /\ Same(request[r], request'[r]) /\ request'[r].target = request[r].target
      /\ request'[r].account = request[r].account /\ request'[r].failed = request[r].failed
  BY RefuseIs
<1>3. Keeps(r)
  BY <1>2 DEF Keeps, Same, Joined, Settled
<1>4. Grows /\ Wiped' = Wiped /\ server' = server
  BY <1>3, StillGrows DEF Wiped, faults
<1>5. ASSUME r \in Creators PROVE Creates(r)'
  <2>1. Creates(r) /\ FilledOrder(r)' = FilledOrder(r) /\ orders' = orders /\ accounts' = accounts
    BY <1>2, <1>5 DEF FilledOrder, records
  <2>. QED
    BY ONLY <1>2, <1>4, <2>1, request[r].pc # "idle" DEF Creates, Same
<1>6. ASSUME r \in Readers PROVE Reads(r)'
  <2>1. Reads(r) /\ accounts' = accounts
    BY <1>6
  <2>2. ASSUME NEW id, id = request[r].target, request[r].kind # "orders", id # None
        PROVE  Finished(id)' /\ Owner(id)' = Owner(id)
    BY <1>4, <2>1, <2>2, FinishedGrows DEF Reads
  <2>3. /\ request[r].kind \in {"order", "orders", "authorization", "challenge"}
        /\ request[r].kind # "orders" /\ request[r].target # None =>
             /\ request[r].target \in TargetOf(request[r].kind)
             /\ request[r].late => accounts[Owner(request[r].target)] # "valid"
    BY <2>1 DEF Reads
  <2>. QED
    BY <1>2, <1>4, <1>6, <2>1, <2>2, <2>3 DEF Reads, Same, Getting, TargetOf
<1>7. Told(r)'
  BY <1>2 DEF Told, Succeeded
<1>. QED
  BY <1>3, <1>5, <1>6, <1>7, StillInv

-----------------------------------------------------------------------------
(* A creation.                                                               *)
LEMMA FindAccountInv == ASSUME IInv, NEW r \in Requests, FindAccount(r) PROVE IInv' /\ Grows
<1>. USE OrdersAssumption DEF IInv
<1>. DEFINE q == request[r]
<1>1. /\ ~Over(r) /\ q.pc = "find" /\ UNCHANGED <<server, accounts, records, faults>>
      /\ q \in RequestRecord
  BY DEF FindAccount, Over, TypeOK
<1>2. r \in Creators /\ r \notin Readers /\ Creates(r)
  BY <1>1 DEF Reads, Getting, Requests
<1>3. CASE UNCHANGED job /\ \E code \in {400, 403, 404, 500} : Refuse(r, code)
  BY <1>1, <1>2, <1>3, RefuseInv DEF Codes
<1>4. ASSUME NEW a \in StoredAccounts, KidOf[a] = q.key, accounts[a] = "valid", q.wanted # None,
             NEW pc \in {"create", "join"}, NEW started,
             request' = [request EXCEPT ![r].pc = pc, ![r].account = a],
             \/ pc = "create" /\ server.version = "v2" /\ UNCHANGED job /\ started = {}
             \/ /\ pc = "join" /\ server.version = "v1" /\ started = {<<r, q.wanted>>}
                /\ job' = [job EXCEPT ![<<r, q.wanted>>] = "create"]
      PROVE  IInv' /\ Grows
  <2>. DEFINE new == [q EXCEPT !.pc = pc, !.account = a]
  <2>1. a \in Accounts /\ a # None /\ ~q.late /\ ~Wiped /\ pc \in Pcs
    BY <1>1, <1>2, <1>4 DEF StoredAccounts, Creates, Loss, Pcs
  <2>2. new \in RequestRecord
    BY ONLY <1>1, <2>1 DEF RequestRecord
  <2>3. request' = [request EXCEPT ![r] = new]
    <3>1. request' = [request EXCEPT ![r].pc = pc, ![r].account = a]
      BY <1>4
    <3>2. request \in [Requests -> RequestRecord]
      BY DEF TypeOK
    <3>. QED
      BY ONLY <3>1, <3>2, r \in Requests
  <2>4. /\ request' \in [Requests -> RequestRecord] /\ request'[r] = new
        /\ \A p \in Requests \ {r} : request'[p] = request[p]
    BY ONLY <2>2, <2>3, r \in Requests, TypeOK, Put
  <2>5. /\ new.pc = pc /\ new.account = a /\ Same(q, new)
        /\ new.location = q.location /\ new.body = q.body /\ new.code = q.code
    BY ONLY <1>1 DEF RequestRecord, Same
  <2>. HIDE DEF new
  <2>6. Keeps(r)
    BY <1>1, <1>2, <2>4, <2>5 DEF Keeps, Same, Joined, Settled, Creates
  <2>7. \A j \in started : j \in AuthorizationIds /\ j[1] = r /\ j \in Jobs
    BY <1>1, <1>2, <1>4 DEF Creates, AuthorizationIds, Jobs
  <2>8. job' = [j \in Jobs |-> IF j \in started THEN "create" ELSE job[j]]
    BY <1>4, <2>7 DEF TypeOK
  <2>9. Moves(r, started)
    BY <1>1, <1>2, <2>6, <2>7, <2>8
       DEF Moves, TypeOK, OrderRecord, records, faults, Joined, Settled
  <2>10. Wiped' = Wiped /\ server' = server /\ orders' = orders /\ accounts' = accounts
    BY <1>1 DEF Wiped, faults, records
  <2>11. Creates(r)'
    <3>1. /\ new.kind = "new" /\ new.wanted = q.wanted /\ new.late = q.late
          /\ new.wanted \in IF server.version = "v2" THEN Csrs \cup {None} ELSE Names
          /\ orders[r] = NoOrder
      BY <1>1, <1>2, <2>5 DEF Creates, Same
    <3>. QED
      BY ONLY <1>4, <2>1, <2>4, <2>5, <2>10, <3>1 DEF Creates, NoOrder
  <2>12. Told(r)'
    BY <1>1, <2>4, <2>5 DEF Told, Succeeded
  <2>13. \A j \in started : j[2] \in Wanted(r)'
    BY <1>4, <2>4, <2>5, <2>10 DEF Wanted, Same
  <2>14. started # {} => new.pc \in Joined /\ server.version # "v2"
    BY <1>4, <2>5 DEF Joined
  <2>. QED
    BY <1>2, <2>1, <2>4, <2>5, <2>9, <2>11, <2>12, <2>13, <2>14, MovesInv
<1>5. q.wanted = None => server.version # "v1"
  BY <1>1, <1>2 DEF Creates, TypeOK
<1>6. ASSUME NEW a \in StoredAccounts, KidOf[a] = q.key, accounts[a] = "valid", q.wanted # None,
             request' = [request EXCEPT ![r].pc = "create", ![r].account = a],
             server.version = "v2", UNCHANGED job
      PROVE  IInv' /\ Grows
  BY <1>4, <1>6
<1>7. ASSUME NEW a \in StoredAccounts, KidOf[a] = q.key, accounts[a] = "valid",
             request' = [request EXCEPT ![r].pc = "join", ![r].account = a],
             server.version = "v1", job' = [job EXCEPT ![<<r, q.wanted>>] = "create"]
      PROVE  IInv' /\ Grows
  BY <1>4, <1>5, <1>7
<1>. QED
  BY <1>3, <1>6, <1>7 DEF FindAccount, StoredAccounts

LEMMA CreateOrderInv == ASSUME IInv, NEW r \in Requests, CreateOrder(r) PROVE IInv' /\ Grows
<1>. USE OrdersAssumption DEF IInv
<1>. DEFINE q == request[r]
<1>1. /\ ~Over(r) /\ q.pc = "create" /\ q \in RequestRecord
      /\ UNCHANGED <<server, accounts, authorizations, challenges, job, faults>>
      /\ orders' = [orders EXCEPT ![r] = BareOrder] /\ Goto(r, "fill")
  BY DEF CreateOrder, Over, TypeOK
<1>2. r \in Creators /\ r \notin Readers /\ Creates(r)
  BY <1>1 DEF Reads, Getting, Requests
<1>3. /\ request' \in [Requests -> RequestRecord]
      /\ \A p \in Requests \ {r} : request'[p] = request[p]
      /\ request'[r].pc = "fill" /\ request'[r].account = q.account /\ Same(q, request'[r])
      /\ request'[r].location = q.location /\ request'[r].body = q.body
  BY <1>1, GotoIs DEF Pcs
<1>5. Keeps(r)
  BY <1>1, <1>3 DEF Keeps, Same, Joined, Settled
<1>6. job' = [j \in Jobs |-> IF j \in {} THEN "create" ELSE job[j]]
  BY <1>1 DEF TypeOK
<1>7. /\ orders'[r] = BareOrder /\ \A p \in Creators : orders'[p] # orders[p] => p = r
      /\ orders' \in [Creators -> OrderRecord]
  BY <1>1, <1>2 DEF TypeOK, OrderRecord, BareOrder, Stored
<1>8. Moves(r, {})
  BY <1>1, <1>5, <1>6, <1>7 DEF Moves, TypeOK, faults
<1>9. Wiped' = Wiped /\ server' = server /\ accounts' = accounts
  BY <1>1 DEF Wiped, faults
<1>10. Creates(r)'
  BY ONLY <1>1, <1>2, <1>3, <1>7, <1>9 DEF Creates, Same, BareOrder
<1>11. Told(r)'
  BY <1>1, <1>3 DEF Told, Succeeded
<1>. QED
  BY <1>2, <1>8, <1>10, <1>11, MovesInv

LEMMA FillOrderInv == ASSUME IInv, NEW r \in Requests, FillOrder(r) PROVE IInv' /\ Grows
<1>. USE OrdersAssumption DEF IInv
<1>. DEFINE q == request[r]
<1>1. /\ ~Over(r) /\ q.pc = "fill" /\ q \in RequestRecord
      /\ UNCHANGED <<server, accounts, authorizations, challenges, faults>>
      /\ orders' = [orders EXCEPT ![r] = FilledOrder(r)]
  BY DEF FillOrder, Over, TypeOK
<1>2. r \in Creators /\ r \notin Readers /\ Creates(r)
  BY <1>1 DEF Reads, Getting, Requests
<1>3. /\ server.version = "v2" /\ ~Wiped /\ q.account \in Accounts /\ q.account # None
      /\ q.wanted # None /\ ~q.late /\ Wanted(r) \subseteq Names
  BY <1>1, <1>2, WantedAreNames DEF Creates
<1>4. /\ orders'[r] = FilledOrder(r) /\ \A p \in Creators : orders'[p] # orders[p] => p = r
      /\ orders' \in [Creators -> OrderRecord]
  BY <1>1, <1>2, <1>3 DEF TypeOK, OrderRecord, FilledOrder, Stored
<1>5. Wiped' = Wiped /\ server' = server /\ accounts' = accounts
  BY <1>1 DEF Wiped, faults
<1>6. CASE Refuse(r, 500) /\ UNCHANGED job
  <2>2. /\ request' \in [Requests -> RequestRecord]
        /\ \A p \in Requests \ {r} : request'[p] = request[p]
        /\ request'[r].pc = "answered" /\ request'[r].account = q.account
        /\ request'[r].code = 500 /\ Same(q, request'[r])
        /\ request'[r].location = None /\ request'[r].body = {}
    BY <1>6, RefuseIs DEF Codes
  <2>3. Keeps(r)
    BY <1>1, <2>2 DEF Keeps, Same, Joined, Settled
  <2>4. job' = [j \in Jobs |-> IF j \in {} THEN "create" ELSE job[j]]
    BY <1>6 DEF TypeOK
  <2>5. Moves(r, {})
    BY <1>1, <1>4, <2>3, <2>4 DEF Moves, TypeOK, faults
  <2>6. FilledOrder(r)' = FilledOrder(r)
    BY <2>2 DEF FilledOrder
  <2>7. Creates(r)'
    BY ONLY <1>1, <1>2, <1>3, <1>4, <1>5, <2>2, <2>6 DEF Creates, Same
  <2>8. Told(r)'
    BY <2>2 DEF Told, Succeeded
  <2>. QED
    BY <1>2, <2>5, <2>7, <2>8, MovesInv
<1>7. CASE /\ Goto(r, "join")
           /\ job' = [a \in Jobs |->
                        IF a \in {<<r, n>> : n \in Wanted(r)} THEN "create" ELSE job[a]]
  <2>. DEFINE started == {<<r, n>> : n \in Wanted(r)}
  <2>1. /\ request' \in [Requests -> RequestRecord]
        /\ \A p \in Requests \ {r} : request'[p] = request[p]
        /\ request'[r].pc = "join" /\ request'[r].account = q.account
        /\ Same(q, request'[r])
        /\ request'[r].location = q.location /\ request'[r].body = q.body
    BY <1>7, GotoIs DEF Pcs
  <2>3. Keeps(r)
    BY <1>1, <2>1 DEF Keeps, Same, Joined, Settled
  <2>4. \A a \in started : a \in AuthorizationIds /\ a[1] = r /\ a[2] \in Wanted(r)
    BY <1>2, <1>3 DEF AuthorizationIds
  <2>5. Moves(r, started)
    BY <1>1, <1>2, <1>4, <1>7, <2>3, <2>4 DEF Moves, TypeOK, faults, Joined, Settled
  <2>6. FilledOrder(r)' = FilledOrder(r) /\ Wanted(r)' = Wanted(r)
    BY <1>5, <2>1 DEF FilledOrder, Wanted, Same, Domains
  <2>7. Creates(r)'
    BY ONLY <1>1, <1>2, <1>3, <1>4, <1>5, <2>1, <2>6 DEF Creates, Same
  <2>8. Told(r)'
    BY <1>1, <2>1 DEF Told, Succeeded
  <2>9. request'[r].pc \in Joined /\ request'[r].account \in Accounts
    BY <1>3, <2>1 DEF Joined
  <2>. HIDE DEF started
  <2>. QED
    BY <1>2, <1>3, <1>4, <2>4, <2>5, <2>6, <2>7, <2>8, <2>9, MovesInv
<1>. QED
  BY <1>6, <1>7 DEF FillOrder

LEMMA CreatedIsWhole ==
  ASSUME IInv, NEW a \in AuthorizationIds, Created(a)
  PROVE  Whole(a)
BY DEF Created, Whole

(* Promise.all: the request goes on with what it has made.                   *)
LEMMA JoinInv == ASSUME IInv, NEW r \in Requests, Join(r) PROVE IInv' /\ Grows
<1>. USE OrdersAssumption DEF IInv
<1>. DEFINE q == request[r]
<1>1. /\ ~Over(r) /\ q.pc = "join" /\ q \in RequestRecord
      /\ UNCHANGED <<server, accounts, records, job, faults>>
  BY DEF Join, Over, TypeOK
<1>2. r \in Creators /\ r \notin Readers /\ Creates(r)
  BY <1>1 DEF Reads, Getting, Requests
<1>3. /\ ~Wiped /\ q.account \in Accounts /\ q.account # None
      /\ Wanted(r) \subseteq Names /\ Made(r) \in Ids
      /\ server.version = "v2" => orders[r] = FilledOrder(r)
  BY <1>1, <1>2, WantedAreNames DEF Creates
<1>4. CASE Refuse(r, 500)
  BY <1>1, <1>2, <1>4, RefuseInv DEF Codes
<1>5. CASE /\ \A a \in {<<r, n>> : n \in Wanted(r)} : Created(a)
           /\ request' = [request EXCEPT ![r].pc = "list", ![r].target = Made(r)]
  <2>. DEFINE new == [q EXCEPT !.pc = "list", !.target = Made(r)]
  <2>1. new \in RequestRecord
    <3>1. "list" \in Pcs
      BY DEF Pcs
    <3>. QED
      BY ONLY <1>1, <1>3, <3>1 DEF RequestRecord
  <2>2. request' = [request EXCEPT ![r] = new]
    <3>1. request' = [request EXCEPT ![r].pc = "list", ![r].target = Made(r)]
      BY <1>5
    <3>2. request \in [Requests -> RequestRecord]
      BY DEF TypeOK
    <3>. QED
      BY ONLY <3>1, <3>2, r \in Requests
  <2>3. /\ request' \in [Requests -> RequestRecord] /\ request'[r] = new
        /\ \A p \in Requests \ {r} : request'[p] = request[p]
    BY ONLY <2>1, <2>2, r \in Requests, TypeOK, Put
  <2>4. /\ new.pc = "list" /\ new.target = Made(r) /\ new.account = q.account /\ Same(q, new)
        /\ new.location = q.location /\ new.body = q.body
    BY ONLY <1>1 DEF RequestRecord, Same
  <2>. HIDE DEF new
  <2>5. Keeps(r)
    BY <1>1, <2>3, <2>4 DEF Keeps, Same, Joined, Settled
  <2>6. /\ Wiped' = Wiped /\ server' = server /\ orders' = orders /\ accounts' = accounts
        /\ FilledOrder(r)' = FilledOrder(r) /\ Wanted(r)' = Wanted(r) /\ Made(r)' = Made(r)
        /\ Grows
    BY <1>1, <2>3, <2>4, <2>5, StillGrows
       DEF Wiped, faults, records, FilledOrder, Wanted, Made, Same, Domains
  <2>7. \A n \in Wanted(r) : <<r, n>> \in AuthorizationIds /\ Whole(<<r, n>>)'
    BY <1>2, <1>3, <1>5, <2>6, CreatedIsWhole, WholeGrows DEF AuthorizationIds
  <2>8. Finished(Made(r))'
    <3>1. CASE server.version = "v2"
      BY <1>2, <1>3, <2>3, <2>4, <2>6, <2>7, <3>1 DEF Finished, Made, Settled
    <3>2. CASE server.version # "v2"
      BY <2>6, <2>7, <3>2 DEF Finished, Made, Wanted
    <3>. QED
      BY <3>1, <3>2
  <2>9. Creates(r)'
    BY <1>1, <1>2, <1>3, <2>3, <2>4, <2>6, <2>8 DEF Creates, Same
  <2>10. Told(r)'
    BY <1>1, <2>3, <2>4 DEF Told, Succeeded
  <2>. QED
    BY <1>1, <1>2, <2>5, <2>9, <2>10, StillInv
<1>. QED
  BY <1>4, <1>5 DEF Join, Made

-----------------------------------------------------------------------------
(* The handlers that read.                                                   *)

(* As long as nothing is lost, what has been created can be followed         *)
(* upwards.                                                                  *)
LEMMA FinishedIsStored ==
  ASSUME IInv, NEW id, Finished(id), ~Wiped
  PROVE  /\ id \in ChallengeIds =>
              challenges[id] = FilledChallenge(id) /\ Finished(AuthorizationOf(id))
         /\ id \in AuthorizationIds =>
              /\ authorizations[id] = FilledAuthorization(id)
              /\ server.version = "v2" => orders[id[1]] = FilledOrder(id[1])
         /\ id \in Creators => orders[id] = FilledOrder(id)
<1>. USE OrdersAssumption DEF IInv
<1>1. ASSUME NEW a \in AuthorizationIds, Whole(a)
      PROVE  /\ authorizations[a] = FilledAuthorization(a)
             /\ server.version = "v2" => orders[a[1]] = FilledOrder(a[1])
  <2>1. PICK c \in ChallengesOf(a) : TRUE
    BY DEF ChallengesOf, ChallengeTypes
  <2>2. c \in ChallengeIds /\ AuthorizationOf(c) = a /\ job[c] = "done"
    BY <1>1, AuthorizationParts DEF Whole
  <2>3. authorizations[a] = FilledAuthorization(a)
    BY <2>2 DEF Challenging
  <2>. QED
    BY <1>1, <2>3 DEF Whole, Authorizing
<1>2. CASE id \in ChallengeIds
  <2>1. /\ Whole(AuthorizationOf(id)) /\ id \notin AuthorizationIds /\ id \notin Creators
        /\ AuthorizationOf(id) \in AuthorizationIds
        /\ id \in ChallengesOf(AuthorizationOf(id))
    BY <1>2, IdsDiffer, ChallengeParts DEF Finished
  <2>. QED
    BY <1>2, <2>1 DEF Whole, Challenging, Finished
<1>3. CASE id \in AuthorizationIds
  BY <1>1, <1>3, IdsDiffer DEF Finished
<1>4. CASE id \in Creators
  BY <1>4 DEF Finished
<1>. QED
  BY <1>2, <1>3, <1>4, FinishedParts DEF Ids

(* What a reader keeps in every step of its own.                             *)
Reading(r) ==
  /\ request' \in [Requests -> RequestRecord]
  /\ \A q \in Requests \ {r} : request'[q] = request[q]
  /\ Same(request[r], request'[r]) /\ request'[r].target = request[r].target
  /\ UNCHANGED <<server, accounts, records, job, faults>>

LEMMA ReadingGoes ==
  ASSUME IInv, NEW r \in Readers, Reading(r), request[r].pc # "idle", ~Over(r),
         request'[r].pc \in {"authorization", "order", "owner", "list", "again"},
         request'[r].location = request[r].location, request'[r].body = request[r].body,
         request[r].target # None, request[r].kind # "orders",
         request'[r].pc = "authorization" =>
           /\ request[r].kind = "challenge"
           /\ request'[r].authorization = AuthorizationOf(request[r].target),
         request'[r].pc = "order" =>
           request'[r].order = Root(request[r].target) /\ server.version = "v2",
         request'[r].pc = "owner" => request'[r].account = Owner(request[r].target),
         request'[r].pc \in {"list", "again"} =>
           /\ ~Wiped /\ ~request[r].late
           /\ request[r].kind \in
                IF request'[r].pc = "list" THEN {"order", "authorization"} ELSE {"challenge"}
  PROVE  IInv' /\ Grows
<1>. USE OrdersAssumption DEF IInv
<1>1. r \in Requests /\ r \notin Creators
  BY DEF Requests
<1>2. Keeps(r)
  BY <1>1 DEF Keeps, Reading, Same
<1>3. Grows /\ Wiped' = Wiped /\ server' = server /\ accounts' = accounts
  BY <1>1, <1>2, StillGrows DEF Wiped, faults, Reading
<1>4. PICK id : id = request[r].target
  OBVIOUS
<1>5. /\ Reads(r) /\ Finished(id) /\ id \in TargetOf(request[r].kind)
      /\ request[r].late => accounts[Owner(id)] # "valid"
  BY <1>4 DEF Reads
<1>6. Finished(id)' /\ Owner(id)' = Owner(id) /\ request'[r].target = id
  BY <1>3, <1>4, <1>5, FinishedGrows DEF Reading
<1>7. Reads(r)'
  <2>1. /\ request'[r].kind = request[r].kind /\ request'[r].late = request[r].late
        /\ request[r].kind \in {"order", "orders", "authorization", "challenge"}
        /\ Root(id)' = Root(id) /\ AuthorizationOf(id)' = AuthorizationOf(id)
        /\ TargetOf(request[r].kind)' = TargetOf(request'[r].kind)
    BY <1>5 DEF Reading, Same, Reads, Root, AuthorizationOf
  <2>. QED
    BY <1>3, <1>4, <1>5, <1>6, <2>1 DEF Reads, Getting
<1>8. Told(r)'
  <2>1. request[r].location = None /\ request[r].body = {}
    BY <1>1 DEF Told, Succeeded, Over
  <2>. QED
    BY <2>1 DEF Told, Succeeded
<1>. QED
  BY <1>1, <1>2, <1>7, <1>8, StillInv DEF Reading

LEMMA ReadingEnds ==
  ASSUME IInv, NEW r \in Readers, request[r].pc # "idle", ~Over(r),
         UNCHANGED <<server, accounts, records, job, faults>>,
         request[r].target # None, request[r].kind # "orders", ~request[r].late,
         Respond(r, 200, request[r].target, Kids(request[r].target))
  PROVE  IInv' /\ Grows
<1>. USE OrdersAssumption DEF IInv
<1>1. r \in Requests /\ r \notin Creators
  BY DEF Requests
<1>2. PICK id : id = request[r].target
  OBVIOUS
<1>3. /\ Reads(r) /\ Finished(id) /\ id \in TargetOf(request[r].kind)
  BY <1>2 DEF Reads
<1>4. id \in Ids \cup {None} /\ Kids(id) \in SUBSET Ids /\ 200 \in Codes
  BY <1>3, FinishedParts, KidsAreFinished DEF Codes
<1>5. /\ Reading(r) /\ request'[r].pc = "answered" /\ request'[r].code = 200
      /\ request'[r].location = id /\ request'[r].body = Kids(id)
  <2>1. Respond(r, 200, id, Kids(id))
    BY <1>2
  <2>2. /\ request' \in [Requests -> RequestRecord]
        /\ \A q \in Requests \ {r} : request'[q] = request[q]
        /\ request'[r].pc = "answered" /\ request'[r].code = 200
        /\ request'[r].location = id /\ request'[r].body = Kids(id)
        /\ Same(request[r], request'[r]) /\ request'[r].target = request[r].target
    BY ONLY <1>1, <1>4, <2>1, TypeOK, RespondIs
  <2>. QED
    BY <2>2 DEF Reading
<1>6. Keeps(r)
  BY <1>1, <1>5 DEF Keeps, Reading, Same
<1>7. Grows /\ Wiped' = Wiped /\ server' = server /\ accounts' = accounts
  BY <1>1, <1>6, StillGrows DEF Wiped, faults, Reading
<1>8. Finished(id)' /\ Kids(id)' = Kids(id) /\ request'[r].target = id
  BY <1>2, <1>3, <1>5, <1>7, FinishedGrows DEF Reading
<1>9. /\ request'[r].kind = request[r].kind /\ ~request'[r].late
      /\ request[r].kind \in {"order", "orders", "authorization", "challenge"}
  BY <1>3, <1>5 DEF Reading, Same, Reads
<1>10. Reads(r)'
  BY <1>3, <1>5, <1>8, <1>9 DEF Reads, Getting, TargetOf
<1>11. Told(r)'
  BY <1>2, <1>5, <1>8, <1>9 DEF Told, Succeeded
<1>. QED
  BY <1>1, <1>6, <1>10, <1>11, StillInv

(* The same for a reader's next local state.                                 *)
LEMMA PutReading ==
  ASSUME TypeOK, NEW r \in Requests, NEW new \in RequestRecord,
         request' = [request EXCEPT ![r] = new], Same(request[r], new),
         new.target = request[r].target,
         UNCHANGED <<server, accounts, records, job, faults>>
  PROVE  Reading(r) /\ request'[r] = new
BY Put DEF Reading

LEMMA GetChallengeInv == ASSUME IInv, NEW r \in Requests, GetChallenge(r) PROVE IInv' /\ Grows
<1>. USE OrdersAssumption DEF IInv
<1>. DEFINE q == request[r] id == q.target
<1>1. /\ ~Over(r) /\ q.pc = "challenge" /\ q \in RequestRecord
      /\ UNCHANGED <<server, accounts, records, job, faults>>
  BY DEF GetChallenge, Over, TypeOK
<1>2. r \in Readers /\ Reads(r) /\ q.kind = "challenge"
  BY <1>1 DEF Creates, Reads, Requests
<1>3. id # None => id \in ChallengeIds /\ Finished(id)
  BY <1>1, <1>2 DEF Reads, TargetOf
<1>4. ASSUME id # None, ~Wiped PROVE challenges[id] = FilledChallenge(id)
  BY ONLY <1>3, <1>4, IInv, FinishedIsStored
<1>5. CASE id \notin StoredChallenges /\ Refuse(r, 404)
  <2>1. id = None \/ Wiped
    BY ONLY <1>3, <1>5, <1>4 DEF StoredChallenges, FilledChallenge
  <2>. QED
    BY <1>1, <1>5, <2>1, RefuseInv DEF Codes
<1>6. CASE /\ id \in StoredChallenges
           /\ request' = [request EXCEPT ![r].pc = "authorization",
                            ![r].authorization = challenges[id].authorization]
  <2>1. /\ id # None /\ ~Wiped
    BY <1>6 DEF StoredChallenges, Loss, NoChallenge
  <2>2. challenges[id].authorization = AuthorizationOf(id) /\ AuthorizationOf(id) \in AuthorizationIds
    BY <1>3, <1>4, <2>1, ChallengeParts DEF FilledChallenge
  <2>. DEFINE new == [q EXCEPT !.pc = "authorization", !.authorization = AuthorizationOf(id)]
  <2>3. new \in RequestRecord
    <3>1. "authorization" \in Pcs
      BY DEF Pcs, Getting
    <3>. QED
      BY ONLY <1>1, <2>2, <3>1 DEF RequestRecord
  <2>4. request' = [request EXCEPT ![r] = new]
    <3>1. request' = [request EXCEPT ![r].pc = "authorization", ![r].authorization = AuthorizationOf(id)]
      BY <1>6, <2>2
    <3>2. request \in [Requests -> RequestRecord]
      BY DEF TypeOK
    <3>. QED
      BY ONLY <3>1, <3>2, r \in Requests
  <2>5. /\ new.pc = "authorization" /\ new.authorization = AuthorizationOf(id) /\ Same(q, new)
        /\ new.target = q.target /\ new.location = q.location /\ new.body = q.body
    BY ONLY <1>1 DEF RequestRecord, Same
  <2>. HIDE DEF new
  <2>6. Reading(r) /\ request'[r] = new
    BY <1>1, <2>3, <2>4, <2>5, PutReading
  <2>. QED
    BY <1>1, <1>2, <2>1, <2>5, <2>6, ReadingGoes
<1>. QED
  BY <1>5, <1>6 DEF GetChallenge

LEMMA GetAuthorizationInv == ASSUME IInv, NEW r \in Requests, GetAuthorization(r) PROVE IInv' /\ Grows
<1>. USE OrdersAssumption DEF IInv
<1>. DEFINE q == request[r] id == q.authorization
<1>1. /\ ~Over(r) /\ q.pc = "authorization" /\ q \in RequestRecord
      /\ UNCHANGED <<server, accounts, records, job, faults>>
  BY DEF GetAuthorization, Over, TypeOK
<1>2. r \in Readers /\ Reads(r)
  BY <1>1 DEF Creates, Requests
<1>3. \/ q.target = None /\ id = None
      \/ /\ q.target # None /\ q.kind # "orders" /\ id \in AuthorizationIds /\ Finished(q.target)
         /\ Whole(id) /\ Finished(id)
         /\ Root(q.target) = id[1] /\ Owner(q.target) = request[id[1]].account
  <2>1. CASE q.target = None
    BY <1>1, <1>2, <2>1 DEF Reads
  <2>2. CASE q.target # None /\ q.kind = "challenge"
    <3>1. q.target \in ChallengeIds /\ Finished(q.target) /\ id = AuthorizationOf(q.target)
      BY <1>1, <1>2, <2>2 DEF Reads, TargetOf
    <3>2. /\ Whole(id) /\ id \in AuthorizationIds /\ id[1] = q.target[1]
          /\ q.target \notin Creators
      BY <3>1, ChallengeParts, IdsDiffer DEF Finished
    <3>. QED
      BY <2>2, <3>1, <3>2 DEF Root, Owner, Finished
  <2>3. CASE q.target # None /\ q.kind # "challenge"
    <3>1. q.target \in AuthorizationIds /\ Finished(q.target) /\ id = q.target /\ q.kind # "orders"
      BY <1>1, <1>2, <2>3 DEF Reads, TargetOf
    <3>. QED
      BY <2>3, <3>1, IdsDiffer DEF Root, Owner, Finished
  <2>. QED
    BY <2>1, <2>2, <2>3
<1>4. ASSUME q.target # None, ~Wiped PROVE authorizations[id] = FilledAuthorization(id)
  BY ONLY <1>3, <1>4, IInv, FinishedIsStored
<1>5. CASE id \notin StoredAuthorizations /\ Refuse(r, 404)
  <2>1. q.target = None \/ Wiped
    BY ONLY <1>3, <1>5, <1>4 DEF StoredAuthorizations, FilledAuthorization
  <2>. QED
    BY <1>1, <1>5, <2>1, RefuseInv DEF Codes
<1>6. CASE id \in StoredAuthorizations
  <2>1. ~Wiped /\ q.target # None
    BY <1>3, <1>6 DEF StoredAuthorizations, Loss, NoAuthorization
  <2>2. /\ authorizations[id] = FilledAuthorization(id)
        /\ id[1] \in Creators /\ request[id[1]].account \in Accounts
    BY <1>3, <2>1, FinishedIsStored, FinishedParts
  <2>3. CASE /\ authorizations[id].order # None
             /\ request' = [request EXCEPT ![r].pc = "order", ![r].order = authorizations[id].order]
    <3>1. authorizations[id].order = id[1] /\ server.version = "v2"
      BY <2>2, <2>3 DEF FilledAuthorization
    <3>. DEFINE new == [q EXCEPT !.pc = "order", !.order = id[1]]
    <3>2. new \in RequestRecord
      <4>1. "order" \in Pcs
        BY DEF Pcs, Getting
      <4>. QED
        BY ONLY <1>1, <2>2, <4>1 DEF RequestRecord
    <3>3. request' = [request EXCEPT ![r] = new]
      <4>1. request' = [request EXCEPT ![r].pc = "order", ![r].order = id[1]]
        BY <2>3, <3>1
      <4>2. request \in [Requests -> RequestRecord]
        BY DEF TypeOK
      <4>. QED
        BY ONLY <4>1, <4>2, r \in Requests
    <3>4. /\ new.pc = "order" /\ new.order = id[1] /\ Same(q, new)
          /\ new.target = q.target /\ new.location = q.location /\ new.body = q.body
      BY ONLY <1>1 DEF RequestRecord, Same
    <3>. HIDE DEF new
    <3>5. Reading(r) /\ request'[r] = new
      BY <1>1, <3>2, <3>3, <3>4, PutReading
    <3>. QED
      BY <1>1, <1>2, <1>3, <2>1, <3>1, <3>4, <3>5, ReadingGoes
  <2>4. CASE /\ authorizations[id].order = None /\ authorizations[id].account # None
             /\ request' = [request EXCEPT ![r].pc = "owner",
                              ![r].account = authorizations[id].account]
    <3>1. authorizations[id].account = request[id[1]].account
      BY <2>2, <2>4 DEF FilledAuthorization
    <3>. DEFINE new == [q EXCEPT !.pc = "owner", !.account = request[id[1]].account]
    <3>2. new \in RequestRecord
      <4>1. "owner" \in Pcs
        BY DEF Pcs, Getting
      <4>. QED
        BY ONLY <1>1, <2>2, <4>1 DEF RequestRecord
    <3>3. request' = [request EXCEPT ![r] = new]
      <4>1. request' = [request EXCEPT ![r].pc = "owner", ![r].account = request[id[1]].account]
        BY <2>4, <3>1
      <4>2. request \in [Requests -> RequestRecord]
        BY DEF TypeOK
      <4>. QED
        BY ONLY <4>1, <4>2, r \in Requests
    <3>4. /\ new.pc = "owner" /\ new.account = request[id[1]].account /\ Same(q, new)
          /\ new.target = q.target /\ new.location = q.location /\ new.body = q.body
      BY ONLY <1>1 DEF RequestRecord, Same
    <3>. HIDE DEF new
    <3>5. Reading(r) /\ request'[r] = new
      BY <1>1, <3>2, <3>3, <3>4, PutReading
    <3>. QED
      BY <1>1, <1>2, <1>3, <2>1, <3>4, <3>5, ReadingGoes
  <2>5. CASE authorizations[id].order = None /\ authorizations[id].account = None
    BY <2>2, <2>5 DEF FilledAuthorization, TypeOK
  <2>. QED
    BY <1>6, <2>3, <2>4, <2>5 DEF GetAuthorization
<1>. QED
  BY <1>5, <1>6 DEF GetAuthorization

LEMMA GetOrderInv == ASSUME IInv, NEW r \in Requests, GetOrder(r) PROVE IInv' /\ Grows
<1>. USE OrdersAssumption DEF IInv
<1>. DEFINE q == request[r] id == q.order
<1>1. /\ ~Over(r) /\ q.pc = "order" /\ q \in RequestRecord
      /\ UNCHANGED <<server, accounts, records, job, faults>>
  BY DEF GetOrder, Over, TypeOK
<1>2. r \in Readers /\ Reads(r)
  BY <1>1 DEF Creates, Requests
<1>3. \/ q.target = None /\ id = None
      \/ /\ q.target # None /\ q.kind # "orders" /\ Finished(q.target) /\ server.version = "v2"
         /\ id = Root(q.target) /\ id \in Creators
         /\ request[id].account \in Accounts /\ Owner(q.target) = request[id].account
  BY <1>1, <1>2, FinishedParts DEF Reads
<1>4. q.target # None /\ ~Wiped => orders[id] = FilledOrder(id)
  <2>. SUFFICES ASSUME q.target # None, ~Wiped PROVE orders[id] = FilledOrder(id)
    OBVIOUS
  <2>1. q.target \in Ids /\ Finished(q.target) /\ id = Root(q.target) /\ server.version = "v2"
    BY <1>3, FinishedParts
  <2>2. CASE q.target \in Creators
    BY <2>1, <2>2, FinishedIsStored DEF Root
  <2>3. CASE q.target \in AuthorizationIds
    BY <2>1, <2>3, FinishedIsStored DEF Root
  <2>4. CASE q.target \in ChallengeIds
    <3>1. AuthorizationOf(q.target) \in AuthorizationIds /\ Finished(AuthorizationOf(q.target))
      BY <2>1, <2>4, ChallengeParts, FinishedIsStored
    <3>2. AuthorizationOf(q.target)[1] = id
      BY <2>1, <2>4, ChallengeParts DEF Root
    <3>. QED
      BY <2>1, <3>1, <3>2, FinishedIsStored
  <2>. QED
    BY <2>1, <2>2, <2>3, <2>4 DEF Ids
<1>5. CASE id \notin StoredOrders /\ Refuse(r, 404)
  <2>1. q.target = None \/ Wiped
    BY <1>3, <1>4, <1>5 DEF StoredOrders, FilledOrder
  <2>. QED
    BY <1>1, <1>5, <2>1, RefuseInv DEF Codes
<1>6. CASE /\ id \in StoredOrders
           /\ request' = [request EXCEPT ![r].pc = "owner", ![r].account = orders[id].account]
  <2>1. ~Wiped /\ q.target # None
    BY <1>3, <1>6 DEF StoredOrders, Loss, NoOrder
  <2>2. orders[id].account = request[id].account /\ request[id].account \in Accounts
    BY <1>3, <1>4, <2>1 DEF FilledOrder
  <2>. DEFINE new == [q EXCEPT !.pc = "owner", !.account = request[id].account]
  <2>3. new \in RequestRecord
    <3>1. "owner" \in Pcs
      BY DEF Pcs, Getting
    <3>. QED
      BY ONLY <1>1, <2>2, <3>1 DEF RequestRecord
  <2>4. request' = [request EXCEPT ![r] = new]
    <3>1. request' = [request EXCEPT ![r].pc = "owner", ![r].account = request[id].account]
      BY <1>6, <2>2
    <3>2. request \in [Requests -> RequestRecord]
      BY DEF TypeOK
    <3>. QED
      BY ONLY <3>1, <3>2, r \in Requests
  <2>5. /\ new.pc = "owner" /\ new.account = request[id].account /\ Same(q, new)
        /\ new.target = q.target /\ new.location = q.location /\ new.body = q.body
    BY ONLY <1>1 DEF RequestRecord, Same
  <2>. HIDE DEF new
  <2>6. Reading(r) /\ request'[r] = new
    BY <1>1, <2>3, <2>4, <2>5, PutReading
  <2>. QED
    BY <1>1, <1>2, <1>3, <2>1, <2>5, <2>6, ReadingGoes
<1>. QED
  BY <1>5, <1>6 DEF GetOrder

(* Challenges have nothing that belongs to them.                             *)
LEMMA NoKids == ASSUME NEW c \in ChallengeIds PROVE Kids(c) = {}
BY ChallengeParts, IdsDiffer DEF Kids

LEMMA GetOwnerInv == ASSUME IInv, NEW r \in Requests, GetOwner(r) PROVE IInv' /\ Grows
<1>. USE OrdersAssumption DEF IInv
<1>. DEFINE q == request[r] id == q.account
<1>1. /\ ~Over(r) /\ q.pc = "owner" /\ q \in RequestRecord
      /\ UNCHANGED <<server, accounts, records, job, faults>>
  BY DEF GetOwner, Over, TypeOK
<1>2. r \in Readers /\ Reads(r)
  BY <1>1 DEF Creates, Requests
<1>3. \/ q.kind = "orders" /\ id = None
      \/ /\ q.target # None /\ q.kind # "orders" /\ id = Owner(q.target) /\ id \in Accounts
         /\ q.target \in TargetOf(q.kind)
         /\ q.late => accounts[id] # "valid"
  BY <1>1, <1>2, FinishedParts DEF Reads
<1>4. CASE id \notin StoredAccounts /\ Refuse(r, 404)
  <2>1. q.kind = "orders" \/ Wiped
    BY <1>3, <1>4 DEF StoredAccounts, Loss
  <2>. QED
    BY <1>1, <1>4, <2>1, RefuseInv DEF Codes
<1>5. CASE id \in StoredAccounts /\ accounts[id] = "deactivated" /\ Refuse(r, 403)
  BY <1>1, <1>3, <1>5, RefuseInv DEF Codes, StoredAccounts
<1>6. CASE id \in StoredAccounts /\ accounts[id] = "valid"
  <2>1. /\ ~Wiped /\ ~q.late /\ q.target # None /\ q.kind # "orders"
        /\ q.kind \in {"order", "authorization", "challenge"}
        /\ q.kind = "challenge" => q.target \in ChallengeIds
    BY <1>1, <1>2, <1>3, <1>6 DEF StoredAccounts, Loss, Reads, TargetOf
  <2>2. ASSUME NEW pc \in {"list", "again"}, Goto(r, pc),
               q.kind \in IF pc = "list" THEN {"order", "authorization"} ELSE {"challenge"}
        PROVE  IInv' /\ Grows
    <3>1. /\ Reading(r) /\ request'[r].pc = pc
          /\ request'[r].location = q.location /\ request'[r].body = q.body
      BY <1>1, <2>2, GotoIs DEF Reading, Pcs
    <3>. QED
      BY <1>1, <1>2, <2>1, <2>2, <3>1, ReadingGoes
  <2>3. CASE Respond(r, 200, q.target, {}) /\ q.kind = "challenge"
    BY <1>1, <1>2, <2>1, <2>3, NoKids, ReadingEnds
  <2>. QED
    BY <1>6, <2>1, <2>2, <2>3 DEF GetOwner
<1>. QED
  BY <1>4, <1>5, <1>6 DEF GetOwner

LEMMA GetAgainInv == ASSUME IInv, NEW r \in Requests, GetAgain(r) PROVE IInv' /\ Grows
<1>. USE OrdersAssumption DEF IInv
<1>1. /\ ~Over(r) /\ request[r].pc = "again" /\ Respond(r, 200, request[r].target, {})
      /\ UNCHANGED <<server, accounts, records, job, faults>>
  BY DEF GetAgain, Over
<1>2. r \in Readers /\ Reads(r)
  BY <1>1 DEF Creates, Requests
<1>3. /\ request[r].kind = "challenge" /\ ~request[r].late /\ request[r].target # None
      /\ request[r].target \in ChallengeIds
  BY <1>1, <1>2 DEF Reads, TargetOf
<1>. QED
  BY <1>1, <1>2, <1>3, NoKids, ReadingEnds

(* The answer to a creation or to a reader lists all that belongs to it.     *)
LEMMA ListInv == ASSUME IInv, NEW r \in Requests, List(r) PROVE IInv' /\ Grows
<1>. USE OrdersAssumption DEF IInv
<1>. DEFINE q == request[r]
<1>1. /\ ~Over(r) /\ q.pc = "list" /\ q \in RequestRecord
      /\ UNCHANGED <<server, accounts, records, job, faults>>
      /\ Respond(r, IF q.kind = "new" THEN 201 ELSE 200, q.target, Children(q.target))
  BY DEF List, Over, TypeOK
<1>2. CASE r \in Readers
  <2>1. /\ Reads(r) /\ ~Wiped /\ ~q.late /\ q.target # None /\ Finished(q.target)
        /\ q.kind \in {"order", "authorization"}
        /\ q.target \in Creators \cup AuthorizationIds
    BY <1>1, <1>2 DEF Reads, TargetOf
  <2>2. Children(q.target) = Kids(q.target)
    BY <2>1, ChildrenAreKids
  <2>. QED
    BY <1>1, <1>2, <2>1, <2>2, ReadingEnds
<1>3. CASE r \in Creators
  <2>1. /\ Creates(r) /\ q.kind = "new" /\ ~Wiped /\ q.account \in Accounts /\ q.account # None
        /\ q.target = Made(r) /\ Finished(q.target) /\ ~q.late
    BY <1>1, <1>3 DEF Creates
  <2>2. PICK id : id = q.target
    OBVIOUS
  <2>3. /\ id \in Creators \cup AuthorizationIds /\ id \in Ids /\ id # None
    <3>1. Made(r) \in Creators \cup AuthorizationIds
      BY <1>3, <2>1 DEF Made, Creates, AuthorizationIds
    <3>. QED
      BY <2>1, <2>2, <3>1, FinishedParts
  <2>4. Children(id) = Kids(id) /\ Kids(id) \in SUBSET Ids
    BY <2>1, <2>2, <2>3, ChildrenAreKids, KidsAreFinished
  <2>5. Respond(r, 201, id, Kids(id)) /\ 201 \in Codes /\ id \in Ids \cup {None}
    BY <1>1, <2>1, <2>2, <2>3, <2>4 DEF Codes
  <2>6. /\ request' \in [Requests -> RequestRecord]
        /\ \A p \in Requests \ {r} : request'[p] = request[p]
        /\ request'[r].pc = "answered" /\ request'[r].code = 201
        /\ request'[r].location = id /\ request'[r].body = Kids(id)
        /\ Same(q, request'[r]) /\ request'[r].target = q.target
        /\ request'[r].account = q.account
    BY ONLY <2>4, <2>5, r \in Requests, TypeOK, RespondIs
  <2>7. Keeps(r) /\ r \notin Readers
    BY <1>1, <1>3, <2>6 DEF Keeps, Same, Joined, Settled
  <2>8. /\ Grows /\ Wiped' = Wiped /\ server' = server /\ accounts' = accounts
        /\ orders' = orders /\ FilledOrder(r)' = FilledOrder(r)
    BY <1>1, <2>6, <2>7, StillGrows DEF Wiped, faults, records, FilledOrder
  <2>9. Finished(id)' /\ Kids(id)' = Kids(id) /\ request'[r].target = id
    BY <2>1, <2>2, <2>6, <2>8, FinishedGrows
  <2>10. Creates(r)'
    BY <1>1, <2>1, <2>6, <2>8 DEF Creates, Same
  <2>11. Told(r)'
    BY <2>1, <2>3, <2>6, <2>9 DEF Told, Succeeded, Same
  <2>. QED
    BY <1>1, <2>7, <2>10, <2>11, StillInv
<1>. QED
  BY <1>2, <1>3 DEF Requests

-----------------------------------------------------------------------------
(* A call of a request fails. Nothing else does but the request.             *)
LEMMA RequestCallFailsInv == ASSUME IInv, NEW r \in Requests, RequestCallFails(r) PROVE IInv' /\ Grows
<1>. USE OrdersAssumption DEF IInv
<1>. DEFINE q == request[r]
            code == IF q.pc \in Getting THEN 404 ELSE 500
            new == [q EXCEPT !.pc = "answered", !.failed = TRUE, !.code = code]
<1>1. /\ ~Over(r) /\ q.pc \in Getting \cup {"find", "create", "fill", "list", "again"}
      /\ q.pc \notin {"idle", "join"} /\ q \in RequestRecord
      /\ UNCHANGED <<server, accounts, authorizations, challenges, job, restarts>>
      /\ failures' \in 0..MaxFailures
  BY DEF RequestCallFails, Over, TypeOK, Getting
<1>2. new \in RequestRecord
  <2>1. code \in Codes /\ code \notin {200, 201} /\ "answered" \in Pcs
    BY DEF Codes, Pcs
  <2>. HIDE DEF code
  <2>. QED
    BY ONLY <1>1, <2>1 DEF RequestRecord
<1>3. request' = [request EXCEPT ![r] = new]
  <2>1. /\ request \in [Requests -> RequestRecord]
        /\ request' = [request EXCEPT ![r].pc = "answered", ![r].failed = TRUE, ![r].code = code]
    BY DEF TypeOK, RequestCallFails
  <2>. HIDE DEF code
  <2>. QED
    BY ONLY <2>1, r \in Requests
<1>4. /\ new.pc = "answered" /\ new.failed /\ new.code \notin {200, 201} /\ Same(q, new)
      /\ new.target = q.target /\ new.account = q.account
      /\ new.location = q.location /\ new.body = q.body
  BY ONLY <1>1 DEF RequestRecord, Same
<1>. HIDE DEF new
<1>5. /\ request' \in [Requests -> RequestRecord] /\ request'[r] = new
      /\ \A p \in Requests \ {r} : request'[p] = request[p]
  BY ONLY <1>2, <1>3, r \in Requests, TypeOK, Put
<1>6. Keeps(r)
  BY <1>4, <1>5, <1>1 DEF Keeps, Same, Joined, Settled
<1>7. /\ \/ orders' = orders
         \/ q.pc = "create" /\ orders' = [orders EXCEPT ![r] = BareOrder]
         \/ q.pc = "fill" /\ orders' = [orders EXCEPT ![r] = FilledOrder(r)]
  BY DEF RequestCallFails
<1>8. r \in Readers => orders' = orders
  BY <1>7 DEF Reads, Getting
<1>9. r \in Creators /\ q.pc \in {"create", "fill"} => q.account \in Accounts
  BY DEF Creates
<1>10. orders' \in [Creators -> OrderRecord] /\ \A p \in Creators : orders'[p] # orders[p] =>
           p = r /\ q.pc \in {"create", "fill"}
  BY <1>7, <1>8, <1>9 DEF TypeOK, OrderRecord, BareOrder, FilledOrder, Stored, Requests
<1>11. Moves(r, {})
  <2>1. job' = [j \in Jobs |-> IF j \in {} THEN "create" ELSE job[j]]
    BY <1>1 DEF TypeOK
  <2>. QED
    BY <1>1, <1>6, <1>10, <2>1 DEF Moves
<1>12. Grows /\ Wiped' = Wiped /\ server' = server /\ accounts' = accounts
  BY <1>1, <1>11, MovesGrow DEF Wiped
<1>13. ASSUME r \in Creators PROVE Creates(r)'
  <2>1. Creates(r) /\ FilledOrder(r)' = FilledOrder(r)
    BY <1>4, <1>5, <1>13 DEF FilledOrder
  <2>2. /\ orders'[r] \in {NoOrder, BareOrder, FilledOrder(r)}
        /\ orders'[r].stored # "none" => q.account \in Accounts
    BY <1>7, <1>9, <1>13, <2>1 DEF Creates, TypeOK
  <2>3. /\ q.kind = "new" /\ q.wanted \in IF server.version = "v2" THEN Csrs \cup {None} ELSE Names
        /\ q.account # None => q.wanted # None /\ ~q.late
        /\ q.late => \A a \in Accounts : KidOf[a] = q.key => accounts[a] # "valid"
    BY <1>1, <2>1 DEF Creates
  <2>. QED
    BY ONLY <1>4, <1>5, <1>12, <2>1, <2>2, <2>3 DEF Creates, Same, NoOrder, BareOrder
<1>14. ASSUME r \in Readers PROVE Reads(r)'
  <2>1. PICK id : id = q.target
    OBVIOUS
  <2>2. Reads(r)
    BY <1>14
  <2>3. /\ q.kind \in {"order", "orders", "authorization", "challenge"}
        /\ q.kind # "orders" /\ id # None =>
             /\ id \in TargetOf(q.kind) /\ Finished(id)
             /\ q.late => accounts[Owner(id)] # "valid"
    BY <1>1, <2>1, <2>2 DEF Reads
  <2>4. q.kind # "orders" /\ id # None => Finished(id)' /\ Owner(id)' = Owner(id)
    BY <1>12, <2>3, FinishedGrows
  <2>5. TargetOf(q.kind)' = TargetOf(request'[r].kind)
    BY <1>4, <1>5 DEF TargetOf, Same
  <2>. QED
    BY <1>4, <1>5, <1>12, <2>1, <2>3, <2>4 DEF Reads, Same, Getting, TargetOf
<1>15. Told(r)'
  BY <1>1, <1>4, <1>5 DEF Told, Succeeded, Over
<1>. QED
  BY <1>11, <1>13, <1>14, <1>15, MovesInv

-----------------------------------------------------------------------------
(* A request arrives.                                                        *)
LEMMA ArrivesInv ==
  ASSUME IInv, NEW r \in Requests, NEW new \in RequestRecord, request[r] = Idle,
         request' = [request EXCEPT ![r] = new],
         UNCHANGED <<server, accounts, records, job, faults>>,
         new.pc \notin {"answered"}, new.location = None, new.body = {},
         r \in Creators => new.account = None /\ Creates(r)',
         Grows => (r \in Readers => Reads(r)')
  PROVE  IInv' /\ Grows
<1>. USE OrdersAssumption
<1>1. /\ request' \in [Requests -> RequestRecord] /\ request'[r] = new
      /\ \A p \in Requests \ {r} : request'[p] = request[p]
  BY Put DEF IInv
<1>2. Keeps(r)
  BY <1>1 DEF Keeps, Idle, Joined, Settled
<1>3. Grows
  BY <1>2, StillGrows
<1>4. Told(r)'
  BY <1>1 DEF Told, Succeeded
<1>. QED
  BY <1>2, <1>3, <1>4, StillInv

LEMMA NewInv == ASSUME IInv, NEW r \in Creators, New(r) PROVE IInv' /\ Grows
<1>. USE OrdersAssumption DEF IInv
<1>1. PICK k \in Keys \cup {None} :
        \E wanted \in IF server.version = "v2" THEN Csrs \cup {None} ELSE Names :
          ArriveNew(r, k, wanted)
  BY DEF New
<1>2. PICK wanted \in IF server.version = "v2" THEN Csrs \cup {None} ELSE Names :
        ArriveNew(r, k, wanted)
  BY <1>1
<1>. DEFINE late == \A a \in Accounts : KidOf[a] = k => accounts[a] # "valid"
            new == [Idle EXCEPT !.pc = "find", !.kind = "new", !.key = k, !.wanted = wanted,
                                !.late = late]
<1>3. /\ Creates(r) /\ request[r] = Idle /\ orders[r] = NoOrder /\ r \in Requests /\ r \notin Readers
      /\ UNCHANGED <<server, accounts, records, job, faults>>
      /\ request' = [request EXCEPT ![r] = new]
  BY <1>2 DEF ArriveNew, Creates, Requests
<1>4. late \in BOOLEAN /\ wanted \in Csrs \cup Names \cup {None}
  OBVIOUS
<1>5. new \in RequestRecord
  <2>. HIDE DEF late
  <2>. QED
    BY <1>4 DEF RequestRecord, Idle, Pcs, Kinds
<1>6. /\ new.pc = "find" /\ new.kind = "new" /\ new.key = k /\ new.wanted = wanted
      /\ new.late = late /\ new.account = None /\ new.location = None /\ new.body = {}
  BY DEF Idle
<1>. HIDE DEF new
<1>7. request'[r] = new
  BY <1>3, <1>5, Put
<1>8. Creates(r)'
  <2>1. orders' = orders /\ accounts' = accounts /\ server' = server
    BY <1>3 DEF records
  <2>2. /\ request'[r].late => \A a \in Accounts : KidOf[a] = k => accounts'[a] # "valid"
        /\ request'[r].pc = "find" /\ request'[r].kind = "new" /\ request'[r].key = k
        /\ request'[r].account = None
        /\ request'[r].wanted \in IF server'.version = "v2" THEN Csrs \cup {None} ELSE Names
    BY <1>6, <1>7, <2>1
  <2>. HIDE DEF late
  <2>3. orders'[r] = NoOrder
    BY <1>3, <2>1
  <2>. QED
    BY ONLY <2>2, <2>3 DEF Creates, NoOrder
<1>. QED
  BY <1>3, <1>5, <1>6, <1>8, ArrivesInv

LEMMA ArriveGetInv ==
  ASSUME IInv, NEW r \in Readers, NEW kind \in {"order", "authorization", "challenge"},
         NEW id \in (Known \cap TargetOf(kind)) \cup {None}, ArriveGet(r, kind, id),
         kind = "order" => server.version = "v2"
  PROVE  IInv' /\ Grows
<1>. USE OrdersAssumption DEF IInv
<1>. DEFINE late == id # None /\ accounts[Owner(id)] # "valid"
            new == [Idle EXCEPT !.pc = kind, !.kind = kind, !.target = id,
                      !.order = IF kind = "order" THEN id ELSE None,
                      !.authorization = IF kind = "authorization" THEN id ELSE None,
                      !.late = late]
<1>1. /\ Reads(r) /\ request[r] = Idle /\ r \in Requests /\ r \notin Creators
      /\ UNCHANGED <<server, accounts, records, job, faults>>
      /\ request' = [request EXCEPT ![r] = new]
  BY DEF ArriveGet, Reads, Requests
<1>2. /\ id # None => id \in TargetOf(kind) /\ Finished(id)
      /\ kind = "order" => id \in Creators \cup {None}
      /\ kind = "authorization" => id \in AuthorizationIds \cup {None}
      /\ id \in Ids \cup {None}
  BY KnownIsFinished DEF TargetOf, Ids
<1>3. new \in RequestRecord
  <2>1. late \in BOOLEAN
    OBVIOUS
  <2>. HIDE DEF late
  <2>. QED
    BY ONLY <1>2, <2>1, kind \in {"order", "authorization", "challenge"}
       DEF RequestRecord, Idle, Pcs, Getting, Kinds
<1>4. /\ new.pc = kind /\ new.kind = kind /\ new.target = id /\ new.late = late /\ ~new.failed
      /\ new.order = (IF kind = "order" THEN id ELSE None)
      /\ new.authorization = (IF kind = "authorization" THEN id ELSE None)
      /\ new.location = None /\ new.body = {}
  BY DEF Idle
<1>. HIDE DEF new
<1>5. request'[r] = new
  BY <1>1, <1>3, Put
<1>6. ASSUME Grows PROVE Reads(r)'
  <2>1. id # None => Finished(id)' /\ Owner(id)' = Owner(id)
    BY <1>2, <1>6, FinishedGrows
  <2>2. accounts' = accounts /\ server' = server
    BY <1>1
  <2>3. kind = "order" => id \in Creators \cup {None} /\ server.version = "v2"
    BY <1>2
  <2>4. /\ request'[r].pc = kind /\ request'[r].kind = kind /\ request'[r].target = id
        /\ request'[r].order = (IF kind = "order" THEN id ELSE None)
        /\ request'[r].authorization = (IF kind = "authorization" THEN id ELSE None)
        /\ id # None /\ request'[r].late => accounts'[Owner(id)'] # "valid"
    BY <1>4, <1>5, <2>1, <2>2
  <2>. HIDE DEF late
  <2>5. /\ id # None => id \in TargetOf(kind)
        /\ kind = "order" => Root(id)' = id \/ id = None
    BY <1>2 DEF Root, TargetOf
  <2>. QED
    BY ONLY <2>1, <2>2, <2>3, <2>4, <2>5, kind \in {"order", "authorization", "challenge"}
       DEF Reads, TargetOf, Getting
<1>. QED
  BY <1>1, <1>3, <1>4, <1>6, ArrivesInv

LEMMA ArriveGetOrdersInv ==
  ASSUME IInv, NEW r \in Readers, NEW a \in Accounts, ArriveGetOrders(r, a)
  PROVE  IInv' /\ Grows
<1>. USE OrdersAssumption DEF IInv
<1>. DEFINE late == accounts[a] # "valid"
            new == [Idle EXCEPT !.pc = "owner", !.kind = "orders", !.target = a, !.late = late]
<1>1. /\ Reads(r) /\ request[r] = Idle /\ r \in Requests /\ r \notin Creators
      /\ UNCHANGED <<server, accounts, records, job, faults>>
      /\ request' = [request EXCEPT ![r] = new]
  BY DEF ArriveGetOrders, Reads, Requests
<1>2. new \in RequestRecord
  <2>1. late \in BOOLEAN
    OBVIOUS
  <2>. HIDE DEF late
  <2>. QED
    BY <2>1 DEF RequestRecord, Idle, Pcs, Getting, Kinds
<1>3. /\ new.pc = "owner" /\ new.kind = "orders" /\ new.account = None
      /\ new.location = None /\ new.body = {}
  BY DEF Idle
<1>. HIDE DEF new
<1>4. request'[r] = new
  BY <1>1, <1>2, Put
<1>5. Reads(r)'
  BY ONLY <1>3, <1>4 DEF Reads, Getting
<1>. QED
  BY <1>1, <1>2, <1>3, <1>5, ArrivesInv

LEMMA GetInv == ASSUME IInv, NEW r \in Readers, Get(r) PROVE IInv' /\ Grows
<1>1. ASSUME NEW a \in Accounts, ArriveGetOrders(r, a) PROVE IInv' /\ Grows
  BY <1>1, ArriveGetOrdersInv
<1>2. ASSUME server.version = "v2", NEW id \in (Known \cap Creators) \cup {None},
             ArriveGet(r, "order", id)
      PROVE  IInv' /\ Grows
  <2>. DEFINE kind == "order"
  <2>1. id \in (Known \cap TargetOf(kind)) \cup {None}
    BY DEF TargetOf
  <2>. QED
    BY <1>2, <2>1, ArriveGetInv
<1>3. ASSUME NEW id \in (Known \cap AuthorizationIds) \cup {None},
             ArriveGet(r, "authorization", id)
      PROVE  IInv' /\ Grows
  <2>. DEFINE kind == "authorization"
  <2>1. id \in (Known \cap TargetOf(kind)) \cup {None}
    BY DEF TargetOf
  <2>. QED
    BY <1>3, <2>1, ArriveGetInv
<1>4. ASSUME NEW id \in (Known \cap ChallengeIds) \cup {None}, ArriveGet(r, "challenge", id)
      PROVE  IInv' /\ Grows
  <2>. DEFINE kind == "challenge"
  <2>1. id \in (Known \cap TargetOf(kind)) \cup {None}
    BY DEF TargetOf
  <2>. QED
    BY <1>4, <2>1, ArriveGetInv
<1>. QED
  BY <1>1, <1>2, <1>3, <1>4 DEF Get

-----------------------------------------------------------------------------
(* The creations that run behind the requests.                               *)
Works ==
  /\ UNCHANGED <<server, accounts, orders, request, restarts>>
  /\ failures' \in 0..MaxFailures
  /\ \A j \in Jobs :
       /\ job[j] = "done" => job'[j] = "done"
       /\ job[j] \in {"wait", "lost"} => job'[j] \in {"wait", "lost"}

LEMMA WorksGrow ==
  ASSUME IInv, Works
  PROVE  Grows /\ Wiped' = Wiped
BY DEF Works, Grows, Wiped, Settled, Joined

LEMMA WorksInv ==
  ASSUME IInv, Works, NEW j \in Jobs, job[j] \in {"create", "update"},
         job' \in [Jobs -> {"none", "create", "update", "wait", "done", "failed", "lost"}],
         authorizations' \in [AuthorizationIds ->
           [stored : Stored, order : Creators \cup {None}, account : Accounts \cup {None}]],
         challenges' \in [ChallengeIds ->
           [stored : Stored, authorization : AuthorizationIds \cup {None}]],
         \A a \in AuthorizationIds : Authorizing(a)',
         \A c \in ChallengeIds : Challenging(c)'
  PROVE  IInv' /\ Grows
<1>. USE OrdersAssumption DEF IInv
<1>1. Grows /\ Wiped' = Wiped
  BY WorksGrow
<1>2. ~Wiped
  BY DEF Loss
<1>3. Loss'
  BY <1>1, <1>2 DEF Loss, Works
<1>4. \A r \in Creators : Creates(r)'
  BY <1>1, CreatesKept DEF Works
<1>5. \A r \in Readers : Reads(r)'
  BY <1>1, ReadsKept DEF Works
<1>6. \A r \in Requests : Told(r)'
  BY <1>1, ToldKept DEF Works
<1>7. TypeOK'
  BY DEF TypeOK, Works
<1>. QED
  BY <1>1, <1>3, <1>4, <1>5, <1>6, <1>7

LEMMA AuthorizationWorks ==
  ASSUME IInv, NEW a \in AuthorizationIds, NEW to, NEW new, NEW started \in BOOLEAN,
         UNCHANGED <<server, accounts, orders, challenges, request, restarts>>,
         failures' \in 0..MaxFailures,
         authorizations' = [authorizations EXCEPT ![a] = new],
         job' = [j \in Jobs |-> IF j = a THEN to
                                ELSE IF started /\ j \in ChallengesOf(a) THEN "create" ELSE job[j]],
         \/ job[a] = "create" /\ to = "update" /\ new = BareAuthorization /\ ~started
         \/ job[a] = "update" /\ to = "wait" /\ new = FilledAuthorization(a) /\ started
         \/ /\ job[a] \in {"create", "update"} /\ to = "failed" /\ ~started
            /\ \/ new = authorizations[a]
               \/ new = BareAuthorization
               \/ new = FilledAuthorization(a)
  PROVE  IInv' /\ Grows
<1>. USE OrdersAssumption DEF IInv
<1>1. /\ a \in Jobs /\ a[1] \in Creators /\ ChallengesOf(a) \subseteq ChallengeIds
      /\ \A c \in ChallengesOf(a) : AuthorizationOf(c) = a
      /\ Authorizing(a) /\ job[a] \in {"create", "update"} /\ ~Wiped
  BY AuthorizationParts DEF Loss
<1>2. \A c \in ChallengesOf(a) : c \in Jobs /\ job[c] = "none"
  BY <1>1 DEF Challenging, Jobs
<1>3. Works
  BY <1>1, <1>2 DEF Works
<1>4. Grows /\ Wiped' = Wiped
  BY <1>3, WorksGrow
<1>5. authorizations'[a] = new /\ job'[a] = to
  BY <1>1 DEF TypeOK
<1>6. FilledAuthorization(a)' = FilledAuthorization(a) /\ FilledOrder(a[1])' = FilledOrder(a[1])
      /\ Wanted(a[1])' = Wanted(a[1])
  BY DEF FilledAuthorization, FilledOrder, Wanted, Domains
<1>7. Authorizing(a)'
  BY <1>1, <1>3, <1>4, <1>5, <1>6 DEF Authorizing, Works
<1>8. ASSUME NEW b \in AuthorizationIds, b # a PROVE Authorizing(b)'
  <2>1. b \in Jobs /\ b \notin ChallengesOf(a)
    BY <1>1, IdsDiffer DEF Jobs
  <2>2. job'[b] = job[b] /\ authorizations'[b] = authorizations[b]
    BY <1>8, <2>1 DEF TypeOK
  <2>. QED
    BY <1>4, <2>2, AuthorizingKept
<1>9. ASSUME NEW c \in ChallengeIds, c \notin ChallengesOf(a) PROVE Challenging(c)'
  <2>1. /\ AuthorizationOf(c) \in AuthorizationIds /\ AuthorizationOf(c) # a
        /\ c \in Jobs /\ AuthorizationOf(c) \in Jobs /\ c # a
        /\ AuthorizationOf(c) \notin ChallengesOf(a)
    BY <1>1, <1>9, ChallengeParts, IdsDiffer DEF Jobs
  <2>2. /\ job'[c] = job[c] /\ job'[AuthorizationOf(c)] = job[AuthorizationOf(c)]
        /\ authorizations'[AuthorizationOf(c)] = authorizations[AuthorizationOf(c)]
    BY <1>9, <2>1 DEF TypeOK
  <2>. QED
    BY <1>4, <2>2, ChallengingKept
<1>10. ASSUME NEW c \in ChallengesOf(a) PROVE Challenging(c)'
  <2>1. /\ c \in ChallengeIds /\ c \in Jobs /\ c # a /\ AuthorizationOf(c) = a
        /\ job[c] = "none" /\ Challenging(c) /\ job[a] # "wait"
    BY <1>1, <1>2, IdsDiffer
  <2>2. CASE ~started
    <3>1. job'[c] = job[c]
      BY <2>1, <2>2
    <3>. QED
      BY <1>4, <2>1, <3>1, ChallengingKept
  <2>3. CASE started
    <3>1. /\ job'[c] = "create" /\ job'[a] = "wait" /\ AuthorizationOf(c)' = a
          /\ authorizations'[a] = FilledAuthorization(a)' /\ challenges'[c] = NoChallenge
      BY <1>5, <1>6, <2>1, <2>3 DEF Challenging, AuthorizationOf
    <3>. QED
      BY ONLY <3>1 DEF Challenging, NoChallenge
  <2>. QED
    BY <2>2, <2>3
<1>11. job' \in [Jobs -> {"none", "create", "update", "wait", "done", "failed", "lost"}]
  BY DEF TypeOK
<1>12. authorizations' \in [AuthorizationIds ->
         [stored : Stored, order : Creators \cup {None}, account : Accounts \cup {None}]]
  <2>1. request[a[1]].account \in Accounts
    BY <1>1 DEF Authorizing
  <2>2. new \in [stored : Stored, order : Creators \cup {None}, account : Accounts \cup {None}]
    BY <1>1, <2>1 DEF TypeOK, BareAuthorization, FilledAuthorization, Stored
  <2>. QED
    BY <2>2 DEF TypeOK
<1>13. challenges' \in [ChallengeIds ->
         [stored : Stored, authorization : AuthorizationIds \cup {None}]]
  BY DEF TypeOK
<1>. QED
  BY <1>1, <1>3, <1>7, <1>8, <1>9, <1>10, <1>11, <1>12, <1>13, WorksInv

LEMMA ChallengeWorks ==
  ASSUME IInv, NEW c \in ChallengeIds, NEW to, NEW new,
         UNCHANGED <<server, accounts, orders, authorizations, request, restarts>>,
         failures' \in 0..MaxFailures,
         challenges' = [challenges EXCEPT ![c] = new],
         job' = [job EXCEPT ![c] = to],
         \/ job[c] = "create" /\ to = "update" /\ new = BareChallenge
         \/ job[c] = "update" /\ to = "done" /\ new = FilledChallenge(c)
         \/ /\ job[c] \in {"create", "update"} /\ to = "failed"
            /\ new \in {challenges[c], BareChallenge, FilledChallenge(c)}
  PROVE  IInv' /\ Grows
<1>. USE OrdersAssumption DEF IInv
<1>1. /\ c \in Jobs /\ AuthorizationOf(c) \in AuthorizationIds
      /\ Challenging(c) /\ job[c] \in {"create", "update"} /\ ~Wiped
  BY ChallengeParts DEF Loss
<1>2. /\ job'[c] = to /\ challenges'[c] = new
      /\ \A j \in Jobs \ {c} : job'[j] = job[j]
      /\ \A d \in ChallengeIds \ {c} : challenges'[d] = challenges[d]
      /\ job' \in [Jobs -> {"none", "create", "update", "wait", "done", "failed", "lost"}]
  BY <1>1 DEF TypeOK
<1>3. Works
  BY <1>1, <1>2 DEF Works
<1>4. Grows /\ Wiped' = Wiped
  BY <1>3, WorksGrow
<1>5. ASSUME NEW a \in AuthorizationIds PROVE Authorizing(a)' /\ job'[a] = job[a]
  <2>1. a \in Jobs /\ a # c
    BY IdsDiffer DEF Jobs
  <2>. QED
    BY <1>2, <1>4, <2>1, AuthorizingKept
<1>6. ASSUME NEW d \in ChallengeIds, d # c PROVE Challenging(d)'
  <2>1. d \in Jobs /\ AuthorizationOf(d) \in AuthorizationIds
    BY ChallengeParts
  <2>. QED
    BY <1>2, <1>4, <1>5, <1>6, <2>1, ChallengingKept
<1>7. Challenging(c)'
  <2>1. /\ job[AuthorizationOf(c)] = "wait"
        /\ authorizations[AuthorizationOf(c)] = FilledAuthorization(AuthorizationOf(c))
        /\ new \in {NoChallenge, BareChallenge, FilledChallenge(c)}
    BY <1>1 DEF Challenging
  <2>2. /\ AuthorizationOf(c)' = AuthorizationOf(c) /\ FilledChallenge(c)' = FilledChallenge(c)
        /\ FilledAuthorization(AuthorizationOf(c))' = FilledAuthorization(AuthorizationOf(c))
    BY DEF FilledAuthorization, FilledChallenge, AuthorizationOf
  <2>3. /\ job'[AuthorizationOf(c)] = "wait"
        /\ authorizations'[AuthorizationOf(c)] = FilledAuthorization(AuthorizationOf(c))
    BY <1>1, <1>5, <2>1
  <2>4. /\ to = "update" => new = BareChallenge
        /\ to = "done" => new = FilledChallenge(c)
        /\ to \in {"update", "done", "failed"}
    OBVIOUS
  <2>. QED
    BY ONLY <1>2, <2>1, <2>2, <2>3, <2>4 DEF Challenging
<1>8. challenges' \in [ChallengeIds ->
        [stored : Stored, authorization : AuthorizationIds \cup {None}]]
  BY <1>1 DEF TypeOK, BareChallenge, FilledChallenge, Stored
<1>9. authorizations' \in [AuthorizationIds ->
        [stored : Stored, order : Creators \cup {None}, account : Accounts \cup {None}]]
  BY DEF TypeOK
<1>. QED
  BY <1>1, <1>2, <1>3, <1>5, <1>6, <1>7, <1>8, <1>9, WorksInv

LEMMA AuthorizationStepInv ==
  ASSUME IInv, NEW a \in AuthorizationIds, AuthorizationStep(a) \/ AuthorizationCallFails(a)
  PROVE  IInv' /\ Grows
<1>. USE OrdersAssumption DEF IInv
<1>1. /\ failures \in 0..MaxFailures /\ a \in Jobs
      /\ job = [j \in Jobs |-> job[j]] /\ authorizations = [authorizations EXCEPT ![a] = @]
  BY AuthorizationParts DEF TypeOK
<1>2. \A to : [job EXCEPT ![a] = to] =
        [j \in Jobs |-> IF j = a THEN to
                        ELSE IF FALSE /\ j \in ChallengesOf(a) THEN "create" ELSE job[j]]
  BY <1>1
<1>3. CASE CreateAuthorization(a)
  <2>1. /\ job[a] = "create" /\ failures' \in 0..MaxFailures
        /\ authorizations' = [authorizations EXCEPT ![a] = BareAuthorization]
        /\ job' = [j \in Jobs |-> IF j = a THEN "update"
                                 ELSE IF FALSE /\ j \in ChallengesOf(a) THEN "create" ELSE job[j]]
        /\ UNCHANGED <<server, accounts, orders, challenges, request, restarts>>
    BY <1>1, <1>2, <1>3 DEF CreateAuthorization, faults
  <2>2. FALSE \in BOOLEAN
    OBVIOUS
  <2>. QED
    BY ONLY <2>1, <2>2, IInv, a \in AuthorizationIds, AuthorizationWorks
<1>4. CASE UpdateAuthorization(a)
  <2>1. job' = [j \in Jobs |-> IF j = a THEN "wait"
                               ELSE IF TRUE /\ j \in ChallengesOf(a) THEN "create" ELSE job[j]]
    BY <1>4 DEF UpdateAuthorization
  <2>2. /\ job[a] = "update" /\ failures' \in 0..MaxFailures
        /\ authorizations' = [authorizations EXCEPT ![a] = FilledAuthorization(a)]
        /\ UNCHANGED <<server, accounts, orders, challenges, request, restarts>>
    BY <1>1, <1>4 DEF UpdateAuthorization, faults
  <2>3. TRUE \in BOOLEAN
    OBVIOUS
  <2>. QED
    BY ONLY <2>1, <2>2, <2>3, IInv, a \in AuthorizationIds, AuthorizationWorks
<1>5. CASE AuthorizationCallFails(a)
  <2>1. /\ failures' \in 0..MaxFailures /\ job[a] \in {"create", "update"}
        /\ job' = [job EXCEPT ![a] = "failed"]
        /\ UNCHANGED <<server, accounts, orders, challenges, request, restarts>>
    BY <1>1, <1>5 DEF AuthorizationCallFails
  <2>2. PICK new :
          /\ authorizations' = [authorizations EXCEPT ![a] = new]
          /\ \/ new = authorizations[a]
             \/ new = BareAuthorization
             \/ new = FilledAuthorization(a)
    <3>1. \/ authorizations' = [authorizations EXCEPT ![a] = authorizations[a]]
          \/ authorizations' = [authorizations EXCEPT ![a] = BareAuthorization]
          \/ authorizations' = [authorizations EXCEPT ![a] = FilledAuthorization(a)]
      BY <1>1, <1>5 DEF AuthorizationCallFails
    <3>. QED
      BY ONLY <3>1
  <2>3. job' = [j \in Jobs |-> IF j = a THEN "failed"
                               ELSE IF FALSE /\ j \in ChallengesOf(a) THEN "create" ELSE job[j]]
    BY ONLY <1>2, <2>1
  <2>4. FALSE \in BOOLEAN
    OBVIOUS
  <2>. QED
    BY ONLY <2>1, <2>2, <2>3, <2>4, IInv, a \in AuthorizationIds, AuthorizationWorks
<1>. QED
  BY <1>3, <1>4, <1>5 DEF AuthorizationStep

LEMMA ChallengeStepInv ==
  ASSUME IInv, NEW c \in ChallengeIds, ChallengeStep(c) \/ ChallengeCallFails(c)
  PROVE  IInv' /\ Grows
<1>. USE OrdersAssumption DEF IInv
<1>1. failures \in 0..MaxFailures /\ challenges = [challenges EXCEPT ![c] = @]
  BY DEF TypeOK
<1>2. CASE CreateChallenge(c)
  BY <1>1, <1>2, ChallengeWorks DEF CreateChallenge, faults
<1>3. CASE UpdateChallenge(c)
  BY <1>1, <1>3, ChallengeWorks DEF UpdateChallenge, faults
<1>4. CASE ChallengeCallFails(c)
  <2>1. /\ failures' \in 0..MaxFailures /\ job[c] \in {"create", "update"}
        /\ job' = [job EXCEPT ![c] = "failed"]
        /\ UNCHANGED <<server, accounts, orders, authorizations, request, restarts>>
    BY <1>1, <1>4 DEF ChallengeCallFails
  <2>2. PICK new \in {challenges[c], BareChallenge, FilledChallenge(c)} :
          challenges' = [challenges EXCEPT ![c] = new]
    BY <1>1, <1>4 DEF ChallengeCallFails
  <2>. QED
    BY <2>1, <2>2, ChallengeWorks
<1>. QED
  BY <1>2, <1>3, <1>4 DEF ChallengeStep

-----------------------------------------------------------------------------
(* The owner of an account, and the end of the server.                       *)
LEMMA DeactivateInv == ASSUME IInv, NEW a \in Accounts, Deactivate(a) PROVE IInv' /\ Grows
<1>. USE OrdersAssumption DEF IInv
<1>1. /\ UNCHANGED <<server, records, job, request, faults>>
      /\ UNCHANGED <<orders, authorizations, challenges, failures, restarts>>
      /\ \A b \in Accounts : 
           \/ accounts'[b] = accounts[b]
           \/ accounts[b] = "valid" /\ accounts'[b] = "deactivated"
      /\ accounts' \in [Accounts -> {"none", "valid", "deactivated"}] /\ accounts[a] = "valid"
  BY DEF Deactivate, records, faults, TypeOK
<1>2. Grows /\ Wiped' = Wiped
  BY <1>1 DEF Grows, Wiped, Joined, Settled
<1>3. TypeOK' /\ Loss'
  BY <1>1, <1>2 DEF TypeOK, Loss
<1>4. \A b \in AuthorizationIds : Authorizing(b)'
  BY <1>1, <1>2, AuthorizingKept
<1>5. \A c \in ChallengeIds : Challenging(c)'
  BY <1>1, <1>2, ChallengingKept
<1>6. \A r \in Creators : Creates(r)'
  BY <1>1, <1>2, CreatesKept
<1>7. \A r \in Readers : Reads(r)'
  BY <1>1, <1>2, ReadsKept
<1>8. \A r \in Requests : Told(r)'
  BY <1>1, <1>2, ToldKept
<1>. QED
  BY <1>2, <1>3, <1>4, <1>5, <1>6, <1>7, <1>8

LEMMA RestartInv == ASSUME IInv, Restart PROVE IInv' /\ Grows
<1>. USE OrdersAssumption DEF IInv
<1>1. /\ UNCHANGED <<server, failures>> /\ restarts' \in 0..MaxRestarts
      /\ Wiped' <=> server.engine = "internaldb"
      /\ Wiped => Wiped'
  BY DEF Restart, TypeOK, Wiped
<1>2. IF Wiped'
      THEN /\ accounts' = [a \in Accounts |-> "none"]
           /\ orders' = [r \in Creators |-> NoOrder]
           /\ authorizations' = [a \in AuthorizationIds |-> NoAuthorization]
           /\ challenges' = [c \in ChallengeIds |-> NoChallenge]
      ELSE UNCHANGED <<accounts, orders, authorizations, challenges>>
  BY <1>1 DEF Restart, records
<1>3. \A r \in Requests :
        /\ request'[r] = IF Busy(r) THEN [request[r] EXCEPT !.pc = "lost"] ELSE request[r]
        /\ request'[r].pc = IF Busy(r) THEN "lost" ELSE request[r].pc
        /\ Same(request[r], request'[r])
        /\ request'[r].account = request[r].account /\ request'[r].target = request[r].target
        /\ request'[r].location = request[r].location /\ request'[r].body = request[r].body
        /\ request'[r].code = request[r].code /\ request'[r].failed = request[r].failed
        /\ request'[r] \in RequestRecord
  <2>2. \A r \in Requests : request[r] \in RequestRecord /\ Same(request[r], request[r])
    BY DEF TypeOK, Same
  <2>3. \A r \in Requests :
          request'[r] = IF Busy(r) THEN [request[r] EXCEPT !.pc = "lost"] ELSE request[r]
    BY DEF Restart
  <2>4. ASSUME NEW r \in Requests
        PROVE  /\ request'[r].pc = IF Busy(r) THEN "lost" ELSE request[r].pc
               /\ Same(request[r], request'[r])
               /\ request'[r].account = request[r].account /\ request'[r].target = request[r].target
               /\ request'[r].location = request[r].location /\ request'[r].body = request[r].body
               /\ request'[r].code = request[r].code /\ request'[r].failed = request[r].failed
               /\ request'[r] \in RequestRecord
    <3>1. CASE Busy(r)
      <4>. DEFINE q == request[r] new == [q EXCEPT !.pc = "lost"]
      <4>1. q \in RequestRecord /\ "lost" \in Pcs
        BY ONLY <2>2, r \in Requests DEF Pcs
      <4>2. /\ new.pc = "lost" /\ Same(q, new) /\ new \in RequestRecord
            /\ new.account = q.account /\ new.target = q.target
            /\ new.location = q.location /\ new.body = q.body
            /\ new.code = q.code /\ new.failed = q.failed
        BY ONLY <4>1 DEF RequestRecord, Same
      <4>3. request'[r] = new
        BY ONLY <2>3, <3>1, r \in Requests
      <4>. HIDE DEF new
      <4>. QED
        BY ONLY <3>1, <4>2, <4>3
    <3>2. CASE ~Busy(r)
      <4>1. request'[r] = request[r]
        BY ONLY <2>3, <3>2, r \in Requests
      <4>. QED
        BY ONLY <2>2, <3>2, <4>1, r \in Requests
    <3>. QED
      BY ONLY <3>1, <3>2
  <2>. QED
    BY ONLY <2>3, <2>4
<1>4. /\ \A j \in Jobs :
           job'[j] = IF job[j] \in {"create", "update", "wait"} THEN "lost" ELSE job[j]
      /\ \A r \in Requests : Busy(r) <=> request[r].pc \notin {"idle", "answered", "lost"}
      /\ request' \in [Requests -> RequestRecord]
  BY <1>3 DEF Restart, Busy, Over
<1>5. Grows
  <2>1. \A a \in Accounts :
          /\ accounts[a] # "valid" => accounts'[a] # "valid"
          /\ accounts[a] = "deactivated" => accounts'[a] = "deactivated" \/ Wiped'
    BY <1>2
  <2>2. ASSUME NEW r \in Creators
        PROVE  /\ request'[r].kind = request[r].kind /\ request'[r].key = request[r].key
               /\ request'[r].wanted = request[r].wanted /\ request'[r].late = request[r].late
               /\ request'[r].account = request[r].account
               /\ request[r].pc \in Joined =>
                    request'[r].pc \in Joined /\ (Wiped' \/ orders'[r] = orders[r])
               /\ request[r].pc \in Settled => request'[r].pc \in Settled
    BY <1>2, <1>3, <1>4 DEF Same, Joined, Settled, Requests
  <2>3. ASSUME NEW j \in Jobs
        PROVE  /\ job[j] = "done" => job'[j] = "done"
               /\ job[j] \in {"wait", "lost"} => job'[j] \in {"wait", "lost"}
    BY <1>4
  <2>. QED
    BY <1>1, <2>1, <2>2, <2>3 DEF Grows
<1>6. TypeOK'
  <2>1. job' \in [Jobs -> {"none", "create", "update", "wait", "done", "failed", "lost"}]
    BY DEF Restart, TypeOK
  <2>2. accounts' \in [Accounts -> {"none", "valid", "deactivated"}]
    BY <1>2 DEF TypeOK
  <2>3. /\ orders' \in [Creators -> [stored : Stored, account : Accounts \cup {None}]]
        /\ authorizations' \in [AuthorizationIds ->
             [stored : Stored, order : Creators \cup {None}, account : Accounts \cup {None}]]
        /\ challenges' \in [ChallengeIds ->
             [stored : Stored, authorization : AuthorizationIds \cup {None}]]
    BY <1>2 DEF TypeOK, NoOrder, NoAuthorization, NoChallenge, Stored
  <2>. QED
    BY <1>1, <1>4, <2>1, <2>2, <2>3 DEF TypeOK
<1>7. Loss'
  <2>1. \A j \in Jobs : job'[j] \in {"none", "done", "failed", "lost"}
    BY <1>4 DEF TypeOK
  <2>. QED
    BY <1>1, <1>2, <2>1 DEF Loss
<1>8. ASSUME NEW a \in AuthorizationIds PROVE Authorizing(a)'
  <2>1. a[1] \in Creators /\ a \in Jobs /\ Authorizing(a)
    BY AuthorizationParts
  <2>2. CASE job[a] = "none"
    <3>1. job'[a] = "none" /\ authorizations'[a] = NoAuthorization
      BY <1>2, <1>4, <2>1, <2>2 DEF Authorizing
    <3>. QED
      BY ONLY <3>1 DEF Authorizing
  <2>3. CASE job[a] # "none"
    <3>1. /\ request[a[1]].pc \in Joined /\ request[a[1]].pc # "idle" /\ a[2] \in Wanted(a[1])
          /\ request[a[1]].account \in Accounts /\ request[a[1]].account # None
          /\ server.version = "v2" => Wiped \/ orders[a[1]] = FilledOrder(a[1])
      BY <2>1, <2>3 DEF Authorizing, Joined, Settled
    <3>2. /\ Wanted(a[1])' = Wanted(a[1]) /\ FilledOrder(a[1])' = FilledOrder(a[1])
          /\ FilledAuthorization(a)' = FilledAuthorization(a)
      BY <1>5, <2>1, <3>1, CreatorGrows
    <3>3. /\ request'[a[1]].pc \in Joined /\ request'[a[1]].account \in Accounts
          /\ Wiped' \/ orders'[a[1]] = orders[a[1]]
          /\ server' = server
      BY <1>5, <2>1, <3>1 DEF Grows
    <3>4. /\ job'[a] \in {"failed", "lost"}
          /\ authorizations'[a] \in {NoAuthorization, BareAuthorization, FilledAuthorization(a)}
      BY <1>2, <1>4, <2>1, <2>3 DEF Authorizing
    <3>. QED
      BY <1>1, <3>1, <3>2, <3>3, <3>4 DEF Authorizing
  <2>. QED
    BY <2>2, <2>3
<1>9. ASSUME NEW c \in ChallengeIds PROVE Challenging(c)'
  <2>. DEFINE a == AuthorizationOf(c)
  <2>1. /\ c \in Jobs /\ a \in AuthorizationIds /\ a \in Jobs /\ a[1] \in Creators
        /\ Challenging(c) /\ Authorizing(a)
    BY ChallengeParts, AuthorizationParts
  <2>2. CASE job[c] = "none"
    <3>1. job'[c] = "none" /\ challenges'[c] = NoChallenge
      BY <1>2, <1>4, <2>1, <2>2 DEF Challenging
    <3>. QED
      BY ONLY <3>1 DEF Challenging
  <2>3. CASE job[c] # "none"
    <3>1. job[a] \in {"wait", "lost"} /\ (Wiped \/ authorizations[a] = FilledAuthorization(a))
      BY <2>1, <2>3 DEF Challenging
    <3>2. /\ request[a[1]].pc # "idle" /\ request[a[1]].account # None
      BY <2>1, <3>1 DEF Authorizing, Joined, Settled
    <3>3. FilledAuthorization(a)' = FilledAuthorization(a)
      BY <1>5, <2>1, <3>2, CreatorGrows
    <3>4. /\ job'[a] \in {"wait", "lost"} /\ job'[c] \in {"done", "failed", "lost"}
          /\ job'[c] = "done" => job[c] = "done"
      BY <1>4, <2>1, <2>3, <3>1 DEF Challenging
    <3>5. /\ Wiped' \/ (authorizations'[a] = authorizations[a] /\ challenges'[c] = challenges[c])
          /\ challenges'[c] \in {NoChallenge, challenges[c]}
      BY <1>2, <2>1
    <3>6. /\ challenges[c] \in {NoChallenge, BareChallenge, FilledChallenge(c)}
          /\ job[c] = "done" => Wiped \/ challenges[c] = FilledChallenge(c)
      BY <2>1 DEF Challenging
    <3>7. FilledChallenge(c)' = FilledChallenge(c) /\ AuthorizationOf(c)' = a
          /\ (FilledAuthorization(a))' = FilledAuthorization(AuthorizationOf(c))'
      BY DEF FilledChallenge, AuthorizationOf
    <3>. HIDE DEF a
    <3>. QED
      BY ONLY <1>1, <3>1, <3>3, <3>4, <3>5, <3>6, <3>7 DEF Challenging
  <2>. QED
    BY <2>2, <2>3
<1>10. ASSUME NEW r \in Creators PROVE Creates(r)'
  <2>1. Creates(r) /\ r \in Requests /\ FilledOrder(r)' = FilledOrder(r)
    BY <1>3 DEF Requests, FilledOrder
  <2>2. /\ request'[r].pc \in {"idle", "answered", "lost"}
        /\ request'[r].pc = "idle" => request[r].pc = "idle" /\ request'[r] = Idle
        /\ request'[r].pc # "idle" => request[r].pc # "idle"
        /\ Same(request[r], request'[r]) /\ request'[r].account = request[r].account
    BY <1>3, <1>4, <2>1 DEF Creates
  <2>3. /\ orders'[r] \in {NoOrder, orders[r]}
        /\ orders'[r].stored # "none" => orders'[r] = orders[r]
        /\ \A a \in Accounts : accounts'[a] # "valid" \/ accounts'[a] = accounts[a]
    BY <1>2 DEF NoOrder
  <2>4. /\ request[r].pc = "idle" => orders[r] = NoOrder /\ request[r].account = None
        /\ request[r].pc # "idle" =>
             /\ request[r].kind = "new"
             /\ request[r].wanted \in IF server.version = "v2" THEN Csrs \cup {None} ELSE Names
        /\ orders[r] \in {NoOrder, BareOrder, FilledOrder(r)}
        /\ orders[r].stored # "none" => request[r].account \in Accounts
        /\ request[r].account # None => request[r].wanted # None /\ ~request[r].late
        /\ request[r].late => \A a \in Accounts : KidOf[a] = request[r].key => accounts[a] # "valid"
    BY <2>1 DEF Creates
  <2>. QED
    BY ONLY <1>1, <2>1, <2>2, <2>3, <2>4 DEF Creates, Same, NoOrder
<1>11. ASSUME NEW r \in Readers PROVE Reads(r)'
  <2>1. Reads(r) /\ r \in Requests
    BY DEF Requests
  <2>2. PICK id : id = request[r].target
    OBVIOUS
  <2>3. /\ request'[r].pc \in {"idle", "answered", "lost"}
        /\ request'[r].pc = "idle" => request'[r] = Idle
        /\ request'[r].pc = "answered" => request[r].pc = "answered"
        /\ request'[r].pc # "idle" => request[r].pc # "idle"
        /\ request'[r].kind = request[r].kind /\ request'[r].late = request[r].late
        /\ request'[r].target = id
        /\ request'[r].code = request[r].code /\ request'[r].failed = request[r].failed
    BY <1>3, <1>4, <2>1, <2>2 DEF Reads, Getting, Same
  <2>4. request[r].pc # "idle" =>
          /\ request[r].kind \in {"order", "orders", "authorization", "challenge"}
          /\ request[r].kind # "orders" /\ id # None =>
               /\ id \in TargetOf(request[r].kind) /\ Finished(id)
               /\ request[r].late => accounts[Owner(id)] # "valid"
    BY <2>1, <2>2 DEF Reads
  <2>5. request[r].pc # "idle" /\ request[r].kind # "orders" /\ id # None =>
          /\ Finished(id)' /\ Owner(id)' = Owner(id) /\ Owner(id) \in Accounts
          /\ accounts[Owner(id)] # "valid" => accounts'[Owner(id)] # "valid"
    BY <1>5, <2>4, FinishedGrows, FinishedParts DEF Grows
  <2>6. request[r].pc = "answered" /\ ~request[r].failed /\ ~Wiped
          /\ request[r].kind # "orders" /\ id # None =>
            \/ request[r].code = 200
            \/ request[r].code = 403 /\ accounts[Owner(id)] = "deactivated"
    BY <2>1, <2>2 DEF Reads
  <2>7. ~Wiped' => accounts' = accounts
    BY <1>2
  <2>. QED
    BY ONLY <1>1, <2>3, <2>4, <2>5, <2>6, <2>7 DEF Reads, Getting, TargetOf
<1>12. ASSUME NEW r \in Requests PROVE Told(r)'
  <2>1. CASE ~Busy(r)
    BY <1>3, <1>5, <2>1, ToldKept
  <2>2. CASE Busy(r)
    BY <1>3, <1>4, <2>2 DEF Told, Succeeded
  <2>. QED
    BY <2>1, <2>2
<1>. QED
  BY <1>5, <1>6, <1>7, <1>8, <1>9, <1>10, <1>11, <1>12

-----------------------------------------------------------------------------
(* The invariant holds.                                                      *)
LEMMA InitInv == Init => IInv
<1>. USE OrdersAssumption
<1>. SUFFICES ASSUME Init PROVE IInv
  OBVIOUS
<1>1. /\ \A r \in Requests : request[r] = Idle
      /\ \A a \in AuthorizationIds : job[a] = "none" /\ authorizations[a] = NoAuthorization
      /\ \A c \in ChallengeIds : job[c] = "none" /\ challenges[c] = NoChallenge
      /\ \A r \in Creators : orders[r] = NoOrder
  BY DEF Init, Jobs
<1>2. /\ Idle \in RequestRecord /\ Idle.pc = "idle" /\ Idle.account = None /\ ~Idle.late
      /\ Idle.location = None /\ Idle.body = {}
  BY DEF Idle, RequestRecord, Pcs, Getting, Kinds
<1>3. TypeOK
  BY <1>2 DEF Init, TypeOK, NoOrder, NoAuthorization, NoChallenge, Stored
<1>4. Loss
  BY DEF Init, Loss, Wiped
<1>5. \A a \in AuthorizationIds : Authorizing(a)
  BY <1>1 DEF Authorizing
<1>6. \A c \in ChallengeIds : Challenging(c)
  BY <1>1 DEF Challenging
<1>7. \A r \in Creators : Creates(r)
  BY <1>1, <1>2 DEF Creates, Requests, NoOrder
<1>8. \A r \in Readers : Reads(r)
  BY <1>1, <1>2 DEF Reads, Requests, Getting
<1>9. \A r \in Requests : Told(r)
  BY <1>1, <1>2 DEF Told, Succeeded
<1>. QED
  BY <1>3, <1>4, <1>5, <1>6, <1>7, <1>8, <1>9 DEF IInv

LEMMA StutterInv == ASSUME IInv, UNCHANGED vars PROVE IInv' /\ Grows
<1>. USE OrdersAssumption DEF IInv
<1>1. UNCHANGED <<server, accounts, orders, authorizations, challenges, job, request,
                  failures, restarts>>
  BY DEF vars
<1>2. Grows /\ Wiped' = Wiped
  BY <1>1 DEF Grows, Wiped
<1>3. TypeOK' /\ Loss'
  BY <1>1, <1>2 DEF TypeOK, Loss
<1>4. \A b \in AuthorizationIds : Authorizing(b)'
  BY <1>1, <1>2, AuthorizingKept
<1>5. \A c \in ChallengeIds : Challenging(c)'
  BY <1>1, <1>2, ChallengingKept
<1>6. \A r \in Creators : Creates(r)'
  BY <1>1, <1>2, CreatesKept
<1>7. \A r \in Readers : Reads(r)'
  BY <1>1, <1>2, ReadsKept
<1>8. \A r \in Requests : Told(r)'
  BY <1>1, <1>2, ToldKept
<1>. QED
  BY <1>2, <1>3, <1>4, <1>5, <1>6, <1>7, <1>8

LEMMA NextInv == IInv /\ [Next]_vars => IInv' /\ Grows
<1>. SUFFICES ASSUME IInv, [Next]_vars PROVE IInv' /\ Grows
  OBVIOUS
<1>1. ASSUME NEW r \in Creators, New(r) PROVE IInv' /\ Grows
  BY <1>1, NewInv
<1>2. ASSUME NEW r \in Readers, Get(r) PROVE IInv' /\ Grows
  BY <1>2, GetInv
<1>3. ASSUME NEW r \in Requests, RequestStep(r) PROVE IInv' /\ Grows
  BY <1>3, FindAccountInv, CreateOrderInv, FillOrderInv, JoinInv, GetChallengeInv,
     GetAuthorizationInv, GetOrderInv, GetOwnerInv, ListInv, GetAgainInv DEF RequestStep
<1>4. ASSUME NEW r \in Requests, RequestCallFails(r) PROVE IInv' /\ Grows
  BY <1>4, RequestCallFailsInv
<1>5. ASSUME NEW r \in Creators, JobStep(r) PROVE IInv' /\ Grows
  BY <1>5, AuthorizationStepInv, ChallengeStepInv DEF JobStep
<1>6. ASSUME NEW a \in AuthorizationIds, AuthorizationCallFails(a) PROVE IInv' /\ Grows
  BY <1>6, AuthorizationStepInv
<1>7. ASSUME NEW c \in ChallengeIds, ChallengeCallFails(c) PROVE IInv' /\ Grows
  BY <1>7, ChallengeStepInv
<1>8. ASSUME NEW a \in Accounts, Deactivate(a) PROVE IInv' /\ Grows
  BY <1>8, DeactivateInv
<1>9. CASE Restart
  BY <1>9, RestartInv
<1>10. CASE UNCHANGED vars
  BY <1>10, StutterInv
<1>. QED
  BY <1>1, <1>2, <1>3, <1>4, <1>5, <1>6, <1>7, <1>8, <1>9, <1>10 DEF Next

(* The invariant that the theorems below rest on is inductive.               *)
THEOREM Invariance == Spec => []IInv
<1>1. IInv /\ [Next]_vars => IInv'
  BY NextInv
<1>. QED
  BY InitInv, <1>1, PTL DEF Spec

-----------------------------------------------------------------------------
(* What follows from it.                                                     *)

(* Records hold ids of the right kind, and requests are where they can be.   *)
THEOREM TypeCorrect == Spec => []TypeOK
<1>1. IInv => TypeOK
  BY DEF IInv
<1>. QED
  BY Invariance, <1>1, PTL

(* Of each domain of a CSR, one of its authorizations has the name, in lower *)
(* case; and of nothing else.                                                *)
LEMMA DomainsAreAsked ==
  ASSUME NEW csr \in Csrs
  PROVE  {Lower[n] : n \in Domains(csr)} = Asked(csr)
<1>. USE OrdersAssumption
<1>1. csr.common \subseteq Names /\ csr.alternative \subseteq Names
  BY DEF Csr
<1>2. Domains(csr) \subseteq Names /\ \A n \in Names : Lower[n] \in Names
  BY <1>1 DEF Domains
<1>3. ASSUME NEW n \in Domains(csr) PROVE Lower[n] \in Asked(csr)
  <2>1. Lower[n] \in DomainNames
    BY <1>2 DEF Domains
  <2>2. CASE n \in csr.alternative
    BY <2>1, <2>2 DEF Asked
  <2>3. CASE n \notin csr.alternative
    <3>1. PICK m \in csr.common : n = Lower[m]
      BY <2>3 DEF Domains
    <3>2. Lower[n] = Lower[m]
      BY <1>1, <3>1
    <3>. QED
      BY <2>1, <3>2 DEF Asked
  <2>. QED
    BY <2>2, <2>3
<1>4. ASSUME NEW n \in csr.common \cup csr.alternative, Lower[n] \in DomainNames
      PROVE  \E m \in Domains(csr) : Lower[m] = Lower[n]
  <2>1. CASE n \in csr.common
    <3>1. Lower[n] \in Domains(csr) /\ Lower[Lower[n]] = Lower[n]
      BY <1>1, <1>4, <2>1 DEF Domains
    <3>. QED
      BY <3>1
  <2>2. CASE n \in csr.alternative
    <3>1. n \in Domains(csr)
      BY <1>1, <1>4, <2>2 DEF Domains
    <3>. QED
      BY <3>1
  <2>. QED
    BY <2>1, <2>2
<1>. QED
  BY <1>3, <1>4 DEF Asked

LEMMA FinishedAuthorizationIsWhole ==
  ASSUME IInv, NEW a \in AuthorizationIds, Finished(a)
  PROVE  WholeAuthorization(a, ChallengesOf(a))
<1>1. Whole(a)
  BY IdsDiffer, OrdersAssumption DEF Finished
<1>2. \A c \in ChallengesOf(a) : c \in ChallengeIds /\ Challenging(c)
  BY AuthorizationParts DEF IInv
<1>. QED
  BY <1>1, <1>2 DEF Whole, WholeAuthorization, Challenging

LEMMA FinishedOrderIsWhole ==
  ASSUME IInv, NEW q \in Creators, Finished(q)
  PROVE  WholeOrder(q, Kids(q))
<1>. USE OrdersAssumption
<1>1. /\ server.version = "v2" /\ request[q].pc \in Settled /\ request[q].account \in Accounts
      /\ \A n \in Wanted(q) : Whole(<<q, n>>)
  BY DEF Finished, IInv
<1>2. Creates(q)
  BY DEF IInv
<1>3. Wanted(q) \subseteq Names /\ Kids(q) = {<<q, n>> : n \in Wanted(q)}
  BY <1>1, <1>2, WantedAreNames DEF Kids
<1>4. Kids(q) \subseteq AuthorizationsOf(q) /\ Kids(q) \subseteq AuthorizationIds
  BY <1>3 DEF AuthorizationsOf, AuthorizationIds
<1>5. {Lower[a[2]] : a \in Kids(q)} = Asked(request[q].wanted)
  <2>1. request[q].wanted \in Csrs
    BY <1>1, <1>2 DEF Creates, Settled
  <2>2. Wanted(q) = Domains(request[q].wanted)
    BY <1>1 DEF Wanted
  <2>3. {Lower[a[2]] : a \in Kids(q)} = {Lower[n] : n \in Wanted(q)}
    <3>1. \A a \in Kids(q) : a[2] \in Wanted(q)
      BY ONLY <1>3
    <3>2. \A n \in Wanted(q) : <<q, n>> \in Kids(q) /\ <<q, n>>[2] = n
      BY ONLY <1>3
    <3>3. \A x : x \in {Lower[a[2]] : a \in Kids(q)} => x \in {Lower[n] : n \in Wanted(q)}
      BY ONLY <3>1
    <3>4. ASSUME NEW n \in Wanted(q) PROVE Lower[n] \in {Lower[a[2]] : a \in Kids(q)}
      <4>. DEFINE a == <<q, n>>
      <4>1. a \in Kids(q) /\ a[2] = n
        BY ONLY <3>2, <3>4
      <4>. HIDE DEF a
      <4>. QED
        BY ONLY <4>1
    <3>. QED
      BY ONLY <3>3, <3>4
  <2>. QED
    BY <2>1, <2>2, <2>3, DomainsAreAsked
<1>6. ASSUME ~Wiped, NEW a \in Kids(q)
      PROVE  authorizations[a].order = q /\ WholeAuthorization(a, ChallengesOf(a))
  <2>1. Finished(a) /\ a \in AuthorizationIds /\ a[1] = q
    BY <1>3, <1>4, <1>6, KidsAreFinished
  <2>2. authorizations[a] = FilledAuthorization(a)
    BY <1>6, <2>1, FinishedIsStored
  <2>. QED
    BY <1>1, <2>1, <2>2, FinishedAuthorizationIsWhole DEF FilledAuthorization
<1>. QED
  BY <1>4, <1>5, <1>6 DEF WholeOrder

(* An answer is never about an order or an authorization in part.            *)
THEOREM WholeAnswers == Spec => []AnswersAreWhole
<1>. USE OrdersAssumption
<1>1. IInv => AnswersAreWhole
  <2>. SUFFICES ASSUME IInv, NEW r \in Requests, Succeeded(r), NEW id, id = request[r].location,
                       NEW body, body = request[r].body
                PROVE  CASE id \in Creators -> WholeOrder(id, body)
                         [] id \in AuthorizationIds -> WholeAuthorization(id, body)
                         [] OTHER -> body = {}
    BY DEF AnswersAreWhole
  <2>1. Finished(id) /\ body = Kids(id)
    BY DEF IInv, Told
  <2>2. CASE id \in Creators
    <3>1. id \notin AuthorizationIds
      BY <2>2
    <3>. QED
      BY <2>1, <2>2, <3>1, FinishedOrderIsWhole
  <2>3. CASE id \in AuthorizationIds
    <3>1. id \notin Creators /\ Kids(id) = ChallengesOf(id)
      BY <2>3 DEF Kids
    <3>. QED
      BY <2>1, <2>3, <3>1, FinishedAuthorizationIsWhole
  <2>4. CASE id \notin Creators /\ id \notin AuthorizationIds
    BY <2>1, <2>4 DEF Kids
  <2>. QED
    BY <2>2, <2>3, <2>4
<1>. QED
  BY Invariance, <1>1, PTL

(* Records can be followed upwards.                                          *)
THEOREM Upwards == Spec => []ParentsFirst
<1>. USE OrdersAssumption
<1>1. IInv => ParentsFirst
  <2>. SUFFICES ASSUME IInv PROVE ParentsFirst
    OBVIOUS
  <2>1. ASSUME NEW c \in ChallengeIds, challenges[c].stored = "filled"
        PROVE  authorizations[challenges[c].authorization].stored = "filled"
    <3>1. Challenging(c) /\ ~Wiped
      BY <2>1 DEF IInv, Loss, NoChallenge
    <3>2. challenges[c] = FilledChallenge(c) /\ job[c] # "none"
      BY <2>1, <3>1 DEF Challenging, NoChallenge, BareChallenge
    <3>. QED
      BY <3>1, <3>2 DEF Challenging, FilledChallenge, FilledAuthorization
  <2>2. ASSUME NEW a \in AuthorizationIds, authorizations[a].stored = "filled"
        PROVE  IF server.version = "v2"
               THEN /\ authorizations[a].account = None
                    /\ orders[authorizations[a].order].stored = "filled"
               ELSE /\ authorizations[a].order = None
                    /\ accounts[authorizations[a].account] # "none"
    <3>1. Authorizing(a) /\ ~Wiped /\ server.version \in {"v1", "v2"}
      BY <2>2 DEF IInv, Loss, NoAuthorization, TypeOK
    <3>2. authorizations[a] = FilledAuthorization(a) /\ job[a] # "none"
      BY <2>2, <3>1 DEF Authorizing, NoAuthorization, BareAuthorization
    <3>3. /\ request[a[1]].account \in Accounts
          /\ server.version = "v2" => orders[a[1]] = FilledOrder(a[1])
      BY <3>1, <3>2 DEF Authorizing
    <3>4. accounts[request[a[1]].account] # "none"
      BY <3>1, <3>3 DEF IInv, Loss
    <3>. QED
      BY <3>1, <3>2, <3>3, <3>4 DEF FilledAuthorization, FilledOrder
  <2>3. ASSUME NEW r \in Creators, orders[r].stored = "filled"
        PROVE  accounts[orders[r].account] # "none"
    <3>1. Creates(r) /\ ~Wiped
      BY <2>3 DEF IInv, Loss, NoOrder
    <3>2. orders[r] = FilledOrder(r) /\ request[r].account \in Accounts
      BY <2>3, <3>1 DEF Creates, NoOrder, BareOrder
    <3>. QED
      BY <3>1, <3>2 DEF IInv, Loss, FilledOrder
  <2>. QED
    BY <2>1, <2>2, <2>3 DEF ParentsFirst
<1>. QED
  BY Invariance, <1>1, PTL

(* Every id that was given out is readable, but for a deactivated account.   *)
THEOREM Readable == Spec => []ListedIsReadable
<1>1. IInv => ListedIsReadable
  BY DEF IInv, Reads, ListedIsReadable
<1>. QED
  BY Invariance, <1>1, PTL

(* Whoever comes after the deactivation of an account creates nothing for it *)
(* and reads nothing of it.                                                  *)
THEOREM LateRefused == Spec => []LateIsRefused
<1>1. IInv => LateIsRefused
  <2>. SUFFICES ASSUME IInv, NEW r \in Requests, request[r].late
                PROVE  /\ ~Succeeded(r)
                       /\ r \in Creators =>
                            /\ orders[r].stored = "none"
                            /\ \A a \in AuthorizationsOf(r) :
                                 job[a] = "none" /\ authorizations[a].stored = "none"
    BY DEF LateIsRefused
  <2>1. ~Succeeded(r)
    BY DEF IInv, Told
  <2>2. ASSUME r \in Creators
        PROVE  request[r].account \notin Accounts /\ orders[r].stored = "none"
    <3>1. Creates(r)
      BY <2>2 DEF IInv
    <3>2. request[r].account = None
      BY <3>1 DEF Creates
    <3>. QED
      BY <3>1, <3>2, OrdersAssumption DEF Creates, NoOrder
  <2>3. ASSUME r \in Creators, NEW a \in AuthorizationsOf(r)
        PROVE  job[a] = "none" /\ authorizations[a].stored = "none"
    <3>1. a \in AuthorizationIds /\ a[1] = r
      BY <2>3 DEF AuthorizationsOf, AuthorizationIds
    <3>2. Authorizing(a)
      BY <3>1 DEF IInv
    <3>. QED
      BY <2>2, <2>3, <3>1, <3>2 DEF Authorizing, NoAuthorization
  <2>. QED
    BY <2>1, <2>2, <2>3
<1>. QED
  BY Invariance, <1>1, PTL

LEMMA FinishedIsAsMade ==
  IInv /\ ~Wiped => \A id : Finished(id) =>
    /\ id \in Creators \cup AuthorizationIds => Children(id) = Kids(id)
    /\ id \in AuthorizationIds => authorizations[id] = FilledAuthorization(id)
    /\ id \in Creators => orders[id] = FilledOrder(id)
BY ChildrenAreKids, FinishedIsStored

(* What has been shown is only changed by the loss of the internal database. *)
THEOREM ShownKept == Spec => ShownIsKept
<1>. USE OrdersAssumption
<1>1. (IInv /\ ~Wiped => \A id : Finished(id) =>
         /\ id \in Creators \cup AuthorizationIds => Children(id) = Kids(id)
         /\ id \in AuthorizationIds => authorizations[id] = FilledAuthorization(id)
         /\ id \in Creators => orders[id] = FilledOrder(id))'
  BY FinishedIsAsMade, PTL
<1>2. IInv /\ [Next]_vars =>
        [~(restarts' > restarts) =>
           /\ \A r \in Creators :
                Shown(r) => orders'[r] = orders[r] /\ Children(r)' = Children(r)
           /\ \A a \in AuthorizationIds :
                Shown(a) => authorizations'[a] = authorizations[a] /\ Children(a)' = Children(a)]_vars
  <2>. SUFFICES ASSUME IInv, IInv', Grows, ~(restarts' > restarts),
                       NEW id \in Creators \cup AuthorizationIds, Shown(id)
                PROVE  /\ Children(id)' = Children(id)
                       /\ id \in Creators => orders'[id] = orders[id]
                       /\ id \in AuthorizationIds => authorizations'[id] = authorizations[id]
    BY NextInv
  <2>1. Finished(id)
    <3>1. PICK r \in Requests : Succeeded(r) /\ id \in {request[r].location} \cup request[r].body
      BY DEF Shown
    <3>2. Told(r)
      BY DEF IInv
    <3>. QED
      BY <3>1, <3>2, KidsAreFinished DEF Told
  <2>2. /\ Finished(id)' /\ Kids(id)' = Kids(id) /\ id' = id
    BY <2>1, FinishedGrows
  <2>3. Root(id) \in Creators /\ request[Root(id)].pc # "idle" /\ request[Root(id)].account # None
    BY <2>1, FinishedParts DEF Joined, Settled
  <2>4. Wiped' <=> Wiped
    BY DEF Grows, Wiped, IInv, TypeOK
  <2>5. CASE Wiped
    <3>1. /\ \A r \in Creators : orders'[r] = orders[r]
          /\ \A a \in AuthorizationIds : authorizations'[a] = authorizations[a]
          /\ \A c \in ChallengeIds : challenges'[c] = challenges[c]
      BY <2>4, <2>5 DEF IInv, Loss
    <3>. QED
      BY <3>1 DEF Children
  <2>6. CASE ~Wiped
    <3>1. /\ Children(id) = Kids(id)
          /\ id \in AuthorizationIds => authorizations[id] = FilledAuthorization(id)
          /\ id \in Creators => orders[id] = FilledOrder(id)
      BY <2>1, <2>6, FinishedIsAsMade
    <3>2. /\ Children(id)' = Kids(id)'
          /\ id \in AuthorizationIds => authorizations'[id] = FilledAuthorization(id)'
          /\ id \in Creators => orders'[id] = FilledOrder(id)'
      BY <1>1, <2>2, <2>4, <2>6
    <3>3. /\ id \in AuthorizationIds => FilledAuthorization(id)' = FilledAuthorization(id)
          /\ id \in Creators => FilledOrder(id)' = FilledOrder(id)
      BY <2>3, CreatorGrows DEF Root
    <3>. QED
      BY <2>2, <3>1, <3>2, <3>3
  <2>. QED
    BY <2>5, <2>6
<1>. QED
  BY Invariance, <1>2, PTL DEF Spec, ShownIsKept
-----------------------------------------------------------------------------
(* A request waits for creations that have all been started, and so have the *)
(* challenges of an authorization that waits. What has been started runs, or *)
(* waits, or is done, or has failed: only a restart forgets it.              *)
Started == {"create", "update", "wait", "done", "failed"}

Waits(r) == request[r].pc = "join" => \A n \in Wanted(r) : job[<<r, n>>] \in Started
Parted(a) == job[a] = "wait" => \A c \in ChallengesOf(a) : job[c] \in Started

WInv == (\A r \in Creators : Waits(r)) /\ (\A a \in AuthorizationIds : Parted(a))

(* An arrival starts nothing yet.                                            *)
LEMMA ArrivalsOnly ==
  ASSUME (\E r \in Creators : New(r)) \/ (\E r \in Readers : Get(r))
  PROVE  job' = job
<1>1. ASSUME NEW r, NEW k, NEW wanted, ArriveNew(r, k, wanted) PROVE job' = job
  BY <1>1 DEF ArriveNew
<1>2. ASSUME NEW r, NEW kind, NEW id, ArriveGet(r, kind, id) PROVE job' = job
  BY <1>2 DEF ArriveGet
<1>3. ASSUME NEW r, NEW a, ArriveGetOrders(r, a) PROVE job' = job
  BY <1>3 DEF ArriveGetOrders
<1>. QED
  BY <1>1, <1>2, <1>3 DEF New, Get

(* The creations go on.                                                      *)
LEMMA StartedKept ==
  ASSUME IInv, [Next]_vars, ~Restart, NEW j \in Jobs, job[j] \in Started
  PROVE  job'[j] \in Started
<1>1. job \in [Jobs -> {"none", "create", "update", "wait", "done", "failed", "lost"}]
  BY DEF IInv, TypeOK
<1>2. ASSUME job' = job PROVE job'[j] \in Started
  BY <1>2
<1>3. ASSUME NEW k \in Jobs, NEW new \in Started, job' = [job EXCEPT ![k] = new]
      PROVE  job'[j] \in Started
  BY ONLY <1>1, <1>3, j \in Jobs, job[j] \in Started
<1>4. ASSUME NEW ks, job' = [k \in Jobs |-> IF k \in ks THEN "create" ELSE job[k]]
      PROVE  job'[j] \in Started
  BY ONLY <1>4, j \in Jobs, job[j] \in Started DEF Started
<1>5. ASSUME NEW r \in Requests, RequestStep(r) PROVE job'[j] \in Started
  <2>1. CASE FindAccount(r)
    <3>1. ASSUME server.version = "v1", job' = [job EXCEPT ![<<r, request[r].wanted>>] = "create"],
                 request[r].pc = "find"
          PROVE  job'[j] \in Started
      <4>1. <<r, request[r].wanted>> \in Jobs
        BY <3>1 DEF IInv, Creates, Reads, Getting, Requests, AuthorizationIds, Jobs
      <4>. QED
        BY <1>3, <3>1, <4>1 DEF Started
    <3>. QED
      BY <1>2, <2>1, <3>1 DEF FindAccount
  <2>2. CASE FillOrder(r)
    BY <1>2, <1>4, <2>2 DEF FillOrder
  <2>. QED
    BY <1>2, <1>5, <2>1, <2>2
       DEF RequestStep, CreateOrder, Join, GetChallenge, GetAuthorization, GetOrder, GetOwner,
           List, GetAgain
<1>6. ASSUME NEW a \in AuthorizationIds, AuthorizationStep(a) \/ AuthorizationCallFails(a)
      PROVE  job'[j] \in Started
  <2>1. a \in Jobs
    BY DEF Jobs
  <2>2. CASE UpdateAuthorization(a)
    BY <2>2 DEF UpdateAuthorization, Started
  <2>. QED
    BY <1>3, <1>6, <2>1, <2>2
       DEF AuthorizationStep, CreateAuthorization, AuthorizationCallFails, Started
<1>7. ASSUME NEW c \in ChallengeIds, ChallengeStep(c) \/ ChallengeCallFails(c)
      PROVE  job'[j] \in Started
  BY <1>3, <1>7 DEF ChallengeStep, CreateChallenge, UpdateChallenge, ChallengeCallFails, Started, Jobs
<1>8. ASSUME NEW r \in Requests, RequestCallFails(r) PROVE job' = job
  BY <1>8 DEF RequestCallFails
<1>9. (\E a \in Accounts : Deactivate(a)) \/ UNCHANGED vars => job' = job
  BY DEF Deactivate, vars
<1>10. ASSUME NEW r \in Creators, JobStep(r) PROVE job'[j] \in Started
  BY <1>6, <1>7, <1>10 DEF JobStep
<1>. QED
  BY ONLY [Next]_vars, ~Restart, <1>2, <1>5, <1>6, <1>7, <1>8, <1>9, <1>10,
          ArrivalsOnly DEF Next

(* Nothing waits after a restart.                                            *)
LEMMA NothingWaits ==
  ASSUME IInv, Restart
  PROVE  /\ \A r \in Requests : request'[r].pc # "join"
         /\ \A j \in Jobs : job'[j] # "wait"
<1>1. \A j \in Jobs : job'[j] # "wait"
  BY DEF Restart
<1>2. ASSUME NEW r \in Requests PROVE request'[r].pc # "join"
  <2>1. request[r] \in RequestRecord
    BY DEF IInv, TypeOK
  <2>2. CASE Busy(r)
    <3>1. request'[r] = [request[r] EXCEPT !.pc = "lost"]
      BY <2>2 DEF Restart
    <3>. QED
      BY ONLY <2>1, <3>1 DEF RequestRecord
  <2>3. CASE ~Busy(r)
    BY <2>3 DEF Restart, Busy, Over
  <2>. QED
    BY <2>2, <2>3
<1>. QED
  BY <1>1, <1>2

(* A step of one request leaves the others alone.                            *)
LEMMA OneRequest ==
  ASSUME TypeOK, NEW p \in Requests, RequestStep(p) \/ RequestCallFails(p),
         NEW q \in Requests \ {p}
  PROVE  request'[q] = request[q]
<1>1. request \in [Requests -> RequestRecord]
  BY DEF TypeOK
<1>2. ASSUME NEW code, NEW location, NEW body, Respond(p, code, location, body)
      PROVE  request'[q] = request[q]
  BY ONLY <1>1, <1>2, q \in Requests \ {p} DEF Respond
<1>3. ASSUME NEW pc, Goto(p, pc) PROVE request'[q] = request[q]
  BY ONLY <1>1, <1>3, q \in Requests \ {p} DEF Goto
<1>4. ASSUME NEW code, Refuse(p, code) PROVE request'[q] = request[q]
  BY <1>2, <1>4 DEF Refuse
<1>5. CASE FindAccount(p) \/ Join(p) \/ CreateOrder(p) \/ FillOrder(p)
  BY <1>1, <1>3, <1>4, <1>5 DEF FindAccount, Join, CreateOrder, FillOrder
<1>6. CASE GetChallenge(p) \/ GetAuthorization(p) \/ GetOrder(p)
  BY <1>1, <1>3, <1>4, <1>6 DEF GetChallenge, GetAuthorization, GetOrder
<1>7. CASE GetOwner(p) \/ List(p) \/ GetAgain(p)
  BY <1>2, <1>3, <1>4, <1>7 DEF GetOwner, List, GetAgain
<1>8. CASE RequestCallFails(p)
  BY <1>1, <1>8 DEF RequestCallFails
<1>. QED
  BY <1>5, <1>6, <1>7, <1>8 DEF RequestStep

(* A request that comes to wait has just started all that it wants.          *)
LEMMA JoinsAtStart ==
  ASSUME IInv, [Next]_vars, NEW r \in Creators, request[r].pc # "join", request'[r].pc = "join"
  PROVE  \A n \in Wanted(r)' : job'[<<r, n>>] = "create"
<1>. USE OrdersAssumption DEF IInv
<1>1. /\ r \in Requests /\ r \notin Readers /\ Creates(r)
      /\ request \in [Requests -> RequestRecord]
      /\ job \in [Jobs -> {"none", "create", "update", "wait", "done", "failed", "lost"}]
  BY DEF Requests, TypeOK
<1>2. request'[r] # request[r]
  BY <1>1
<1>3. FindAccount(r) \/ FillOrder(r)
  <2>1. ASSUME NEW p \in Requests, RequestStep(p) \/ RequestCallFails(p)
        PROVE  FindAccount(r) \/ FillOrder(r)
    <3>1. p = r
      BY <1>1, <1>2, <2>1, OneRequest
    <3>2. request[r].pc \in {"find", "create", "fill", "list"}
      BY <1>1, <2>1, <3>1
         DEF Creates, RequestStep, RequestCallFails, FindAccount, CreateOrder, FillOrder, Join,
             GetChallenge, GetAuthorization, GetOrder, GetOwner, List, GetAgain, Getting
    <3>3. ~CreateOrder(r)
      BY <1>1 DEF CreateOrder, Goto, RequestRecord
    <3>4. ~List(r) /\ ~RequestCallFails(r)
      BY <1>1 DEF List, RequestCallFails, Respond, RequestRecord
    <3>. QED
      BY <2>1, <3>1, <3>2, <3>3, <3>4
         DEF RequestStep, Join, GetChallenge, GetAuthorization, GetOrder, GetOwner, GetAgain, Getting
  <2>2. ASSUME NEW p \in Creators, New(p) PROVE FALSE
    BY <1>1, <2>2 DEF New, ArriveNew, Requests, Idle
  <2>3. ASSUME NEW p \in Readers, Get(p) PROVE FALSE
    <3>1. p \in Requests /\ p # r
      BY <1>1 DEF Requests
    <3>2. ASSUME NEW new, request' = [request EXCEPT ![p] = new] PROVE FALSE
      BY ONLY <1>1, <1>2, <3>1, <3>2
    <3>3. ASSUME NEW kind, NEW id, ArriveGet(p, kind, id) PROVE FALSE
      BY <3>2, <3>3 DEF ArriveGet
    <3>4. ASSUME NEW a, ArriveGetOrders(p, a) PROVE FALSE
      BY <3>2, <3>4 DEF ArriveGetOrders
    <3>. QED
      BY <2>3, <3>3, <3>4 DEF Get
  <2>4. ~Restart
    BY <1>1, NothingWaits
  <2>5. (\E p \in Creators : JobStep(p)) => request' = request
    BY DEF JobStep, AuthorizationStep, ChallengeStep, CreateAuthorization,
           UpdateAuthorization, CreateChallenge, UpdateChallenge
  <2>6. /\ (\E a \in AuthorizationIds : AuthorizationCallFails(a)) => request' = request
        /\ (\E c \in ChallengeIds : ChallengeCallFails(c)) => request' = request
        /\ (\E a \in Accounts : Deactivate(a)) \/ UNCHANGED vars => request' = request
    BY DEF AuthorizationCallFails, ChallengeCallFails, Deactivate, vars
  <2>. QED
    BY ONLY [Next]_vars, <1>2, <2>1, <2>2, <2>3, <2>4, <2>5, <2>6 DEF Next
<1>4. CASE FindAccount(r)
  <2>0. ASSUME NEW code, Refuse(r, code) PROVE request'[r].pc = "answered"
    BY ONLY <1>1, <2>0 DEF Refuse, Respond, RequestRecord
  <2>1. /\ request[r].pc = "find" /\ server' = server
        /\ server.version = "v1" /\ job' = [job EXCEPT ![<<r, request[r].wanted>>] = "create"]
    <3>1. ASSUME NEW a, request' = [request EXCEPT ![r].pc = "create", ![r].account = a]
          PROVE  request'[r].pc = "create"
      BY ONLY <1>1, <3>1 DEF RequestRecord
    <3>. QED
      BY <1>4, <2>0, <3>1 DEF FindAccount
  <2>2. request'[r].wanted = request[r].wanted /\ request[r].wanted \in Names
    BY <1>1, <2>1, NextInv DEF Creates, Grows
  <2>3. <<r, request[r].wanted>> \in Jobs
    BY <2>2 DEF AuthorizationIds, Jobs
  <2>. QED
    BY <1>1, <2>1, <2>2, <2>3 DEF Wanted
<1>5. CASE FillOrder(r)
  <2>1. /\ request[r].pc = "fill"
        /\ job' = [a \in Jobs |-> IF a \in {<<r, n>> : n \in Wanted(r)} THEN "create" ELSE job[a]]
    <3>1. ASSUME Refuse(r, 500) PROVE request'[r].pc = "answered"
      BY ONLY <1>1, <3>1 DEF Refuse, Respond, RequestRecord
    <3>. QED
      BY <1>5, <3>1 DEF FillOrder
  <2>2. Wanted(r)' = Wanted(r) /\ Wanted(r) \subseteq Names
    BY <1>1, <2>1, NextInv, CreatorGrows, WantedAreNames DEF Creates
  <2>. QED
    BY <2>1, <2>2 DEF AuthorizationIds, Jobs
<1>. QED
  BY <1>3, <1>4, <1>5

(* An authorization that comes to wait has just started its challenges.      *)
LEMMA PartsAtStart ==
  ASSUME IInv, [Next]_vars, NEW a \in AuthorizationIds, job[a] # "wait", job'[a] = "wait"
  PROVE  \A c \in ChallengesOf(a) : job'[c] = "create"
<1>1. /\ a \in Jobs /\ job \in [Jobs -> {"none", "create", "update", "wait", "done", "failed", "lost"}]
  BY DEF IInv, TypeOK, Jobs
<1>2. UpdateAuthorization(a)
  <2>1. ASSUME NEW r \in Requests, RequestStep(r) PROVE FALSE
    BY <1>1, <2>1
       DEF RequestStep, FindAccount, FillOrder, CreateOrder, Join, GetChallenge,
           GetAuthorization, GetOrder, GetOwner, List, GetAgain
  <2>2. ASSUME NEW b \in AuthorizationIds, AuthorizationStep(b) \/ AuthorizationCallFails(b)
        PROVE  UpdateAuthorization(a)
    BY <1>1, <2>2
       DEF AuthorizationStep, CreateAuthorization, UpdateAuthorization, AuthorizationCallFails
  <2>3. ASSUME NEW c \in ChallengeIds, ChallengeStep(c) \/ ChallengeCallFails(c) PROVE FALSE
    BY <1>1, <2>3 DEF ChallengeStep, CreateChallenge, UpdateChallenge, ChallengeCallFails
  <2>4. ~Restart
    BY <1>1, NothingWaits
  <2>5. job' # job
    OBVIOUS
  <2>6. ASSUME NEW r \in Requests, RequestCallFails(r) PROVE FALSE
    BY <2>5, <2>6 DEF RequestCallFails
  <2>7. ~(\E b \in Accounts : Deactivate(b)) /\ ~UNCHANGED vars
    BY <2>5 DEF Deactivate, vars
  <2>8. ASSUME NEW r \in Creators, JobStep(r) PROVE UpdateAuthorization(a)
    BY <2>2, <2>3, <2>8 DEF JobStep
  <2>. QED
    BY ONLY [Next]_vars, <2>1, <2>2, <2>3, <2>4, <2>5, <2>6, <2>7, <2>8, ArrivalsOnly DEF Next
<1>. QED
  BY <1>1, <1>2, AuthorizationParts, IdsDiffer DEF UpdateAuthorization, Jobs

LEMMA WInvNext == IInv /\ WInv /\ [Next]_vars => WInv'
<1>. SUFFICES ASSUME IInv, WInv, [Next]_vars PROVE WInv'
  OBVIOUS
<1>1. CASE Restart
  BY <1>1, NothingWaits DEF WInv, Waits, Parted, Requests, Jobs
<1>2. CASE ~Restart
  <2>1. ASSUME NEW r \in Creators PROVE Waits(r)'
    <3>. SUFFICES ASSUME request'[r].pc = "join", NEW n \in Wanted(r)'
                  PROVE  job'[<<r, n>>] \in Started
      BY DEF Waits, Started
    <3>1. CASE request[r].pc = "join"
      <4>1. /\ n \in Wanted(r) /\ Wanted(r) \subseteq Names
        BY <3>1, NextInv, CreatorGrows, WantedAreNames DEF IInv, Creates
      <4>. QED
        BY <1>2, <3>1, <4>1, StartedKept DEF WInv, Waits, AuthorizationIds, Jobs
    <3>2. CASE request[r].pc # "join"
      BY <3>2, JoinsAtStart DEF Started
    <3>. QED
      BY <3>1, <3>2
  <2>2. ASSUME NEW a \in AuthorizationIds PROVE Parted(a)'
    <3>. SUFFICES ASSUME job'[a] = "wait", NEW c \in ChallengesOf(a)
                  PROVE  job'[c] \in Started
      BY DEF Parted, Started, ChallengesOf
    <3>1. c \in Jobs
      BY AuthorizationParts DEF Jobs
    <3>. QED
      BY <1>2, <3>1, StartedKept, PartsAtStart DEF WInv, Parted, Started
  <2>. QED
    BY <2>1, <2>2 DEF WInv
<1>. QED
  BY <1>1, <1>2

LEMMA WInvInit == Init => WInv
BY OrdersAssumption DEF Init, WInv, Waits, Parted, Idle, Requests, Jobs

(* A join that all calls have answered has a failure to pass on, or all that *)
(* it waits for.                                                             *)
LEMMA JoinIsFed ==
  ASSUME IInv, WInv, NEW r \in Creators, request[r].pc = "join",
         \A j \in JobsOf(r) : job[j] \notin {"create", "update"}
  PROVE  \/ \E n \in Wanted(r) : Failed(<<r, n>>)
         \/ \A n \in Wanted(r) : Created(<<r, n>>)
<1>. SUFFICES ASSUME NEW n \in Wanted(r), ~Failed(<<r, n>>) PROVE Created(<<r, n>>)
  OBVIOUS
<1>1. Wanted(r) \subseteq Names
  BY WantedAreNames DEF IInv, Creates
<1>2. PICK a : a = <<r, n>>
  OBVIOUS
<1>3. a \in AuthorizationIds /\ a \in JobsOf(r)
  BY <1>1, <1>2 DEF AuthorizationIds, JobsOf, Jobs
<1>4. \A c \in ChallengesOf(a) : c \in ChallengeIds /\ c \in JobsOf(r)
  BY <1>2, <1>3, AuthorizationParts DEF ChallengesOf, JobsOf, Jobs
<1>5. job[a] \in Started \ {"create", "update", "failed"} /\ Authorizing(a)
  BY <1>2, <1>3 DEF WInv, Waits, Failed, IInv
<1>6. job[a] = "wait"
  BY <1>5 DEF Started, Authorizing
<1>7. \A c \in ChallengesOf(a) :
        job[c] \in Started \ {"create", "update", "failed"} /\ Challenging(c)
  BY <1>2, <1>3, <1>4, <1>6 DEF WInv, Parted, Failed, IInv
<1>8. \A c \in ChallengesOf(a) : job[c] = "done"
  BY <1>7 DEF Started, Challenging
<1>. QED
  BY <1>2, <1>6, <1>8 DEF Created

(* No request waits for what cannot come.                                    *)
THEOREM NobodyIsStuck == Spec => []NeverStuck
<1>1. IInv /\ WInv => NeverStuck
  <2>. SUFFICES ASSUME IInv, WInv, NEW r \in Requests
                PROVE  /\ request[r].pc = "join" =>
                            \/ \E n \in Wanted(r) : Failed(<<r, n>>)
                            \/ \A n \in Wanted(r) : Created(<<r, n>>)
                            \/ \E j \in JobsOf(r) : job[j] \in {"create", "update"}
                       /\ request[r].pc = "again" => request[r].target \in StoredChallenges
    BY DEF NeverStuck
  <2>1. CASE request[r].pc = "join"
    <3>1. r \in Creators
      BY <2>1 DEF IInv, Reads, Getting, Requests
    <3>. QED
      BY <2>1, <3>1, JoinIsFed
  <2>2. CASE request[r].pc = "again"
    <3>1. r \in Readers /\ Reads(r)
      BY <2>2 DEF IInv, Creates, Requests
    <3>2. PICK id : id = request[r].target
      OBVIOUS
    <3>3. ~Wiped /\ id \in ChallengeIds /\ Finished(id)
      BY <2>2, <3>1, <3>2 DEF Reads, TargetOf
    <3>4. challenges[id] = FilledChallenge(id)
      BY <3>3, FinishedIsStored
    <3>. QED
      BY <2>2, <3>2, <3>3, <3>4 DEF StoredChallenges, FilledChallenge
  <2>. QED
    BY <2>1, <2>2
<1>. QED
  BY Invariance, WInvInit, WInvNext, <1>1, PTL DEF Spec
=============================================================================
