------------------------- MODULE PublicationProofs --------------------------
(* Orders implements Publication: a proof, step by step, for any number of    *)
(* creations and readers, in both versions and on both engines.              *)
EXTENDS OrdersProofs

-----------------------------------------------------------------------------
(* The trees.                                                                *)

(* What has been created is a part of the tree that was asked for, ...       *)
LEMMA PartOfTree ==
  ASSUME IInv, NEW id, Finished(id)
  PROVE  /\ id \in DOMAIN DueTree(Root(id)) /\ DueTree(Root(id))[id] = Kids(id)
         /\ Root(id) \in Creators
<1>. USE OrdersAssumption DEF IInv
<1>. DEFINE r == Root(id) started == {<<r, n>> : n \in Wanted(r)}
<1>1. r \in Creators /\ Creates(r) /\ request[r].account \in Accounts
  BY FinishedParts
<1>2. ASSUME NEW a \in AuthorizationIds, Whole(a), a[1] = r PROVE a \in started
  <2>1. job[a] # "none" /\ Authorizing(a)
    BY <1>2 DEF Whole
  <2>2. a[2] \in Wanted(r) /\ a = <<r, a[2]>>
    BY <1>2, <2>1, AuthorizationParts DEF Authorizing
  <2>. QED
    BY <2>2
<1>3. \/ id = r /\ server.version = "v2"
      \/ id \in started
      \/ \E a \in started : id \in ChallengesOf(a)
  <2>1. CASE id \in Creators
    BY <2>1 DEF Root, Finished, AuthorizationIds, ChallengeIds
  <2>2. CASE id \in AuthorizationIds /\ Whole(id)
    <3>1. id \notin Creators /\ id[1] = r
      BY <2>2 DEF Root
    <3>. QED
      BY <1>2, <2>2, <3>1
  <2>3. CASE id \in ChallengeIds /\ Whole(AuthorizationOf(id))
    <3>1. /\ AuthorizationOf(id) \in AuthorizationIds /\ AuthorizationOf(id)[1] = r
          /\ id \in ChallengesOf(AuthorizationOf(id))
      BY <2>3, ChallengeParts DEF Root
    <3>. QED
      BY <1>2, <2>3, <3>1
  <2>. QED
    BY <2>1, <2>2, <2>3 DEF Finished
<1>. QED
  BY <1>1, <1>3 DEF DueTree

(* ... and no challenge has anything under it.                               *)
LEMMA NothingBelow ==
  ASSUME TypeOK, NEW c \in ChallengeIds
  PROVE  Children(c) = {}
<1>1. c \notin Creators /\ c \notin AuthorizationIds /\ c # None
  BY ChallengeParts, IdsDiffer
<1>2. \A d \in ChallengeIds : challenges[d].authorization \in AuthorizationIds \cup {None}
  BY DEF TypeOK
<1>. QED
  BY <1>1, <1>2 DEF Children

LEMMA MadeParts ==
  ASSUME IInv, NEW r \in Creators, Finished(Made(r))
  PROVE  /\ Made(r) \in Creators \cup AuthorizationIds /\ Root(Made(r)) = r
         /\ \A n \in Wanted(r) : <<r, n>> \in AuthorizationIds
<1>. USE OrdersAssumption DEF IInv
<1>. DEFINE root == Made(r)
<1>1. root \in Creators \cup AuthorizationIds
  BY FinishedParts DEF Made, Finished, AuthorizationIds, ChallengeIds
<1>2. Root(root) = r
  <2>1. CASE server.version = "v2"
    BY <2>1 DEF Root, Made
  <2>2. CASE server.version # "v2"
    <3>1. root = <<r, request[r].wanted>> /\ root \notin Creators
      BY <1>1, <2>2, AuthorizationParts DEF Made, Finished, AuthorizationIds, ChallengeIds
    <3>. QED
      BY <3>1 DEF Root
  <2>. QED
    BY <2>1, <2>2
<1>3. Wanted(r) \subseteq Names
  BY <1>2, FinishedParts, WantedAreNames
<1>. QED
  BY <1>1, <1>2, <1>3 DEF AuthorizationIds

(* As long as nothing is lost, what a creation has made is stored as the     *)
(* tree that was asked for.                                                  *)
LEMMA TreeIsDue ==
  ASSUME IInv, NEW r \in Creators, ~Wiped,
         request[r].target = Made(r), Finished(Made(r))
  PROVE  StoredTree(r) = DueTree(r)
<1>. USE OrdersAssumption DEF IInv
<1>. DEFINE root == Made(r) started == {<<r, n>> : n \in Wanted(r)}
            orderIds == IF server.version = "v2" THEN {r} ELSE {}
<1>1. /\ root \in Creators \cup AuthorizationIds /\ Children(root) = Kids(root)
      /\ \A a \in started : a \in AuthorizationIds
  BY MadeParts, ChildrenAreKids
<1>2. \A a \in started : a \in AuthorizationIds
  BY <1>1
<1>3. CASE server.version = "v2"
  <2>1. root = r /\ root \in Creators /\ Children(root) = started /\ Kids(r) = started
    BY <1>1, <1>3 DEF Made, Kids
  <2>2. ASSUME NEW a \in started
        PROVE  Children(a) = ChallengesOf(a) /\ Kids(a) = ChallengesOf(a)
    <3>1. Finished(a) /\ a \in AuthorizationIds /\ a \notin Creators
      BY <1>2, <2>1, KidsAreFinished, AuthorizationParts
    <3>. QED
      BY <3>1, ChildrenAreKids DEF Kids
  <2>3. ASSUME NEW id \in {r} \cup started \cup UNION {ChallengesOf(a) : a \in started}
        PROVE  Children(id) = Kids(id)
    <3>1. CASE id \in {r} \cup started
      BY <2>1, <2>2, <3>1
    <3>2. CASE id \notin {r} \cup started
      <4>1. id \in ChallengeIds
        BY <1>2, <2>3, <3>2, AuthorizationParts
      <4>. QED
        BY <4>1, NothingBelow, NoKids
    <3>. QED
      BY <3>1, <3>2
  <2>4. UNION {Children(a) : a \in started} = UNION {ChallengesOf(a) : a \in started}
    BY <2>2
  <2>5. orderIds = {r}
    BY <1>3
  <2>. QED
    BY <2>1, <2>3, <2>4, <2>5 DEF StoredTree, DueTree
<1>4. CASE server.version # "v2"
  <2>1. /\ root = <<r, request[r].wanted>> /\ started = {root} /\ orderIds = {}
        /\ root \in AuthorizationIds /\ root \notin Creators
        /\ Children(root) = ChallengesOf(root) /\ Kids(root) = ChallengesOf(root)
        /\ ChallengesOf(root) \subseteq ChallengeIds
    <3>1. root = <<r, request[r].wanted>> /\ started = {root} /\ orderIds = {}
      BY <1>4 DEF Made, Wanted
    <3>. QED
      BY <1>1, <1>2, <3>1, AuthorizationParts DEF Kids
  <2>2. \A c \in ChallengesOf(root) : Children(c) = {} /\ Kids(c) = {}
    BY <2>1, NothingBelow, NoKids
  <2>3. UNION {ChallengesOf(a) : a \in started} = ChallengesOf(root)
    BY <2>1
  <2>4. UNION {Children(a) : a \in Children(root)} = {}
    BY <2>1, <2>2
  <2>5. \A id \in {root} \cup ChallengesOf(root) : Children(id) = Kids(id)
    BY <1>1, <2>2
  <2>6. DueTree(r) = [id \in {root} \cup ChallengesOf(root) |-> Kids(id)]
    <3>1. orderIds \cup started \cup UNION {ChallengesOf(a) : a \in started}
            = {root} \cup ChallengesOf(root)
      BY <2>1, <2>3
    <3>. QED
      BY <3>1 DEF DueTree
  <2>7. StoredTree(r) = [id \in {root} \cup ChallengesOf(root) |-> Children(id)]
    <3>1. {root} \cup Children(root) \cup UNION {Children(a) : a \in Children(root)}
            = {root} \cup ChallengesOf(root)
      BY <2>1, <2>4
    <3>. QED
      BY <3>1 DEF StoredTree
  <2>. HIDE DEF root
  <2>. QED
    BY ONLY <2>5, <2>6, <2>7
<1>. QED
  BY <1>3, <1>4

-----------------------------------------------------------------------------
(* What a step does to what clients see of the requests.                     *)
Still(q) ==
  /\ request'[q].target = request[q].target
  /\ request'[q].location = request[q].location /\ request'[q].body = request[q].body
  /\ q \in Creators => request'[q].account = request[q].account
  /\ q \in Readers => request'[q].kind = request[q].kind
  /\ Succeeded(q)' => Succeeded(q)

Accepts(r) ==
  /\ r \in Creators /\ request[r].pc = "find" /\ request'[r].account # None
  /\ request'[r].target = request[r].target
  /\ request'[r].location = request[r].location /\ request'[r].body = request[r].body

Joins(r) ==
  /\ r \in Creators /\ request[r].pc = "join" /\ request'[r].pc = "list"
  /\ request'[r].account = request[r].account
  /\ request'[r].location = request[r].location /\ request'[r].body = request[r].body

Asks(r) ==
  /\ r \in Readers /\ ~Succeeded(r)'
  /\ request'[r].kind # "orders" => request'[r].target \in Known \cup {None}
  /\ request'[r].location = request[r].location /\ request'[r].body = request[r].body

IsTold(r) ==
  /\ request[r].pc \in {"list", "owner", "again"} /\ Succeeded(r)'
  /\ request[r].kind # "orders" /\ ~Wiped
  /\ request'[r].target = request[r].target /\ request'[r].kind = request[r].kind
  /\ r \in Creators => request'[r].account = request[r].account

Turn(r) == Still(r) \/ Accepts(r) \/ Joins(r) \/ Asks(r) \/ IsTold(r)

Others(r) == \A q \in Requests \ {r} : Still(q)

(* A new local state of one request.                                         *)
LEMMA Patch ==
  ASSUME TypeOK, NEW r \in Requests, NEW new, request' = [request EXCEPT ![r] = new]
  PROVE  request'[r] = new /\ Others(r)
<1>1. request'[r] = new /\ \A q \in Requests \ {r} : request'[q] = request[q]
  BY DEF TypeOK
<1>. QED
  BY <1>1 DEF Others, Still, Succeeded

LEMMA GotoTurn ==
  ASSUME TypeOK, NEW r \in Requests, NEW pc \in Pcs \ {"answered"}, Goto(r, pc)
  PROVE  Still(r) /\ Others(r)
<1>1. /\ \A q \in Requests \ {r} : request'[q] = request[q]
      /\ request'[r].pc = pc /\ Same(request[r], request'[r])
      /\ request'[r].target = request[r].target /\ request'[r].account = request[r].account
      /\ request'[r].location = request[r].location /\ request'[r].body = request[r].body
  BY GotoIs
<1>. QED
  BY <1>1 DEF Still, Others, Same, Succeeded

LEMMA RefuseTurn ==
  ASSUME IInv, NEW r \in Requests, NEW code \in Codes \ {200, 201}, Refuse(r, code), ~Over(r)
  PROVE  Still(r) /\ Others(r)
<1>1. /\ \A q \in Requests \ {r} : request'[q] = request[q]
      /\ request'[r].code = code
      /\ request'[r].location = None /\ request'[r].body = {}
      /\ Same(request[r], request'[r]) /\ request'[r].target = request[r].target
      /\ request'[r].account = request[r].account
  BY RefuseIs DEF IInv
<1>2. request[r].location = None /\ request[r].body = {}
  BY DEF IInv, Told, Succeeded, Over
<1>. QED
  BY <1>1, <1>2 DEF Still, Others, Same, Succeeded

LEMMA RespondTurn ==
  ASSUME IInv, NEW r \in Requests, NEW code \in {200, 201}, NEW location \in Ids \cup {None},
         NEW body \in SUBSET Ids, Respond(r, code, location, body),
         request[r].pc \in {"list", "owner", "again"}, request[r].kind # "orders", ~Wiped
  PROVE  IsTold(r) /\ Others(r)
<1>1. TypeOK /\ code \in Codes
  BY DEF IInv, Codes
<1>2. /\ \A q \in Requests \ {r} : request'[q] = request[q]
      /\ request'[r].pc = "answered" /\ request'[r].code = code
      /\ Same(request[r], request'[r]) /\ request'[r].target = request[r].target
      /\ request'[r].account = request[r].account
  BY <1>1, RespondIs
<1>. QED
  BY <1>2 DEF IsTold, Others, Still, Same, Succeeded

-----------------------------------------------------------------------------
(* Each step is the turn of one request, if it is any request's.             *)
LEMMA FindAccountTurn ==
  ASSUME IInv, NEW r \in Requests, FindAccount(r)
  PROVE  Turn(r) /\ Others(r)
<1>. USE OrdersAssumption DEF IInv
<1>. DEFINE q == request[r]
<1>1. ~Over(r) /\ q.pc = "find" /\ q \in RequestRecord /\ request \in [Requests -> RequestRecord]
  BY DEF FindAccount, Over, TypeOK
<1>2. r \in Creators
  BY <1>1 DEF Reads, Getting, Requests
<1>3. ASSUME NEW code \in {400, 403, 404, 500}, Refuse(r, code) PROVE Turn(r) /\ Others(r)
  BY <1>1, <1>3, RefuseTurn DEF Codes, Turn
<1>4. ASSUME NEW a \in Accounts, NEW pc \in {"create", "join"},
             request' = [request EXCEPT ![r].pc = pc, ![r].account = a]
      PROVE  Turn(r) /\ Others(r)
  <2>. DEFINE new == [q EXCEPT !.pc = pc, !.account = a]
  <2>1. request' = [request EXCEPT ![r] = new]
    BY ONLY <1>1, <1>4, r \in Requests
  <2>2. /\ new.account = a /\ new.target = q.target
        /\ new.location = q.location /\ new.body = q.body
    BY ONLY <1>1 DEF RequestRecord
  <2>. HIDE DEF new
  <2>3. request'[r] = new /\ Others(r)
    BY <2>1, Patch
  <2>. QED
    BY <1>1, <1>2, <2>2, <2>3 DEF Turn, Accepts
<1>. QED
  BY <1>3, <1>4 DEF FindAccount, StoredAccounts

LEMMA JoinTurn ==
  ASSUME IInv, NEW r \in Requests, Join(r)
  PROVE  Turn(r) /\ Others(r)
<1>. USE OrdersAssumption DEF IInv
<1>. DEFINE q == request[r]
<1>1. ~Over(r) /\ q.pc = "join" /\ q \in RequestRecord /\ request \in [Requests -> RequestRecord]
  BY DEF Join, Over, TypeOK
<1>2. r \in Creators
  BY <1>1 DEF Reads, Getting, Requests
<1>3. CASE Refuse(r, 500)
  BY <1>1, <1>3, RefuseTurn DEF Codes, Turn
<1>4. CASE request' = [request EXCEPT ![r].pc = "list", ![r].target = Made(r)]
  <2>. DEFINE new == [q EXCEPT !.pc = "list", !.target = Made(r)]
  <2>1. request' = [request EXCEPT ![r] = new]
    BY ONLY <1>1, <1>4, r \in Requests
  <2>2. /\ new.pc = "list" /\ new.account = q.account
        /\ new.location = q.location /\ new.body = q.body
    BY ONLY <1>1 DEF RequestRecord
  <2>. HIDE DEF new
  <2>3. request'[r] = new /\ Others(r)
    BY <2>1, Patch
  <2>. QED
    BY <1>1, <1>2, <2>2, <2>3 DEF Turn, Joins
<1>. QED
  BY <1>3, <1>4 DEF Join, Made

LEMMA CreatingTurn ==
  ASSUME IInv, NEW r \in Requests, CreateOrder(r) \/ FillOrder(r)
  PROVE  Turn(r) /\ Others(r)
<1>1. TypeOK /\ ~Over(r) /\ {"fill", "join"} \subseteq Pcs \ {"answered"}
  BY DEF IInv, CreateOrder, FillOrder, Over, Pcs
<1>2. ASSUME NEW pc \in {"fill", "join"}, Goto(r, pc) PROVE Turn(r) /\ Others(r)
  BY <1>1, <1>2, GotoTurn DEF Turn
<1>3. CASE Refuse(r, 500)
  BY <1>1, <1>3, RefuseTurn DEF Codes, Turn
<1>. QED
  BY <1>2, <1>3 DEF CreateOrder, FillOrder

LEMMA ReadingTurn ==
  ASSUME IInv, NEW r \in Requests, GetChallenge(r) \/ GetAuthorization(r) \/ GetOrder(r)
  PROVE  Turn(r) /\ Others(r)
<1>. USE OrdersAssumption DEF IInv
<1>. DEFINE q == request[r]
<1>1. ~Over(r) /\ q.pc \in Getting /\ q \in RequestRecord /\ request \in [Requests -> RequestRecord]
  BY DEF GetChallenge, GetAuthorization, GetOrder, Over, TypeOK, Getting
<1>2. r \in Readers /\ r \notin Creators
  BY <1>1 DEF Creates, Getting, Requests
<1>3. ASSUME NEW code \in {404, 422}, Refuse(r, code) PROVE Turn(r) /\ Others(r)
  BY <1>1, <1>3, RefuseTurn DEF Codes, Turn
<1>4. ASSUME NEW new, request' = [request EXCEPT ![r] = new], new.pc # "answered",
             new.kind = q.kind, new.target = q.target,
             new.location = q.location, new.body = q.body
      PROVE  Turn(r) /\ Others(r)
  <2>1. request'[r] = new /\ Others(r)
    BY <1>4, Patch
  <2>. QED
    BY <1>2, <1>4, <2>1 DEF Turn, Still, Succeeded
<1>5. CASE GetChallenge(r) /\ ~Refuse(r, 404)
  <2>. DEFINE id == challenges[q.target].authorization
              new == [q EXCEPT !.pc = "authorization", !.authorization = id]
  <2>1. request' = [request EXCEPT ![r].pc = "authorization", ![r].authorization = id]
    BY <1>5 DEF GetChallenge
  <2>. HIDE DEF id
  <2>2. request' = [request EXCEPT ![r] = new]
    BY ONLY <1>1, <2>1, r \in Requests
  <2>3. /\ new.pc # "answered" /\ new.kind = q.kind /\ new.target = q.target
        /\ new.location = q.location /\ new.body = q.body
    BY ONLY <1>1 DEF RequestRecord
  <2>. HIDE DEF new
  <2>. QED
    BY <1>4, <2>2, <2>3
<1>6. CASE GetAuthorization(r) /\ ~Refuse(r, 404) /\ ~Refuse(r, 422)
  <2>1. CASE \E id : request' = [request EXCEPT ![r].pc = "order", ![r].order = id]
    <3>1. PICK id : request' = [request EXCEPT ![r].pc = "order", ![r].order = id]
      BY <2>1
    <3>. DEFINE new == [q EXCEPT !.pc = "order", !.order = id]
    <3>2. request' = [request EXCEPT ![r] = new]
      BY ONLY <1>1, <3>1, r \in Requests
    <3>3. /\ new.pc # "answered" /\ new.kind = q.kind /\ new.target = q.target
          /\ new.location = q.location /\ new.body = q.body
      BY ONLY <1>1 DEF RequestRecord
    <3>. HIDE DEF new
    <3>. QED
      BY <1>4, <3>2, <3>3
  <2>2. CASE \E id : request' = [request EXCEPT ![r].pc = "owner", ![r].account = id]
    <3>1. PICK id : request' = [request EXCEPT ![r].pc = "owner", ![r].account = id]
      BY <2>2
    <3>. DEFINE new == [q EXCEPT !.pc = "owner", !.account = id]
    <3>2. request' = [request EXCEPT ![r] = new]
      BY ONLY <1>1, <3>1, r \in Requests
    <3>3. /\ new.pc # "answered" /\ new.kind = q.kind /\ new.target = q.target
          /\ new.location = q.location /\ new.body = q.body
      BY ONLY <1>1 DEF RequestRecord
    <3>. HIDE DEF new
    <3>. QED
      BY <1>4, <3>2, <3>3
  <2>. QED
    BY <1>6, <2>1, <2>2 DEF GetAuthorization
<1>7. CASE GetOrder(r) /\ ~Refuse(r, 404)
  <2>. DEFINE id == orders[q.order].account
              new == [q EXCEPT !.pc = "owner", !.account = id]
  <2>1. request' = [request EXCEPT ![r].pc = "owner", ![r].account = id]
    BY <1>7 DEF GetOrder
  <2>. HIDE DEF id
  <2>2. request' = [request EXCEPT ![r] = new]
    BY ONLY <1>1, <2>1, r \in Requests
  <2>3. /\ new.pc # "answered" /\ new.kind = q.kind /\ new.target = q.target
        /\ new.location = q.location /\ new.body = q.body
    BY ONLY <1>1 DEF RequestRecord
  <2>. HIDE DEF new
  <2>. QED
    BY <1>4, <2>2, <2>3
<1>. QED
  BY <1>3, <1>5, <1>6, <1>7

LEMMA OwnerTurn ==
  ASSUME IInv, NEW r \in Requests, GetOwner(r)
  PROVE  Turn(r) /\ Others(r)
<1>. USE OrdersAssumption DEF IInv
<1>. DEFINE q == request[r]
<1>1. ~Over(r) /\ q.pc = "owner"
  BY DEF GetOwner, Over
<1>2. r \in Readers /\ Reads(r)
  BY <1>1 DEF Creates, Requests
<1>3. ASSUME NEW code \in {403, 404}, Refuse(r, code) PROVE Turn(r) /\ Others(r)
  BY <1>1, <1>3, RefuseTurn DEF Codes, Turn
<1>4. ASSUME NEW pc \in {"list", "again"}, Goto(r, pc) PROVE Turn(r) /\ Others(r)
  BY <1>4, GotoTurn DEF Pcs, Turn
<1>5. CASE q.kind = "challenge" /\ Respond(r, 200, q.target, {}) /\ ~Wiped
  <2>1. q.target \in Ids \cup {None}
    BY <1>1, <1>2, <1>5 DEF Reads, TargetOf, Ids
  <2>. QED
    BY <1>1, <1>5, <2>1, RespondTurn DEF Turn
<1>. QED
  BY <1>3, <1>4, <1>5 DEF GetOwner, StoredAccounts, Loss

LEMMA AnsweringTurn ==
  ASSUME IInv, NEW r \in Requests, List(r) \/ GetAgain(r)
  PROVE  Turn(r) /\ Others(r)
<1>. USE OrdersAssumption DEF IInv
<1>. DEFINE q == request[r]
<1>1. q.pc \in {"list", "again"}
  BY DEF List, GetAgain
<1>2. q.kind # "orders" /\ q.target \in Ids /\ ~Wiped
  <2>1. CASE r \in Readers
    BY <1>1, <2>1 DEF Reads, TargetOf, Ids, Getting
  <2>2. CASE r \in Creators
    <3>1. Creates(r) /\ q.pc = "list"
      BY <1>1, <2>2 DEF Creates
    <3>2. q.kind = "new" /\ q.target = Made(r) /\ Finished(Made(r)) /\ ~Wiped
      BY <3>1 DEF Creates
    <3>. QED
      BY <3>2, FinishedParts
  <2>. QED
    BY <2>1, <2>2 DEF Requests
<1>3. Children(q.target) \in SUBSET Ids
  BY DEF Children, Ids
<1>4. PICK code \in {200, 201}, body \in SUBSET Ids : Respond(r, code, q.target, body)
  <2>1. CASE List(r)
    <3>1. Respond(r, IF q.kind = "new" THEN 201 ELSE 200, q.target, Children(q.target))
      BY <2>1 DEF List
    <3>. QED
      BY <1>3, <3>1
  <2>2. CASE GetAgain(r)
    BY <2>2 DEF GetAgain
  <2>. QED
    BY <2>1, <2>2
<1>. QED
  BY <1>1, <1>2, <1>4, RespondTurn DEF Turn

LEMMA FailingTurn ==
  ASSUME IInv, NEW r \in Requests, RequestCallFails(r)
  PROVE  Turn(r) /\ Others(r)
<1>. USE OrdersAssumption DEF IInv
<1>. DEFINE q == request[r]
            code == IF q.pc \in Getting THEN 404 ELSE 500
            new == [q EXCEPT !.pc = "answered", !.failed = TRUE, !.code = code]
<1>1. q \in RequestRecord /\ request \in [Requests -> RequestRecord] /\ code \notin {200, 201}
  BY DEF TypeOK
<1>2. request' = [request EXCEPT ![r].pc = "answered", ![r].failed = TRUE, ![r].code = code]
  BY DEF RequestCallFails
<1>. HIDE DEF code
<1>3. request' = [request EXCEPT ![r] = new]
  BY ONLY <1>1, <1>2, r \in Requests
<1>4. /\ new.code = code /\ new.kind = q.kind /\ new.target = q.target
      /\ new.account = q.account /\ new.location = q.location /\ new.body = q.body
  BY ONLY <1>1 DEF RequestRecord
<1>. HIDE DEF new
<1>5. request'[r] = new /\ Others(r)
  BY <1>3, Patch
<1>. QED
  BY <1>1, <1>4, <1>5 DEF Turn, Still, Succeeded

LEMMA NewTurn ==
  ASSUME IInv, NEW r \in Creators, New(r)
  PROVE  Turn(r) /\ Others(r)
<1>. USE OrdersAssumption DEF IInv
<1>1. PICK k, wanted : ArriveNew(r, k, wanted)
  BY DEF New
<1>. DEFINE late == \A a \in Accounts : KidOf[a] = k => accounts[a] # "valid"
            new == [Idle EXCEPT !.pc = "find", !.kind = "new", !.key = k, !.wanted = wanted,
                                !.late = late]
<1>2. r \in Requests /\ r \notin Readers /\ request[r] = Idle
  BY <1>1 DEF ArriveNew, Creates, Requests
<1>3. request' = [request EXCEPT ![r] = new]
  BY <1>1 DEF ArriveNew
<1>. HIDE DEF late
<1>4. /\ new.pc # "answered" /\ new.target = Idle.target /\ new.account = Idle.account
      /\ new.location = Idle.location /\ new.body = Idle.body
  BY DEF Idle
<1>. HIDE DEF new
<1>5. request'[r] = new /\ Others(r)
  BY <1>2, <1>3, Patch
<1>. QED
  BY <1>2, <1>4, <1>5 DEF Turn, Still, Succeeded

LEMMA GetTurn ==
  ASSUME IInv, NEW r \in Readers, Get(r)
  PROVE  Turn(r) /\ Others(r)
<1>. USE OrdersAssumption DEF IInv
<1>1. ASSUME NEW new, request[r].pc = "idle", request' = [request EXCEPT ![r] = new],
             new.pc # "answered", new.location = None, new.body = {},
             new.kind = "orders" \/ new.target \in Known \cup {None}
      PROVE  Turn(r) /\ Others(r)
  <2>1. r \in Requests /\ request[r].location = None /\ request[r].body = {}
    BY <1>1 DEF Told, Succeeded, Requests
  <2>2. request'[r] = new /\ Others(r)
    BY <1>1, <2>1, Patch
  <2>. QED
    BY <1>1, <2>1, <2>2 DEF Turn, Asks, Succeeded
<1>2. ASSUME NEW kind \in {"order", "authorization", "challenge"},
             NEW id \in Known \cup {None}, ArriveGet(r, kind, id)
      PROVE  Turn(r) /\ Others(r)
  <2>. DEFINE late == id # None /\ accounts[Owner(id)] # "valid"
              order == IF kind = "order" THEN id ELSE None
              authorization == IF kind = "authorization" THEN id ELSE None
              new == [Idle EXCEPT !.pc = kind, !.kind = kind, !.target = id,
                        !.order = order, !.authorization = authorization, !.late = late]
  <2>1. request[r].pc = "idle" /\ request' = [request EXCEPT ![r] = new]
    BY <1>2 DEF ArriveGet
  <2>. HIDE DEF late, order, authorization
  <2>2. /\ new.pc = kind /\ new.target = id /\ new.location = None /\ new.body = {}
    BY DEF Idle
  <2>. HIDE DEF new
  <2>. QED
    BY <1>1, <2>1, <2>2
<1>3. ASSUME NEW a \in Accounts, ArriveGetOrders(r, a)
      PROVE  Turn(r) /\ Others(r)
  <2>. DEFINE late == accounts[a] # "valid"
              new == [Idle EXCEPT !.pc = "owner", !.kind = "orders", !.target = a, !.late = late]
  <2>1. request[r].pc = "idle" /\ request' = [request EXCEPT ![r] = new]
    BY <1>3 DEF ArriveGetOrders
  <2>. HIDE DEF late
  <2>2. new.pc = "owner" /\ new.kind = "orders" /\ new.location = None /\ new.body = {}
    BY DEF Idle
  <2>. HIDE DEF new
  <2>. QED
    BY <1>1, <2>1, <2>2
<1>. QED
  BY <1>2, <1>3 DEF Get

LEMMA RestartTurn ==
  ASSUME IInv, Restart
  PROVE  \A q \in Requests : Still(q)
<1>. SUFFICES ASSUME NEW q \in Requests PROVE Still(q)
  OBVIOUS
<1>1. request[q] \in RequestRecord
  BY DEF IInv, TypeOK
<1>2. CASE Busy(q)
  <2>. DEFINE new == [request[q] EXCEPT !.pc = "lost"]
  <2>1. request'[q] = new
    BY <1>2 DEF Restart
  <2>2. /\ new.pc = "lost" /\ new.kind = request[q].kind /\ new.target = request[q].target
        /\ new.account = request[q].account
        /\ new.location = request[q].location /\ new.body = request[q].body
    BY ONLY <1>1 DEF RequestRecord
  <2>. HIDE DEF new
  <2>. QED
    BY <2>1, <2>2 DEF Still, Succeeded
<1>3. CASE ~Busy(q)
  BY <1>3 DEF Restart, Still, Succeeded
<1>. QED
  BY <1>2, <1>3

LEMMA NextTurn ==
  ASSUME IInv, [Next]_vars
  PROVE  \/ \A q \in Requests : Still(q)
         \/ /\ \E r \in Requests : Turn(r) /\ Others(r)
            /\ restarts' = restarts /\ server' = server
<1>1. ASSUME NEW r \in Requests, RequestStep(r) \/ RequestCallFails(r)
      PROVE  Turn(r) /\ Others(r) /\ restarts' = restarts /\ server' = server
  <2>1. Turn(r) /\ Others(r)
    BY <1>1, FindAccountTurn, CreatingTurn, JoinTurn, ReadingTurn, OwnerTurn, AnsweringTurn,
       FailingTurn DEF RequestStep
  <2>. QED
    BY <1>1, <2>1 DEF RequestStep, RequestCallFails, FindAccount, CreateOrder, FillOrder, Join,
         GetChallenge, GetAuthorization, GetOrder, GetOwner, List, GetAgain, faults
<1>2. ASSUME NEW r \in Creators, New(r)
      PROVE  Turn(r) /\ Others(r) /\ restarts' = restarts /\ server' = server
  BY <1>2, NewTurn DEF New, ArriveNew, faults
<1>3. ASSUME NEW r \in Readers, Get(r)
      PROVE  Turn(r) /\ Others(r) /\ restarts' = restarts /\ server' = server
  BY <1>3, GetTurn DEF Get, ArriveGet, ArriveGetOrders, faults
<1>4. CASE Restart
  BY <1>4, RestartTurn
<1>5. ASSUME request' = request PROVE \A q \in Requests : Still(q)
  BY <1>5 DEF Still, Succeeded
<1>. QED
  BY <1>1, <1>2, <1>3, <1>4, <1>5
     DEF Next, JobStep, AuthorizationStep, ChallengeStep, CreateAuthorization,
         UpdateAuthorization, CreateChallenge, UpdateChallenge, AuthorizationCallFails,
         ChallengeCallFails, Deactivate, vars, Requests

-----------------------------------------------------------------------------
(* A creation that has resolved to something has made all of it, and what a  *)
(* client reads has been made.                                               *)
Resolved(r) ==
  request[r].target # None =>
    request[r].target = Made(r) /\ Finished(Made(r)) /\ request[r].pc \in Settled

Visits(r) ==
  /\ request[r].kind # "orders" /\ request[r].target # None =>
       request[Root(request[r].target)].target # None
  /\ request[r].kind = "orders" => ~Succeeded(r)

PInv == (\A r \in Creators : Resolved(r)) /\ (\A r \in Readers : Visits(r))

LEMMA KnownIsMade ==
  ASSUME IInv, PInv, NEW id \in Known
  PROVE  Finished(id) /\ request[Root(id)].target # None
<1>. USE OrdersAssumption DEF IInv
<1>1. PICK q \in Requests : id \in {request[q].location} \cup request[q].body /\ id # None
  BY DEF Known
<1>2. /\ Succeeded(q) /\ request[q].target # None /\ Finished(request[q].target)
      /\ id = request[q].target \/ id \in Kids(request[q].target)
  BY <1>1 DEF Told
<1>3. PICK top : top = request[q].target
  OBVIOUS
<1>4. request[Root(top)].target # None
  <2>1. CASE q \in Creators
    BY <1>2, <1>3, <2>1, MadeParts DEF PInv, Resolved
  <2>2. CASE q \in Readers
    BY <1>2, <1>3, <2>2 DEF PInv, Visits
  <2>. QED
    BY <2>1, <2>2 DEF Requests
<1>5. Root(id) = Root(top)
  <2>1. CASE id \in Kids(top) /\ top \in Creators
    <3>1. Finished(top) /\ Creates(top) /\ request[top].account \in Accounts
      BY <1>2, <1>3, <2>1, FinishedParts DEF Root
    <3>2. id \in AuthorizationIds /\ id[1] = top
      BY <2>1, <3>1, WantedAreNames DEF Kids, AuthorizationIds
    <3>. QED
      BY <2>1, <3>2, AuthorizationParts DEF Root
  <2>2. CASE id \in Kids(top) /\ top \notin Creators
    BY <2>2, AuthorizationParts, ChallengeParts DEF Root, Kids, ChallengesOf
  <2>. QED
    BY <1>2, <1>3, <2>1, <2>2
<1>. QED
  BY <1>2, <1>3, <1>4, <1>5, KidsAreFinished

LEMMA PInvInit == Init => PInv
<1>. SUFFICES ASSUME Init PROVE PInv
  OBVIOUS
<1>1. \A r \in Requests : request[r].target = None /\ request[r].kind = None
  BY DEF Init, Idle
<1>2. \A r \in Readers : ~Succeeded(r)
  BY DEF Init, Idle, Succeeded, Requests
<1>. QED
  BY <1>1, <1>2 DEF PInv, Resolved, Visits, Requests

LEMMA ResolvedKept ==
  ASSUME IInv, PInv, Grows, NEW r \in Creators, request'[r].target = request[r].target
  PROVE  Resolved(r)'
<1>. SUFFICES ASSUME request[r].target # None PROVE Resolved(r)'
  BY DEF Resolved
<1>1. request[r].target = Made(r) /\ Finished(Made(r)) /\ request[r].pc \in Settled
  BY DEF PInv, Resolved
<1>2. Made(r)' = Made(r) /\ request'[r].pc \in Settled
  BY <1>1, CreatorGrows DEF Settled, Grows
<1>3. PICK id : id = Made(r)
  OBVIOUS
<1>4. Finished(id)'
  BY <1>1, <1>3, FinishedGrows
<1>. QED
  BY <1>1, <1>2, <1>3, <1>4 DEF Resolved

LEMMA VisitsKept ==
  ASSUME IInv, PInv, NEW r \in Readers,
         \A c \in Creators : request[c].target # None => request'[c].target # None,
         request'[r].target = request[r].target, request'[r].kind = request[r].kind,
         request[r].kind = "orders" => ~Succeeded(r)'
  PROVE  Visits(r)'
<1>. SUFFICES ASSUME request[r].kind # "orders", NEW id, id = request[r].target, id # None
              PROVE  request'[Root(id)].target # None
  BY DEF Visits, Root
<1>1. Reads(r) /\ Visits(r)
  BY DEF IInv, PInv
<1>2. Finished(id)
  BY <1>1 DEF Reads, Idle
<1>. QED
  BY <1>1, <1>2, FinishedParts DEF Visits

LEMMA PInvNext == IInv /\ PInv /\ [Next]_vars => PInv'
<1>. USE OrdersAssumption
<1>. SUFFICES ASSUME IInv, PInv, [Next]_vars PROVE PInv'
  OBVIOUS
<1>1. IInv' /\ Grows
  BY NextInv
<1>2. \A q \in Requests : Turn(q)
  BY NextTurn DEF Turn, Others
<1>3. ASSUME NEW r \in Creators PROVE Resolved(r)'
  <2>1. r \in Requests /\ r \notin Readers
    BY DEF Requests
  <2>2. CASE Joins(r)
    <3>1. Creates(r)' /\ request'[r].pc = "list"
      BY <1>1, <2>2 DEF IInv, Joins
    <3>. QED
      BY <3>1 DEF Creates, Resolved, Settled
  <2>3. CASE ~Joins(r)
    <3>1. request'[r].target = request[r].target
      BY <1>2, <2>1, <2>3 DEF Turn, Still, Accepts, Asks, IsTold
    <3>. QED
      BY <1>1, <3>1, ResolvedKept
  <2>. QED
    BY <2>2, <2>3
<1>4. ASSUME NEW c \in Creators, request[c].target # None PROVE request'[c].target # None
  <2>1. ~Joins(c)
    BY <1>4 DEF PInv, Resolved, Joins, Settled
  <2>. QED
    BY <1>2, <1>4, <2>1 DEF Turn, Still, Accepts, Asks, IsTold, Requests
<1>5. ASSUME NEW r \in Readers PROVE Visits(r)'
  <2>1. r \in Requests /\ r \notin Creators /\ Visits(r)
    BY DEF Requests, PInv
  <2>2. CASE Asks(r)
    <3>1. ASSUME request'[r].kind # "orders", NEW id, id = request'[r].target, id # None
          PROVE  request'[Root(id)].target # None
      <4>1. id \in Known
        BY <2>2, <3>1 DEF Asks
      <4>. QED
        BY <1>4, <4>1, KnownIsMade, FinishedParts
    <3>. QED
      BY <2>2, <3>1 DEF Visits, Asks, Root
  <2>3. CASE Still(r) \/ IsTold(r)
    <3>1. /\ request'[r].target = request[r].target /\ request'[r].kind = request[r].kind
          /\ request[r].kind = "orders" => ~Succeeded(r)'
      BY <2>1, <2>3 DEF Still, IsTold, Visits
    <3>. QED
      BY <1>4, <3>1, VisitsKept
  <2>. QED
    BY <1>2, <2>1, <2>2, <2>3 DEF Turn, Accepts, Joins
<1>. QED
  BY <1>3, <1>5 DEF PInv

-----------------------------------------------------------------------------
(* What the variables of Publication stand for, as long as the invariants    *)
(* hold.                                                                     *)
LEMMA StoredIsDue ==
  IInv /\ PInv =>
    StoredTrees = [r \in Creators |->
                     IF request[r].target = None \/ Wiped THEN {} ELSE {DueTree(r)}]
<1>. SUFFICES ASSUME IInv, PInv, NEW r \in Creators, request[r].target # None, ~Wiped
              PROVE  StoredTree(r) = DueTree(r)
  BY DEF StoredTrees
<1>. QED
  BY TreeIsDue DEF PInv, Resolved

LEMMA StoredIsDueNext ==
  (IInv /\ PInv =>
     StoredTrees = [r \in Creators |->
                      IF request[r].target = None \/ Wiped THEN {} ELSE {DueTree(r)}])'
BY StoredIsDue, PTL

LEMMA DueTreeKept ==
  ASSUME IInv, Grows, NEW r \in Creators, request[r].account # None
  PROVE  DueTree(r)' = DueTree(r)
<1>. USE OrdersAssumption DEF IInv
<1>. DEFINE started == {<<r, n>> : n \in Wanted(r)}
            orderIds == IF server.version = "v2" THEN {r} ELSE {}
            ids == orderIds \cup started \cup UNION {ChallengesOf(a) : a \in started}
<1>1. Creates(r) /\ request[r].account \in Accounts /\ request[r].pc # "idle"
  BY DEF Creates, TypeOK, RequestRecord, Requests
<1>2. Wanted(r)' = Wanted(r) /\ server' = server
  BY <1>1, CreatorGrows DEF Grows
<1>3. ids' = ids
  BY <1>2 DEF ChallengesOf
<1>4. \A a \in started : a \in AuthorizationIds
  BY <1>1, WantedAreNames DEF AuthorizationIds
<1>5. ASSUME NEW id \in ids PROVE Kids(id)' = Kids(id)
  <2>1. CASE id = r
    BY <1>2, <2>1 DEF Kids
  <2>2. CASE id # r
    <3>1. id \in AuthorizationIds \cup ChallengeIds
      BY <1>4, <2>2, AuthorizationParts
    <3>2. id \notin Creators
      BY <3>1, AuthorizationParts, ChallengeParts
    <3>. QED
      BY <3>2 DEF Kids, ChallengesOf
  <2>. QED
    BY <2>1, <2>2
<1>. HIDE DEF ids
<1>6. DueTree(r) = [id \in ids |-> Kids(id)]
  BY DEF DueTree, ids
<1>7. DueTree(r)' = [id \in ids' |-> Kids(id)']
  BY DEF DueTree, ids
<1>. QED
  BY ONLY <1>3, <1>5, <1>6, <1>7

-----------------------------------------------------------------------------
(* Every step of Orders is a step of Publication or none.                    *)
LEMMA TreesKept ==
  ASSUME IInv, PInv, IInv', PInv', Grows, Wiped' = Wiped, NEW r \in Creators
  PROVE  /\ request'[r].account = request[r].account => DueTrees'[r] = DueTrees[r]
         /\ request'[r].target = request[r].target => StoredTrees'[r] = StoredTrees[r]
<1>. USE OrdersAssumption
<1>1. request[r].account # None => DueTree(r)' = DueTree(r)
  BY DueTreeKept
<1>2. ASSUME request'[r].account = request[r].account PROVE DueTrees'[r] = DueTrees[r]
  BY <1>1, <1>2 DEF DueTrees
<1>3. ASSUME request'[r].target = request[r].target PROVE StoredTrees'[r] = StoredTrees[r]
  <2>1. CASE request[r].target = None
    BY <1>3, <2>1 DEF StoredTrees
  <2>2. CASE request[r].target # None
    <3>1. request[r].account # None
      <4>1. Finished(Made(r))
        BY <2>2 DEF PInv, Resolved
      <4>. QED
        BY <4>1, MadeParts, FinishedParts
    <3>2. StoredTrees[r] = IF Wiped THEN {} ELSE {DueTree(r)}
      BY <2>2, StoredIsDue
    <3>3. StoredTrees'[r] = IF Wiped' THEN {} ELSE {DueTree(r)'}
      BY <1>3, <2>2, StoredIsDueNext
    <3>. QED
      BY ONLY <1>1, <3>1, <3>2, <3>3, Wiped' = Wiped
  <2>. QED
    BY <2>1, <2>2
<1>. QED
  BY <1>2, <1>3

LEMMA AreFunctions ==
  /\ DueTrees = [c \in Creators |-> DueTrees[c]] /\ DueTrees' = [c \in Creators |-> DueTrees'[c]]
  /\ StoredTrees = [c \in Creators |-> StoredTrees[c]]
  /\ StoredTrees' = [c \in Creators |-> StoredTrees'[c]]
  /\ Answers = [q \in Requests |-> Answers[q]] /\ Answers' = [q \in Requests |-> Answers'[q]]
BY DEF DueTrees, StoredTrees, Answers

LEMMA StillKeeps ==
  ASSUME IInv, PInv, IInv', PInv', Grows, Wiped' = Wiped, \A q \in Requests : Still(q)
  PROVE  UNCHANGED <<DueTrees, StoredTrees, Answers>>
<1>1. \A r \in Creators : DueTrees'[r] = DueTrees[r] /\ StoredTrees'[r] = StoredTrees[r]
  BY TreesKept DEF Still, Requests
<1>2. \A q \in Requests : Answers'[q] = Answers[q]
  BY DEF Still, Answers
<1>. QED
  BY <1>1, <1>2, AreFunctions

LEMMA OneTurn ==
  ASSUME IInv, PInv, IInv', PInv', Grows, Wiped' = Wiped,
         NEW r \in Requests, Turn(r), Others(r)
  PROVE  /\ \A c \in Creators \ {r} : DueTrees'[c] = DueTrees[c] /\ StoredTrees'[c] = StoredTrees[c]
         /\ \A q \in Requests \ {r} : Answers'[q] = Answers[q]
BY TreesKept DEF Others, Still, Requests, Answers

(* Nothing is above what a creation resolves to.                             *)
LEMMA MadeIsRoot ==
  ASSUME IInv, NEW r \in Creators, Finished(Made(r))
  PROVE  P!IsRoot(Made(r), DueTree(r))
<1>. USE OrdersAssumption DEF IInv
<1>. DEFINE started == {<<r, n>> : n \in Wanted(r)}
<1>1. /\ Made(r) \in Creators \cup AuthorizationIds
      /\ \A a \in started : a \in AuthorizationIds /\ Kids(a) = ChallengesOf(a)
  BY MadeParts, AuthorizationParts DEF Kids
<1>2. \A a \in started : \A c \in ChallengesOf(a) : c \in ChallengeIds /\ Kids(c) = {}
  BY <1>1, AuthorizationParts, NoKids
<1>3. CASE server.version = "v2"
  <2>1. Made(r) = r /\ Kids(r) = started
    BY <1>3 DEF Made, Kids
  <2>2. r \notin AuthorizationIds /\ r \notin ChallengeIds
    OBVIOUS
  <2>3. \A parent \in DOMAIN DueTree(r) :
          /\ parent = r \/ parent \in started \/ \E a \in started : parent \in ChallengesOf(a)
          /\ DueTree(r)[parent] = Kids(parent)
    BY <1>3 DEF DueTree
  <2>4. ASSUME NEW parent \in DOMAIN DueTree(r) PROVE Made(r) \notin Kids(parent)
    BY ONLY <1>1, <1>2, <2>1, <2>2, <2>3, <2>4, \A a \in started : ChallengesOf(a) \subseteq ChallengeIds
  <2>. QED
    BY <2>3, <2>4 DEF P!IsRoot
<1>4. CASE server.version # "v2"
  <2>1. Made(r) \in AuthorizationIds /\ Made(r) \notin ChallengeIds
    BY <1>1, <1>4, IdsDiffer DEF Finished, AuthorizationIds, ChallengeIds
  <2>2. \A parent \in DOMAIN DueTree(r) :
          /\ parent \in started \/ \E a \in started : parent \in ChallengesOf(a)
          /\ DueTree(r)[parent] = Kids(parent)
    BY <1>4 DEF DueTree
  <2>. QED
    BY <1>1, <1>2, <2>1, <2>2 DEF P!IsRoot
<1>. QED
  BY <1>3, <1>4

LEMMA AcceptsImplements ==
  ASSUME IInv, PInv, IInv', PInv', Grows, Wiped' = Wiped,
         NEW r \in Requests, Accepts(r), Others(r)
  PROVE  [P!PublicationNext]_(P!publicationVars)
<1>. USE OrdersAssumption
<1>1. r \in Creators /\ request[r].account = None /\ request'[r].account # None
  BY DEF Accepts, IInv, Creates
<1>2. /\ \A c \in Creators \ {r} : DueTrees'[c] = DueTrees[c]
      /\ \A c \in Creators : StoredTrees'[c] = StoredTrees[c]
      /\ \A q \in Requests : Answers'[q] = Answers[q]
  <2>1. /\ \A c \in Creators \ {r} : DueTrees'[c] = DueTrees[c] /\ StoredTrees'[c] = StoredTrees[c]
        /\ \A q \in Requests \ {r} : Answers'[q] = Answers[q]
    BY OneTurn DEF Turn
  <2>2. StoredTrees'[r] = StoredTrees[r]
    BY <1>1, TreesKept DEF Accepts
  <2>3. Answers'[r] = Answers[r]
    BY DEF Accepts, Answers
  <2>. QED
    BY ONLY <2>1, <2>2, <2>3
<1>3. StoredTrees' = StoredTrees /\ Answers' = Answers
  BY <1>2, AreFunctions
<1>4. CASE Wiped
  <2>1. DueTrees' = DueTrees
    BY <1>4 DEF DueTrees
  <2>. QED
    BY <1>3, <2>1 DEF P!publicationVars
<1>5. CASE ~Wiped
  <2>1. PICK t : t = DueTree(r)'
    OBVIOUS
  <2>2. DueTrees[r] = {} /\ DueTrees'[r] = {t}
    BY <1>1, <1>5, <2>1 DEF DueTrees
  <2>3. DueTrees' = [DueTrees EXCEPT ![r] = {t}]
    BY <1>1, <1>2, <2>2 DEF DueTrees
  <2>. QED
    BY <1>1, <1>3, <2>2, <2>3 DEF P!PublicationNext, P!Accept
<1>. QED
  BY <1>4, <1>5

LEMMA JoinsImplements ==
  ASSUME IInv, PInv, IInv', PInv', Grows, Wiped' = Wiped,
         NEW r \in Requests, Joins(r), Others(r)
  PROVE  [P!PublicationNext]_(P!publicationVars)
<1>. USE OrdersAssumption
<1>1. /\ r \in Creators /\ Creates(r) /\ request[r].account \in Accounts /\ ~Wiped
      /\ request[r].target = None /\ request'[r].account = request[r].account
  BY DEF Joins, IInv, Creates, PInv, Resolved, Settled
<1>2. Made(r) \in Ids /\ Made(r)' = Made(r)
  BY <1>1, WantedAreNames, CreatorGrows DEF Joins
<1>3. request'[r].target # None
  <2>1. request'[r].target = Made(r)'
    BY <1>1 DEF IInv, Creates, Joins
  <2>. QED
    BY <1>2, <2>1 DEF Ids
<1>4. StoredTrees[r] = {} /\ DueTrees[r] = {DueTree(r)} /\ StoredTrees'[r] = {DueTree(r)}
  <2>1. StoredTrees[r] = {}
    BY <1>1 DEF StoredTrees
  <2>2. request[r].account # None
    BY <1>1
  <2>3. DueTrees[r] = {DueTree(r)}
    BY <1>1, <2>2 DEF DueTrees
  <2>4. StoredTrees'[r] = {DueTree(r)'}
    BY <1>1, <1>3, StoredIsDueNext
  <2>5. DueTree(r)' = DueTree(r)
    BY <1>1, <2>2, DueTreeKept
  <2>. QED
    BY ONLY <2>1, <2>3, <2>4, <2>5
<1>5. /\ \A c \in Creators \ {r} : StoredTrees'[c] = StoredTrees[c]
      /\ \A c \in Creators : DueTrees'[c] = DueTrees[c]
      /\ \A q \in Requests : Answers'[q] = Answers[q]
  <2>1. Turn(r)
    BY DEF Turn
  <2>2. /\ \A c \in Creators \ {r} : DueTrees'[c] = DueTrees[c] /\ StoredTrees'[c] = StoredTrees[c]
        /\ \A q \in Requests \ {r} : Answers'[q] = Answers[q]
    BY <2>1, OneTurn
  <2>3. DueTrees'[r] = DueTrees[r]
    BY <1>1, TreesKept
  <2>4. Answers'[r] = Answers[r]
    BY DEF Joins, Answers
  <2>. QED
    BY ONLY <2>2, <2>3, <2>4
<1>6. DueTrees' = DueTrees /\ Answers' = Answers
  BY <1>5, AreFunctions
<1>7. StoredTrees' = [StoredTrees EXCEPT ![r] = DueTrees[r]]
  <2>1. \A c \in Creators : StoredTrees'[c] = [StoredTrees EXCEPT ![r] = DueTrees[r]][c]
    BY <1>1, <1>4, <1>5, AreFunctions
  <2>. QED
    BY <2>1, AreFunctions
<1>. QED
  BY <1>1, <1>4, <1>6, <1>7 DEF P!PublicationNext, P!Publish

LEMMA IsToldImplements ==
  ASSUME IInv, PInv, IInv', PInv', Grows, Wiped' = Wiped,
         NEW r \in Requests, IsTold(r), Others(r)
  PROVE  [P!PublicationNext]_(P!publicationVars)
<1>. USE OrdersAssumption
<1>1. PICK id : id = request[r].target
  OBVIOUS
<1>2. /\ request'[r].target = id /\ id # None /\ request'[r].location = id
      /\ request'[r].body = Kids(id)'
  BY <1>1 DEF IInv, Told, IsTold
<1>3. Finished(id) /\ (r \in Creators => id = Made(r))
  <2>1. CASE r \in Creators
    BY <1>1, <2>1 DEF IInv, Creates, IsTold
  <2>2. CASE r \in Readers
    BY <1>1, <1>2, <2>2 DEF IInv, Reads, IsTold
  <2>. QED
    BY <2>1, <2>2 DEF Requests
<1>4. PICK c \in Creators : c = Root(id)
  BY <1>3, FinishedParts
<1>5. r \in Creators => c = r /\ P!IsRoot(id, DueTree(c))
  BY <1>3, <1>4, MadeParts, MadeIsRoot
<1>6. request[c].target # None
  <2>1. CASE r \in Creators
    BY <1>1, <1>2, <1>5, <2>1
  <2>2. CASE r \in Readers
    BY <1>1, <1>2, <1>4, <2>2 DEF PInv, Visits, IsTold
  <2>. QED
    BY <2>1, <2>2 DEF Requests
<1>7. StoredTrees[c] = {DueTree(c)} /\ id \in DOMAIN DueTree(c) /\ DueTree(c)[id] = Kids(id)
  BY <1>3, <1>4, <1>6, StoredIsDue, PartOfTree DEF IsTold
<1>8. Answers[r] = {} /\ Answers'[r] = {<<id, Kids(id)>>}
  <2>1. request[r].location = None
    BY DEF IsTold, IInv, Told, Succeeded
  <2>2. Kids(id)' = Kids(id)
    BY <1>3, FinishedGrows
  <2>. QED
    BY <1>2, <2>1, <2>2 DEF Answers
<1>9. /\ \A d \in Creators : DueTrees'[d] = DueTrees[d] /\ StoredTrees'[d] = StoredTrees[d]
      /\ \A q \in Requests \ {r} : Answers'[q] = Answers[q]
  BY OneTurn, TreesKept DEF IsTold, Turn
<1>10. DueTrees' = DueTrees /\ StoredTrees' = StoredTrees
  BY <1>9, AreFunctions
<1>11. Answers' = [Answers EXCEPT ![r] = {<<id, DueTree(c)[id]>>}]
  BY <1>7, <1>8, <1>9, AreFunctions
<1>12. P!Answer(r, c)
  BY <1>5, <1>7, <1>8, <1>10, <1>11 DEF P!Answer
<1>. QED
  BY <1>4, <1>12 DEF P!PublicationNext, Requests

LEMMA Implements ==
  ASSUME IInv, PInv, IInv', PInv', Grows, [Next]_vars
  PROVE  [P!PublicationNext]_(P!publicationVars)
<1>. USE OrdersAssumption
<1>1. CASE Wiped' # Wiped
  <2>1. Wiped' /\ \A q \in Requests : Still(q)
    BY <1>1, NextTurn DEF Grows, Wiped
  <2>2. Answers' = Answers
    BY <2>1 DEF Still, Answers
  <2>. QED
    BY <2>1, <2>2 DEF P!PublicationNext, P!Lose, DueTrees, StoredTrees
<1>2. CASE Wiped' = Wiped /\ \A q \in Requests : Still(q)
  BY <1>2, StillKeeps DEF P!publicationVars
<1>3. ASSUME Wiped' = Wiped, NEW r \in Requests, Turn(r), Others(r)
      PROVE  [P!PublicationNext]_(P!publicationVars)
  <2>1. CASE Still(r)
    BY <1>3, <2>1, StillKeeps DEF P!publicationVars, Others
  <2>2. CASE Asks(r)
    <3>1. \A c \in Creators : DueTrees'[c] = DueTrees[c] /\ StoredTrees'[c] = StoredTrees[c]
      BY <1>3, <2>2, OneTurn DEF Asks, Requests
    <3>2. \A q \in Requests : Answers'[q] = Answers[q]
      <4>1. \A q \in Requests \ {r} : Answers'[q] = Answers[q]
        BY <1>3, OneTurn
      <4>2. Answers'[r] = Answers[r]
        BY <1>3, <2>2 DEF Asks, Answers
      <4>. QED
        BY <4>1, <4>2
    <3>3. DueTrees' = DueTrees /\ StoredTrees' = StoredTrees /\ Answers' = Answers
      BY <3>1, <3>2, AreFunctions
    <3>. QED
      BY <3>3 DEF P!publicationVars
  <2>. QED
    BY <1>3, <2>1, <2>2, AcceptsImplements, JoinsImplements, IsToldImplements DEF Turn
<1>. QED
  BY <1>1, <1>2, <1>3, NextTurn

(* Orders implements Publication: among any number of creations and readers, *)
(* failed calls and restarts, a creation is one step to its clients.         *)
THEOREM Atomicity == Spec => CreationIsAtomic
<1>1. Init => P!PublicationInit
  <2>1. ASSUME Init, NEW q \in Requests
        PROVE  request[q].account = None /\ request[q].target = None /\ request[q].location = None
    BY <2>1 DEF Init, Idle
  <2>. QED
    BY <2>1 DEF P!PublicationInit, DueTrees, StoredTrees, Answers, Requests
<1>2. IInv /\ PInv /\ IInv' /\ PInv' /\ [Next]_vars => [P!PublicationNext]_(P!publicationVars)
  BY NextInv, Implements
<1>3. Init => PInv
  BY PInvInit
<1>4. IInv /\ PInv /\ [Next]_vars => PInv'
  BY PInvNext
<1>. QED
  BY Invariance, <1>1, <1>2, <1>3, <1>4, PTL DEF Spec, CreationIsAtomic, P!PublicationSpec
=============================================================================
