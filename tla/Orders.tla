------------------------------- MODULE Orders -------------------------------
(* Orders (ACME v2), the authorizations of both versions with their          *)
(* challenges, and the handlers that read them back.                         *)
(*                                                                           *)
(* new-order and new-authz create a tree of records by many calls to the     *)
(* storage: every record is created with default values and then updated,    *)
(* the challenges of an authorization and the authorizations of an order     *)
(* side by side, and Promise.all joins them. Each of these creations is a    *)
(* job with steps of its own, which goes on when a sibling fails. Nothing    *)
(* undoes what was written.                                                  *)
(*                                                                           *)
(* The order of request r is known as r, its authorization for the name n    *)
(* as <<r, n>> and the challenge of type t for it as <<r, n, t>>.            *)
EXTENDS Naturals

CONSTANTS
  Accounts, Keys,
  KidOf,        \* the key an account was created with
  Creators,     \* the requests that may create
  Readers,      \* the requests that may read
  Names,        \* the names CSRs and identifiers hold
  DomainNames,  \* those that domainRegExp takes for domains
  Lower,        \* toLowerCase
  Csrs,         \* the CSRs clients send
  MaxFailures,  \* bound on the calls to MongoDB that fail
  MaxRestarts,  \* bound on the restarts of the server
  None          \* the value null or undefined

Requests == Creators \cup Readers

(* The names of the subject and of the extension request of a CSR, and       *)
(* whether forge throws on it.                                               *)
Csr == [common : SUBSET Names, alternative : SUBSET Names, malformed : BOOLEAN]

ChallengeTypes == {"http-01", "tls-sni-01"}

AuthorizationIds == Creators \X Names
ChallengeIds == Creators \X Names \X ChallengeTypes
Jobs == AuthorizationIds \cup ChallengeIds

(* domainRegExp looks for dots, which lower case leaves as they are, and the  *)
(* ids of records of different kinds are different.                          *)
ASSUME OrdersAssumption ==
  /\ KidOf \in [Accounts -> Keys]
  /\ DomainNames \subseteq Names /\ Lower \in [Names -> Names]
  /\ \A n \in Names :
       Lower[Lower[n]] = Lower[n] /\ (Lower[n] \in DomainNames <=> n \in DomainNames)
  /\ Csrs \subseteq Csr
  /\ Creators \cap (Readers \cup AuthorizationIds \cup ChallengeIds) = {}
  /\ MaxFailures \in Nat /\ MaxRestarts \in Nat
  /\ None \notin Accounts \cup Keys \cup Names \cup Creators
  /\ None \notin Csrs \cup AuthorizationIds \cup ChallengeIds

VARIABLES
  server,          \* the version and the storage engine it runs with
  accounts,        \* status of each account
  orders, authorizations, challenges,
  job,             \* the promise of each authorization and challenge
  request,         \* control state and local copies of each request
  failures, restarts

vars == <<server, accounts, orders, authorizations, challenges, job, request,
          failures, restarts>>

records == <<orders, authorizations, challenges>>
faults == <<failures, restarts>>

(* A record is not there, or has only default values, or is filled in.       *)
NoOrder == [stored |-> "none", account |-> None]
BareOrder == [stored |-> "bare", account |-> None]
NoAuthorization == [stored |-> "none", order |-> None, account |-> None]
BareAuthorization == [stored |-> "bare", order |-> None, account |-> None]
NoChallenge == [stored |-> "none", authorization |-> None]
BareChallenge == [stored |-> "bare", authorization |-> None]

Idle ==
  [pc |-> "idle", kind |-> None, key |-> None, wanted |-> None, target |-> None,
   account |-> None, order |-> None, authorization |-> None, late |-> FALSE,
   failed |-> FALSE, code |-> None, location |-> None, body |-> {}]

StoredAccounts == {a \in Accounts : accounts[a] # "none"}
StoredOrders == {r \in Creators : orders[r].stored # "none"}
StoredAuthorizations == {a \in AuthorizationIds : authorizations[a].stored # "none"}
StoredChallenges == {c \in ChallengeIds : challenges[c].stored # "none"}

AuthorizationOf(c) == <<c[1], c[2]>>
ChallengesOf(a) == {<<a[1], a[2], t>> : t \in ChallengeTypes}
AuthorizationsOf(r) == {<<r, n>> : n \in Names}

Over(r) == request[r].pc \in {"answered", "lost"}
Busy(r) == request[r].pc # "idle" /\ ~Over(r)

Goto(r, pc) == request' = [request EXCEPT ![r].pc = pc]

Respond(r, code, location, body) ==
  request' = [request EXCEPT ![r].pc = "answered", ![r].code = code,
                             ![r].location = location, ![r].body = body]

Refuse(r, code) == Respond(r, code, None, {})

(* parseCsr: common names in lower case, alternative names as they are.      *)
Domains(csr) ==
  {n \in {Lower[m] : m \in csr.common} \cup csr.alternative : n \in DomainNames}

(* What a creation is asked for: the domains of a CSR, or one identifier.    *)
Wanted(r) ==
  IF server.version = "v2" THEN Domains(request[r].wanted) ELSE {request[r].wanted}

(* The ids a client knows are those in the answers it was given.             *)
Known ==
  (UNION {{request[r].location} \cup request[r].body : r \in Requests}) \ {None}

(* The account whose request created what an id names.                       *)
Owner(id) ==
  request[IF id \in Creators THEN id ELSE id[1]].account

-----------------------------------------------------------------------------
(* POST /new-order with a CSR or, in v1, /new-authz with an identifier,      *)
(* signed with k or not at all (None).                                       *)
ArriveNew(r, k, wanted) ==
  /\ request[r].pc = "idle"
  /\ request' = [request EXCEPT ![r] = [Idle EXCEPT
       !.pc = "find", !.kind = "new", !.key = k, !.wanted = wanted,
       !.late = \A a \in Accounts : KidOf[a] = k => accounts[a] # "valid"]]
  /\ UNCHANGED <<server, accounts, records, job, faults>>

(* Mutant of FindAccount: the account's status is not looked at.             *)
AnyFindAccount(r) ==
  LET found == {a \in StoredAccounts : KidOf[a] = request[r].key} IN
  /\ request[r].pc = "find"
  /\ \/ request[r].key = None /\ Refuse(r, 500) /\ UNCHANGED job
     \/ request[r].key # None /\ found = {} /\ Refuse(r, 404) /\ UNCHANGED job
     \/ \E a \in found :
          \/ /\ request[r].wanted = None
             /\ Refuse(r, 400) /\ UNCHANGED job
          \/ /\ request[r].wanted # None /\ server.version = "v2"
             /\ request' = [request EXCEPT ![r].pc = "create", ![r].account = a]
             /\ UNCHANGED job
          \/ /\ server.version = "v1"
             /\ request' = [request EXCEPT ![r].pc = "join", ![r].account = a]
             /\ job' = [job EXCEPT ![<<r, request[r].wanted>>] = "create"]
  /\ UNCHANGED <<server, accounts, records, faults>>

(* The account is looked for by the key, without which the handler throws.   *)
(* new-order refuses an empty CSR, new-authz starts its authorization.       *)
FindAccount(r) ==
  LET found == {a \in StoredAccounts : KidOf[a] = request[r].key} IN
  /\ request[r].pc = "find"
  /\ \/ request[r].key = None /\ Refuse(r, 500) /\ UNCHANGED job
     \/ request[r].key # None /\ found = {} /\ Refuse(r, 404) /\ UNCHANGED job
     \/ \E a \in found :
          \/ accounts[a] = "deactivated" /\ Refuse(r, 403) /\ UNCHANGED job
          \/ /\ accounts[a] = "valid" /\ request[r].wanted = None
             /\ Refuse(r, 400) /\ UNCHANGED job
          \/ /\ accounts[a] = "valid" /\ request[r].wanted # None /\ server.version = "v2"
             /\ request' = [request EXCEPT ![r].pc = "create", ![r].account = a]
             /\ UNCHANGED job
          \/ /\ accounts[a] = "valid" /\ server.version = "v1"
             /\ request' = [request EXCEPT ![r].pc = "join", ![r].account = a]
             /\ job' = [job EXCEPT ![<<r, request[r].wanted>>] = "create"]
  /\ UNCHANGED <<server, accounts, records, faults>>

(* OrderService.create: a record of default values, ...                      *)
CreateOrder(r) ==
  /\ request[r].pc = "create"
  /\ orders' = [orders EXCEPT ![r] = BareOrder]
  /\ Goto(r, "fill")
  /\ UNCHANGED <<server, accounts, authorizations, challenges, job, faults>>

(* Mutant of FilledOrder: the stored record is not spread into the new one.  *)
UnspreadFilledOrder(r) == [account |-> request[r].account]

FilledOrder(r) == [stored |-> "filled", account |-> request[r].account]

(* ... its attributes, and one authorization for each domain of the CSR. If  *)
(* the CSR does not parse, the order stays as it is.                         *)
FillOrder(r) ==
  /\ request[r].pc = "fill"
  /\ orders' = [orders EXCEPT ![r] = FilledOrder(r)]
  /\ \/ request[r].wanted.malformed /\ Refuse(r, 500) /\ UNCHANGED job
     \/ /\ ~request[r].wanted.malformed
        /\ Goto(r, "join")
        /\ job' = [a \in Jobs |->
                     IF a \in {<<r, n>> : n \in Wanted(r)} THEN "create" ELSE job[a]]
  /\ UNCHANGED <<server, accounts, authorizations, challenges, faults>>

-----------------------------------------------------------------------------
(* AuthorizationService.create, and ChallengeService.create for two types.   *)

(* Mutant of FilledAuthorization: v1 has no use for the account.             *)
OrderFilledAuthorization(a) ==
  [stored |-> "filled",
   order |-> IF server.version = "v2" THEN a[1] ELSE None,
   account |-> None]

FilledAuthorization(a) ==
  [stored |-> "filled",
   order |-> IF server.version = "v2" THEN a[1] ELSE None,
   account |-> IF server.version = "v1" THEN request[a[1]].account ELSE None]

FilledChallenge(c) == [stored |-> "filled", authorization |-> AuthorizationOf(c)]

(* Mutant of CreateAuthorization: the challenges do not wait for the update. *)
EagerCreateAuthorization(a) ==
  /\ job[a] = "create"
  /\ authorizations' = [authorizations EXCEPT ![a] = BareAuthorization]
  /\ job' = [j \in Jobs |->
               IF j = a THEN "update" ELSE IF j \in ChallengesOf(a) THEN "create" ELSE job[j]]
  /\ UNCHANGED <<server, accounts, orders, challenges, request, faults>>

CreateAuthorization(a) ==
  /\ job[a] = "create"
  /\ authorizations' = [authorizations EXCEPT ![a] = BareAuthorization]
  /\ job' = [job EXCEPT ![a] = "update"]
  /\ UNCHANGED <<server, accounts, orders, challenges, request, faults>>

(* Once its attributes are written, its challenges are started.              *)
UpdateAuthorization(a) ==
  /\ job[a] = "update"
  /\ authorizations' = [authorizations EXCEPT ![a] = FilledAuthorization(a)]
  /\ job' = [j \in Jobs |->
               IF j = a THEN "wait" ELSE IF j \in ChallengesOf(a) THEN "create" ELSE job[j]]
  /\ UNCHANGED <<server, accounts, orders, challenges, request, faults>>

CreateChallenge(c) ==
  /\ job[c] = "create"
  /\ challenges' = [challenges EXCEPT ![c] = BareChallenge]
  /\ job' = [job EXCEPT ![c] = "update"]
  /\ UNCHANGED <<server, accounts, orders, authorizations, request, faults>>

UpdateChallenge(c) ==
  /\ job[c] = "update"
  /\ challenges' = [challenges EXCEPT ![c] = FilledChallenge(c)]
  /\ job' = [job EXCEPT ![c] = "done"]
  /\ UNCHANGED <<server, accounts, orders, authorizations, request, faults>>

(* Mutant of Created: the promises of the challenges are not returned.       *)
EarlyCreated(a) == job[a] = "wait"

(* Promise.all: both challenges are there, ...                               *)
Created(a) == job[a] = "wait" /\ \A c \in ChallengesOf(a) : job[c] = "done"

(* Mutant of Failed: what becomes of the challenges is not passed on.        *)
OwnFailed(a) == job[a] = "failed"

(* ... or one of the calls has failed.                                       *)
Failed(a) == job[a] = "failed" \/ \E c \in ChallengesOf(a) : job[c] = "failed"

(* Mutant of Join: Promise.race, for which one authorization is enough.      *)
RacingJoin(r) ==
  LET started == {<<r, n>> : n \in Wanted(r)} IN
  /\ request[r].pc = "join"
  /\ \/ (\E a \in started : Failed(a)) /\ Refuse(r, 500)
     \/ /\ \E a \in started : Created(a)
        /\ request' = [request EXCEPT ![r].pc = "list",
             ![r].target = IF server.version = "v2" THEN r ELSE <<r, request[r].wanted>>]
  /\ UNCHANGED <<server, accounts, records, job, faults>>

(* The order waits for all its authorizations, of which there may be none.   *)
Join(r) ==
  LET started == {<<r, n>> : n \in Wanted(r)} IN
  /\ request[r].pc = "join"
  /\ \/ (\E a \in started : Failed(a)) /\ Refuse(r, 500)
     \/ /\ \A a \in started : Created(a)
        /\ request' = [request EXCEPT ![r].pc = "list",
             ![r].target = IF server.version = "v2" THEN r ELSE <<r, request[r].wanted>>]
  /\ UNCHANGED <<server, accounts, records, job, faults>>

-----------------------------------------------------------------------------
(* The handlers that read.                                                   *)

(* Mutant of Children: all that is stored is listed.                         *)
AllChildren(id) ==
  IF id \in Creators
  THEN {a \in AuthorizationIds : authorizations[a].stored = "filled"}
  ELSE {c \in ChallengeIds : challenges[c].stored = "filled"}

(* filter: the authorizations of an order, the challenges of an              *)
(* authorization.                                                            *)
Children(id) ==
  IF id \in Creators
  THEN {a \in AuthorizationIds : authorizations[a].order = id}
  ELSE {c \in ChallengeIds : challenges[c].authorization = id}

(* GET of an order, an authorization or a challenge that the client knows,   *)
(* or of an id that nothing has (None).                                      *)
ArriveGet(r, kind, id) ==
  /\ request[r].pc = "idle"
  /\ request' = [request EXCEPT ![r] = [Idle EXCEPT
       !.pc = kind, !.kind = kind, !.target = id,
       !.order = IF kind = "order" THEN id ELSE None,
       !.authorization = IF kind = "authorization" THEN id ELSE None,
       !.late = id # None /\ accounts[Owner(id)] # "valid"]]
  /\ UNCHANGED <<server, accounts, records, job, faults>>

(* GET of the URL an account has for its orders. The handler takes the id    *)
(* from a parameter that the route does not have.                            *)
ArriveGetOrders(r, a) ==
  /\ request[r].pc = "idle"
  /\ request' = [request EXCEPT ![r] = [Idle EXCEPT
       !.pc = "owner", !.kind = "orders", !.target = a, !.late = accounts[a] # "valid"]]
  /\ UNCHANGED <<server, accounts, records, job, faults>>

GetChallenge(r) ==
  LET id == request[r].target IN
  /\ request[r].pc = "challenge"
  /\ \/ id \notin StoredChallenges /\ Refuse(r, 404)
     \/ /\ id \in StoredChallenges
        /\ request' = [request EXCEPT ![r].pc = "authorization",
                         ![r].authorization = challenges[id].authorization]
  /\ UNCHANGED <<server, accounts, records, job, faults>>

(* An authorization belongs to an order, or to an account, or to neither.    *)
GetAuthorization(r) ==
  LET id == request[r].authorization IN
  /\ request[r].pc = "authorization"
  /\ \/ id \notin StoredAuthorizations /\ Refuse(r, 404)
     \/ /\ id \in StoredAuthorizations
        /\ LET authorization == authorizations[id] IN
           \/ /\ authorization.order # None
              /\ request' = [request EXCEPT ![r].pc = "order", ![r].order = authorization.order]
           \/ /\ authorization.order = None /\ authorization.account # None
              /\ request' = [request EXCEPT ![r].pc = "owner",
                               ![r].account = authorization.account]
           \/ /\ authorization.order = None /\ authorization.account = None
              /\ Refuse(r, 422)
  /\ UNCHANGED <<server, accounts, records, job, faults>>

GetOrder(r) ==
  LET id == request[r].order IN
  /\ request[r].pc = "order"
  /\ \/ id \notin StoredOrders /\ Refuse(r, 404)
     \/ /\ id \in StoredOrders
        /\ request' = [request EXCEPT ![r].pc = "owner", ![r].account = orders[id].account]
  /\ UNCHANGED <<server, accounts, records, job, faults>>

(* Nothing is left to read of a challenge, but the proxy of v1 gets it again *)
(* for its attribute processing.                                             *)
GetOwner(r) ==
  LET id == request[r].account IN
  /\ request[r].pc = "owner"
  /\ \/ id \notin StoredAccounts /\ Refuse(r, 404)
     \/ id \in StoredAccounts /\ accounts[id] = "deactivated" /\ Refuse(r, 403)
     \/ /\ id \in StoredAccounts /\ accounts[id] = "valid"
        /\ IF request[r].kind # "challenge" THEN Goto(r, "list")
           ELSE IF server.version = "v1" THEN Goto(r, "again")
           ELSE Respond(r, 200, request[r].target, {})
  /\ UNCHANGED <<server, accounts, records, job, faults>>

(* All is well: what was asked for is answered with what belongs to it.      *)
List(r) ==
  /\ request[r].pc = "list"
  /\ Respond(r, IF request[r].kind = "new" THEN 201 ELSE 200,
             request[r].target, Children(request[r].target))
  /\ UNCHANGED <<server, accounts, records, job, faults>>

GetAgain(r) ==
  /\ request[r].pc = "again"
  /\ request[r].target \in StoredChallenges
  /\ Respond(r, 200, request[r].target, {})
  /\ UNCHANGED <<server, accounts, records, job, faults>>

RequestStep(r) ==
  \/ FindAccount(r) \/ CreateOrder(r) \/ FillOrder(r) \/ Join(r)
  \/ GetChallenge(r) \/ GetAuthorization(r) \/ GetOrder(r) \/ GetOwner(r)
  \/ List(r) \/ GetAgain(r)

AuthorizationStep(a) == CreateAuthorization(a) \/ UpdateAuthorization(a)
ChallengeStep(c) == CreateChallenge(c) \/ UpdateChallenge(c)

JobsOf(r) == {j \in Jobs : j[1] = r}

JobStep(r) ==
  \/ \E a \in AuthorizationIds \cap JobsOf(r) : AuthorizationStep(a)
  \/ \E c \in ChallengeIds \cap JobsOf(r) : ChallengeStep(c)

-----------------------------------------------------------------------------
(* Faults. A call to MongoDB fails when its connection does, whether or not  *)
(* the database did what it was asked for. A failed get is answered as if    *)
(* nothing were there.                                                       *)
Getting == {"challenge", "authorization", "order", "owner"}

RequestCallFails(r) ==
  /\ server.engine = "mongodb" /\ failures < MaxFailures
  /\ request[r].pc \in Getting \cup {"find", "create", "fill", "list", "again"}
  /\ \/ UNCHANGED orders
     \/ request[r].pc = "create" /\ orders' = [orders EXCEPT ![r] = BareOrder]
     \/ request[r].pc = "fill" /\ orders' = [orders EXCEPT ![r] = FilledOrder(r)]
  /\ request' = [request EXCEPT ![r].pc = "answered", ![r].failed = TRUE,
                   ![r].code = IF request[r].pc \in Getting THEN 404 ELSE 500]
  /\ failures' = failures + 1
  /\ UNCHANGED <<server, accounts, authorizations, challenges, job, restarts>>

AuthorizationCallFails(a) ==
  /\ server.engine = "mongodb" /\ failures < MaxFailures
  /\ job[a] \in {"create", "update"}
  /\ \/ UNCHANGED authorizations
     \/ /\ job[a] = "create"
        /\ authorizations' = [authorizations EXCEPT ![a] = BareAuthorization]
     \/ /\ job[a] = "update"
        /\ authorizations' = [authorizations EXCEPT ![a] = FilledAuthorization(a)]
  /\ job' = [job EXCEPT ![a] = "failed"]
  /\ failures' = failures + 1
  /\ UNCHANGED <<server, accounts, orders, challenges, request, restarts>>

ChallengeCallFails(c) ==
  /\ server.engine = "mongodb" /\ failures < MaxFailures
  /\ job[c] \in {"create", "update"}
  /\ \/ UNCHANGED challenges
     \/ job[c] = "create" /\ challenges' = [challenges EXCEPT ![c] = BareChallenge]
     \/ job[c] = "update" /\ challenges' = [challenges EXCEPT ![c] = FilledChallenge(c)]
  /\ job' = [job EXCEPT ![c] = "failed"]
  /\ failures' = failures + 1
  /\ UNCHANGED <<server, accounts, orders, authorizations, request, restarts>>

(* The server stops and starts again. The internal database is lost.         *)
Restart ==
  /\ restarts < MaxRestarts
  /\ restarts' = restarts + 1
  /\ request' = [r \in Requests |->
                   IF Busy(r) THEN [request[r] EXCEPT !.pc = "lost"] ELSE request[r]]
  /\ job' = [j \in Jobs |->
               IF job[j] \in {"create", "update", "wait"} THEN "lost" ELSE job[j]]
  /\ \/ /\ server.engine = "internaldb"
        /\ accounts' = [a \in Accounts |-> "none"]
        /\ orders' = [r \in Creators |-> NoOrder]
        /\ authorizations' = [a \in AuthorizationIds |-> NoAuthorization]
        /\ challenges' = [c \in ChallengeIds |-> NoChallenge]
     \/ /\ server.engine = "mongodb"
        /\ UNCHANGED <<accounts, records>>
  /\ UNCHANGED <<server, failures>>

(* The owner of an account deactivates it: see Accounts.                     *)
Deactivate(a) ==
  /\ accounts[a] = "valid"
  /\ accounts' = [accounts EXCEPT ![a] = "deactivated"]
  /\ UNCHANGED <<server, records, job, request, faults>>

-----------------------------------------------------------------------------
Init ==
  /\ server \in [version : {"v1", "v2"}, engine : {"internaldb", "mongodb"}]
  /\ accounts = [a \in Accounts |-> "valid"]
  /\ orders = [r \in Creators |-> NoOrder]
  /\ authorizations = [a \in AuthorizationIds |-> NoAuthorization]
  /\ challenges = [c \in ChallengeIds |-> NoChallenge]
  /\ job = [j \in Jobs |-> "none"]
  /\ request = [r \in Requests |-> Idle]
  /\ failures = 0 /\ restarts = 0

New(r) ==
  \E k \in Keys \cup {None} :
    \E wanted \in IF server.version = "v2" THEN Csrs \cup {None} ELSE Names :
      ArriveNew(r, k, wanted)

Get(r) ==
  \/ server.version = "v2" /\ \E id \in (Known \cap Creators) \cup {None} : ArriveGet(r, "order", id)
  \/ server.version = "v2" /\ \E a \in Accounts : ArriveGetOrders(r, a)
  \/ \E id \in (Known \cap AuthorizationIds) \cup {None} : ArriveGet(r, "authorization", id)
  \/ \E id \in (Known \cap ChallengeIds) \cup {None} : ArriveGet(r, "challenge", id)

Next ==
  \/ \E r \in Creators : New(r)
  \/ \E r \in Readers : Get(r)
  \/ \E r \in Requests : RequestStep(r) \/ RequestCallFails(r)
  \/ \E r \in Creators : JobStep(r)
  \/ \E a \in AuthorizationIds : AuthorizationCallFails(a)
  \/ \E c \in ChallengeIds : ChallengeCallFails(c)
  \/ \E a \in Accounts : Deactivate(a)
  \/ Restart

Spec == Init /\ [][Next]_vars

(* The server takes the steps it can; clients and faults need not come.      *)
FairSpec ==
  /\ Spec
  /\ \A r \in Requests : WF_vars(RequestStep(r))
  /\ \A r \in Creators : WF_vars(JobStep(r))

-----------------------------------------------------------------------------
(* Every record holds ids of the right kind, and a request is where its kind *)
(* can be.                                                                   *)
Kinds == {"new", "order", "orders", "authorization", "challenge"}
Pcs == {"idle", "find", "create", "fill", "join", "list", "again", "answered", "lost"}
       \cup Getting
Codes == {200, 201, 400, 403, 404, 422, 500}
Stored == {"none", "bare", "filled"}
Ids == Creators \cup AuthorizationIds \cup ChallengeIds

RequestRecord ==
  [pc : Pcs, kind : Kinds \cup {None}, key : Keys \cup {None},
   wanted : Csrs \cup Names \cup {None},
   target : Ids \cup Accounts \cup {None},
   account : Accounts \cup {None}, order : Creators \cup {None},
   authorization : AuthorizationIds \cup {None}, late : BOOLEAN, failed : BOOLEAN,
   code : Codes \cup {None}, location : Ids \cup {None}, body : SUBSET Ids]

TypeOK ==
  /\ server \in [version : {"v1", "v2"}, engine : {"internaldb", "mongodb"}]
  /\ accounts \in [Accounts -> {"none", "valid", "deactivated"}]
  /\ orders \in [Creators -> [stored : Stored, account : Accounts \cup {None}]]
  /\ authorizations \in [AuthorizationIds ->
       [stored : Stored, order : Creators \cup {None}, account : Accounts \cup {None}]]
  /\ challenges \in [ChallengeIds ->
       [stored : Stored, authorization : AuthorizationIds \cup {None}]]
  /\ job \in [Jobs ->
       {"none", "create", "update", "wait", "done", "failed", "lost"}]
  /\ request \in [Requests -> RequestRecord]
  /\ failures \in 0..MaxFailures /\ restarts \in 0..MaxRestarts

(* The records are lost.                                                     *)
Wiped == server.engine = "internaldb" /\ restarts > 0

Succeeded(r) == request[r].pc = "answered" /\ request[r].code \in {200, 201}

WholeAuthorization(a, listed) ==
  /\ listed = ChallengesOf(a)
  /\ ~Wiped => \A c \in listed : challenges[c] = FilledChallenge(c)

(* The names of the CSR that are domains, whatever their case.               *)
Asked(csr) == {Lower[n] : n \in csr.common \cup csr.alternative} \cap DomainNames

WholeOrder(q, listed) ==
  /\ listed \subseteq AuthorizationsOf(q)
  /\ {Lower[a[2]] : a \in listed} = Asked(request[q].wanted)
  /\ ~Wiped => \A a \in listed :
       authorizations[a].order = q /\ WholeAuthorization(a, ChallengesOf(a))

(* An answer about an order lists an authorization for every domain of its   *)
(* CSR, each with its two challenges, and one about an authorization its two *)
(* challenges: what Promise.all joins is never seen in part, neither in the  *)
(* answer that creates it nor later, whatever was created side by side, left *)
(* by a request that failed or cut short by a restart.                       *)
AnswersAreWhole ==
  \A r \in Requests :
    Succeeded(r) =>
      CASE request[r].location \in Creators ->
             WholeOrder(request[r].location, request[r].body)
        [] request[r].location \in AuthorizationIds ->
             WholeAuthorization(request[r].location, request[r].body)
        [] OTHER -> request[r].body = {}

(* Whatever creation is cut short, by a failed call, a CSR that does not     *)
(* parse or a restart, the records it leaves can be followed upwards: what a *)
(* challenge, an authorization or an order refers to is stored and filled.   *)
ParentsFirst ==
  /\ \A c \in ChallengeIds :
       challenges[c].stored = "filled" =>
         authorizations[challenges[c].authorization].stored = "filled"
  /\ \A a \in AuthorizationIds :
       authorizations[a].stored = "filled" =>
         IF server.version = "v2"
         THEN /\ authorizations[a].account = None
              /\ orders[authorizations[a].order].stored = "filled"
         ELSE /\ authorizations[a].order = None
              /\ accounts[authorizations[a].account] # "none"
  /\ \A r \in Creators :
       orders[r].stored = "filled" => accounts[orders[r].account] # "none"

(* An id that an answer gave can be read: unless its call failed or the      *)
(* records are lost, a GET of it is only refused for a deactivated account.  *)
ListedIsReadable ==
  \A r \in Readers :
    (/\ request[r].pc = "answered" /\ ~request[r].failed /\ ~Wiped
     /\ request[r].kind # "orders" /\ request[r].target # None) =>
      \/ request[r].code = 200
      \/ request[r].code = 403 /\ accounts[Owner(request[r].target)] = "deactivated"

(* A request that arrives when the account it needs is deactivated (or gone) *)
(* creates nothing and is told nothing.                                      *)
LateIsRefused ==
  \A r \in Requests :
    request[r].late =>
      /\ ~Succeeded(r)
      /\ r \in Creators =>
           /\ orders[r].stored = "none"
           /\ \A a \in AuthorizationsOf(r) : job[a] = "none" /\ authorizations[a].stored = "none"

(* What an answer has shown stays as it was shown: no job still runs behind  *)
(* it, and only the loss of the internal database changes it.                *)
Shown(id) ==
  \E r \in Requests : Succeeded(r) /\ id \in {request[r].location} \cup request[r].body

ShownIsKept ==
  [][~(restarts' > restarts) =>
       /\ \A r \in Creators :
            Shown(r) => orders'[r] = orders[r] /\ Children(r)' = Children(r)
       /\ \A a \in AuthorizationIds :
            Shown(a) => authorizations'[a] = authorizations[a] /\ Children(a)' = Children(a)]_vars

(* No request waits for what cannot come. Promise.all has a failure to pass  *)
(* on or everything it waits for, or else one of the calls it has started is *)
(* still to be answered; and the record that v1 reads again, for which it    *)
(* has no answer if it is gone, is there (order.service.js:53,               *)
(* authorization.service.js:47, get-challenge-handler.proxy.js:22).          *)
NeverStuck ==
  \A r \in Requests :
    /\ request[r].pc = "join" =>
         \/ \E n \in Wanted(r) : Failed(<<r, n>>)
         \/ \A n \in Wanted(r) : Created(<<r, n>>)
         \/ \E j \in JobsOf(r) : job[j] \in {"create", "update"}
    /\ request[r].pc = "again" => request[r].target \in StoredChallenges

(* What is under an id that is created: an authorization for every domain of *)
(* an order, two challenges under an authorization.                          *)
Kids(id) ==
  IF id \in Creators THEN {<<id, n>> : n \in Wanted(id)}
  ELSE IF id \in AuthorizationIds THEN ChallengesOf(id) ELSE {}

(* The tree that the creation r is to make, and the one that is stored under *)
(* the record that its promises have resolved to.                            *)
DueTree(r) ==
  LET started == {<<r, n>> : n \in Wanted(r)}
      orderIds == IF server.version = "v2" THEN {r} ELSE {}
  IN [id \in orderIds \cup started \cup UNION {ChallengesOf(a) : a \in started} |-> Kids(id)]

StoredTree(r) ==
  LET root == request[r].target
      below == Children(root)
  IN [id \in {root} \cup below \cup UNION {Children(a) : a \in below} |-> Children(id)]

DueTrees ==
  [r \in Creators |-> IF request[r].account = None \/ Wiped THEN {} ELSE {DueTree(r)}]
StoredTrees ==
  [r \in Creators |-> IF request[r].target = None \/ Wiped THEN {} ELSE {StoredTree(r)}]
Answers ==
  [q \in Requests |-> IF request[q].location = None THEN {}
                      ELSE {<<request[q].location, request[q].body>>}]

P == INSTANCE Publication WITH due <- DueTrees, tree <- StoredTrees, told <- Answers

(* The many calls of a creation, among those of others and whatever fails,   *)
(* are to its clients one step: it makes the tree it was asked for when its  *)
(* promises have resolved, and no answer, to it or to a later GET, shows     *)
(* anything else (order.service.js:53, new-order.handler.js:56).             *)
CreationIsAtomic == P!PublicationSpec

(* Every request is answered, unless the server restarts: the joins do not   *)
(* wait for a creation that has failed.                                      *)
AnsweredEventually ==
  \A r \in Requests : request[r].pc # "idle" ~> Over(r)

(* A creation that is accepted ends in a 201 if its CSR parses and neither a *)
(* failure nor a restart is in its way, even one with nothing to wait for.   *)
AcceptedIsCreated ==
  \A r \in Creators :
    (request[r].pc = "join" \/ (request[r].pc = "create" /\ ~request[r].wanted.malformed)) ~>
      (request[r].code = 201 \/ failures > 0 \/ restarts > 0)

(* The URL that an account is given for its orders lists them, as long as    *)
(* the account is valid (new-account.handler.js hands the URL out, and       *)
(* new-account-handler.spec.js:102 expects it). It is always answered 404.   *)
OrdersListed ==
  \A r \in Readers :
    (/\ request[r].pc = "answered" /\ request[r].kind = "orders" /\ ~request[r].failed
     /\ accounts[request[r].target] = "valid") => request[r].code = 200
=============================================================================
