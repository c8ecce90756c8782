------------------------ MODULE ChallengeValidation ------------------------
(* The core of the server: a client answers a challenge, the server checks   *)
(* the answer, stores it and starts a worker that probes the peer, and the   *)
(* worker's verdict makes the authorization valid.                           *)
(*                                                                           *)
(* A request is a chain of promises: every read or write of a collection is  *)
(* a step of its own, so the steps of other requests and of the workers fall *)
(* between them, and what a request read may be stale when it is used.       *)
(* Worker r is the one request r started.                                    *)
(*                                                                           *)
(* Engine "internaldb" keeps the records in the server's memory and runs the *)
(* workers in its process; "mongodb" keeps them outside and runs the workers *)
(* in child processes of a worker farm. Version is the ACME flavour that     *)
(* was built: v1 passes the answer through a proxy, v2 does not.             *)
EXTENDS Naturals, FiniteSets

CONSTANTS
  Accounts, Authorizations, Challenges, Requests,
  Keys,             \* the keys clients sign with, each known by its thumbprint
  Kids,             \* what a key may be called
  Kid,              \* what each key is called: its client may name it as it likes
  KidOf,            \* the kid of the key an account was created with
  AccountOf,        \* the account of an authorization (through its order in v2)
  AuthorizationOf,  \* the authorization a challenge was created for
  TypeOf,           \* the type of a challenge
  Bodies, Posts,    \* what clients send: a body, for a challenge, signed by a key
  Served,           \* what the peer of a challenge may serve when it is probed
  Unreliable,       \* the challenges whose peer may also refuse the connection
  Engine, Version,
  MaxFaults,        \* bound on the deaths, restarts and failed calls together
  None              \* the value null or undefined

ChallengeTypes == {"http-01", "tls-sni-01"}

(* What a client proves the control of its peer with: token and thumbprint,  *)
(* of which the second belongs to one key, whatever that key is called.      *)
KeyAuthorization(c, k) == <<c, k>>

ASSUME RecordsAssumption ==
  /\ AccountOf \in [Authorizations -> Accounts]
  /\ AuthorizationOf \in [Challenges -> Authorizations]
  /\ Kid \in [Keys -> Kids] /\ KidOf \in [Accounts -> Kids]
  /\ TypeOf \in [Challenges -> ChallengeTypes]
  /\ Posts \subseteq [challenge : Challenges \cup {None}, key : Keys \cup {None},
                          body : Bodies]
  /\ None \notin Challenges \cup Keys \cup ChallengeTypes \cup (Challenges \X Keys)

ASSUME RunAssumption ==
  /\ Engine \in {"internaldb", "mongodb"}
  /\ Version \in {"v1", "v2"}
  /\ DOMAIN Served = Challenges /\ Unreliable \subseteq Challenges
  /\ MaxFaults \in Nat
  /\ None \notin {200, 202, 401, 403, 404, 412, 500}
  /\ None \notin {"pending", "valid", "invalid", "processing"}

VARIABLES
  accounts,        \* status of each account
  authorizations,  \* status of each authorization
  challenges,      \* the mutable attributes of each challenge
  request,         \* control state and local copies of each request
  worker,          \* control state and local copies of each worker
  server,          \* "up", or "down" once the process has died for good
  deaths, restarts, failures,  \* of farm children, the server, calls to MongoDB
  answered,        \* history: the keys each challenge was answered with
  proved,          \* history: those whose answer its peer then served
  late             \* history: the requests that arrived when it was too late

vars == <<accounts, authorizations, challenges, request, worker, server,
          deaths, restarts, failures, answered, proved, late>>

store == <<accounts, authorizations, challenges>>
faults == <<server, deaths, restarts, failures>>
history == <<answered, proved, late>>

FaultsLeft == deaths + restarts + failures < MaxFaults

Owner(c) == AccountOf[AuthorizationOf[c]]

(* The keys that may answer a challenge: those called like its account's.    *)
OwnersKeys(c) == {k \in Keys : Kid[k] = KidOf[Owner(c)]}

-----------------------------------------------------------------------------
(* The challenges collection behind ChallengeService.                        *)

(* The attributes a stored challenge has.                                    *)
ChallengeAttributes ==
  {"authorizationId", "type", "status", "validated", "token", "error",
   "keyAuthorization", "processing"}

(* The attributes ChallengeService.update passes on; it drops the others.    *)
UpdatableAttributes == {"status", "validated", "error", "keyAuthorization"}

NewChallenge ==
  [status |-> "pending", keyAuthorization |-> None, processing |-> FALSE]

(* ChallengeService.update: an attribute of the payload replaces the stored  *)
(* one when both the service and the collection let it through.              *)
ServiceUpdate(record, payload) ==
  [a \in DOMAIN record |->
     IF a \in DOMAIN payload \cap UpdatableAttributes \cap ChallengeAttributes
     THEN payload[a] ELSE record[a]]

(* No stored challenge has an order, whichever the version.                  *)
AcceptPayload(q) ==
  IF "order" \notin ChallengeAttributes
  THEN [processing |-> TRUE, status |-> "pending",
        keyAuthorization |-> KeyAuthorization(q.challenge, q.key)]
  ELSE [status |-> "processing",
        keyAuthorization |-> KeyAuthorization(q.challenge, q.key)]

-----------------------------------------------------------------------------
(* Requests: POST /authz/:authorization_id/:challenge_id.                    *)

Idle ==
  [pc |-> "idle", challenge |-> None, key |-> None, body |-> None,
   challengeStatus |-> None, authorizationStatus |-> None, answer |-> None]

Busy(r) == request[r].pc \notin {"idle", "answered", "lost"}

Goto(r, pc) == request' = [request EXCEPT ![r].pc = pc]

Answer(r, code) ==
  request' = [request EXCEPT ![r] = [Idle EXCEPT !.pc = "answered", !.answer = code]]

(* It is too late to answer c: its authorization is valid already, or its    *)
(* account has been deactivated.                                             *)
TooLate(c) ==
  /\ c \in Challenges
  /\ \/ authorizations[AuthorizationOf[c]] = "valid"
     \/ accounts[Owner(c)] = "deactivated"

(* A request arrives, signed by key k or not signed at all (None), for       *)
(* challenge c or for an id no challenge has (None).                         *)
Arrive(r, c, k, b) ==
  /\ server = "up"
  /\ request[r].pc = "idle"
  /\ request' = [request EXCEPT ![r] =
       [Idle EXCEPT !.pc = "challenge", !.challenge = c, !.key = k, !.body = b]]
  /\ late' = IF TooLate(c) THEN late \cup {r} ELSE late
  /\ UNCHANGED <<store, worker, faults, answered, proved>>

ReadChallenge(r) ==
  LET c == request[r].challenge IN
  /\ server = "up"
  /\ request[r].pc = "challenge"
  /\ \/ c \notin Challenges /\ Answer(r, 404)
     \/ /\ c \in Challenges
        /\ request' = [request EXCEPT ![r].pc = "authorization",
                                      ![r].challengeStatus = challenges[c].status]
  /\ UNCHANGED <<store, worker, faults, history>>

(* Reads the authorization; in v2 also its order, of which nothing changes.  *)
ReadAuthorization(r) ==
  /\ server = "up"
  /\ request[r].pc = "authorization"
  /\ request' = [request EXCEPT ![r].pc = "account",
       ![r].authorizationStatus = authorizations[AuthorizationOf[request[r].challenge]]]
  /\ UNCHANGED <<store, worker, faults, history>>

(* Mutant of Refusal: the owner is not compared with the key.                *)
AnyoneRefusal(q) ==
  IF accounts[Owner(q.challenge)] = "deactivated" THEN 403
  ELSE IF q.challengeStatus # "pending" \/ q.authorizationStatus # "pending" THEN 412
  ELSE IF q.key = None THEN 500
  ELSE None

(* Mutant of Refusal: only the challenge has to be pending.                  *)
ChallengeOnlyRefusal(q) ==
  IF q.key # None /\ q.key \notin OwnersKeys(q.challenge) THEN 401
  ELSE IF accounts[Owner(q.challenge)] = "deactivated" THEN 403
  ELSE IF q.challengeStatus # "pending" THEN 412
  ELSE IF q.key = None THEN 500
  ELSE None

(* The code the request is refused with once the account is read, or None.   *)
(* All that is compared of a key is its kid. Without a key nothing is, and   *)
(* computing the thumbprint throws. No challenge is of an unsupported type   *)
(* and no order ever leaves "pending", so those two refusals cannot be       *)
(* reached.                                                                  *)
Refusal(q) ==
  IF q.key # None /\ q.key \notin OwnersKeys(q.challenge) THEN 401
  ELSE IF accounts[Owner(q.challenge)] = "deactivated" THEN 403
  ELSE IF q.challengeStatus # "pending" \/ q.authorizationStatus # "pending" THEN 412
  ELSE IF q.key = None THEN 500
  ELSE None

ReadAccount(r) ==
  /\ server = "up"
  /\ request[r].pc = "account"
  /\ \/ Refusal(request[r]) # None /\ Answer(r, Refusal(request[r]))
     \/ Refusal(request[r]) = None /\ Goto(r, "thumbprint")
  /\ UNCHANGED <<store, worker, faults, history>>

BodyMatches(q) ==
  /\ q.body.token \in {None, q.challenge}
  /\ q.body.type \in {None, TypeOf[q.challenge]}
  /\ q.body.keyAuthorization = KeyAuthorization(q.challenge, q.key)

(* The thumbprint is there: the body is checked and the challenge written    *)
(* over, whatever has become of it since it was read.                        *)
Accept(r) ==
  LET c == request[r].challenge IN
  /\ server = "up"
  /\ request[r].pc = "thumbprint"
  /\ \/ ~BodyMatches(request[r]) /\ Answer(r, 401) /\ UNCHANGED <<challenges, answered>>
     \/ /\ BodyMatches(request[r])
        /\ challenges' = [challenges EXCEPT ![c] =
                            ServiceUpdate(@, AcceptPayload(request[r]))]
        /\ Goto(r, "launch")
        /\ answered' = [answered EXCEPT ![c] = @ \cup {request[r].key}]
  /\ UNCHANGED <<accounts, authorizations, worker, faults, proved, late>>

(* Starts the worker, whose promise nobody waits for, and in v2 answers.     *)
Launch(r) ==
  /\ server = "up"
  /\ request[r].pc = "launch"
  /\ worker' = [worker EXCEPT ![r] =
       [pc |-> "queued", challenge |-> request[r].challenge,
        keyAuthorization |-> None, status |-> None]]
  /\ \/ Version = "v1" /\ Goto(r, "proxy")
     \/ Version = "v2" /\ Answer(r, 200)
  /\ UNCHANGED <<store, faults, history>>

Active(w) == worker[w].pc \in {"queued", "probe", "reread", "judge", "report"}

(* Mutant of Proxy: the answer waits for the end of the verification.        *)
WaitingProxy(r) ==
  /\ server = "up"
  /\ request[r].pc = "proxy"
  /\ ~Active(r)
  /\ Answer(r, 200)
  /\ UNCHANGED <<store, worker, faults, history>>

(* The v1 proxy reads the challenge again to choose the status code.         *)
Proxy(r) ==
  /\ server = "up"
  /\ request[r].pc = "proxy"
  /\ Answer(r, IF challenges[request[r].challenge].processing THEN 202 ELSE 200)
  /\ UNCHANGED <<store, worker, faults, history>>

RequestStep(r) ==
  \/ ReadChallenge(r)
  \/ ReadAuthorization(r)
  \/ ReadAccount(r)
  \/ Accept(r)
  \/ Launch(r)
  \/ Proxy(r)

-----------------------------------------------------------------------------
(* Workers: verify-http-01.worker.js and verify-tls-sni-01.worker.js.        *)

NoWorker ==
  [pc |-> "none", challenge |-> None, keyAuthorization |-> None, status |-> None]

(* The worker reads the key authorization it is going to look for.           *)
Run(w) ==
  /\ server = "up"
  /\ worker[w].pc = "queued"
  /\ worker' = [worker EXCEPT ![w].pc = "probe",
       ![w].keyAuthorization = challenges[worker[w].challenge].keyAuthorization]
  /\ UNCHANGED <<store, request, faults, history>>

Verdict(w, answer) ==
  IF answer = worker[w].keyAuthorization THEN "valid" ELSE "invalid"

(* The peer answers and the verdict is stored. The internal database returns *)
(* the record as it has just been updated; MongoDB reads it again.           *)
Probe(w, answer) ==
  LET c == worker[w].challenge
      verdict == Verdict(w, answer)
  IN
  /\ server = "up"
  /\ worker[w].pc = "probe"
  /\ challenges' = [challenges EXCEPT ![c] =
                      ServiceUpdate(@, [processing |-> FALSE, status |-> verdict])]
  /\ worker' = [worker EXCEPT ![w].pc = IF Engine = "mongodb" THEN "reread" ELSE "judge",
                              ![w].status = verdict]
  /\ proved' = [proved EXCEPT ![c] =
                  @ \cup {k \in answered[c] : answer = KeyAuthorization(c, k)}]
  /\ UNCHANGED <<accounts, authorizations, request, faults, answered, late>>

(* Mutant of Reread: update returns the record it found before it wrote.     *)
RereadTooEarly(w) ==
  /\ server = "up"
  /\ worker[w].pc = "reread"
  /\ worker' = [worker EXCEPT ![w].pc = "judge", ![w].status = "pending"]
  /\ UNCHANGED <<store, request, faults, history>>

Reread(w) ==
  /\ server = "up"
  /\ worker[w].pc = "reread"
  /\ worker' = [worker EXCEPT ![w].pc = "judge",
                              ![w].status = challenges[worker[w].challenge].status]
  /\ UNCHANGED <<store, request, faults, history>>

(* Mutant of Judge: a failed verification makes the authorization pending.   *)
ResettingJudge(w) ==
  /\ server = "up"
  /\ worker[w].pc = "judge"
  /\ authorizations' = [authorizations EXCEPT ![AuthorizationOf[worker[w].challenge]] =
                          IF worker[w].status = "valid" THEN "valid" ELSE "pending"]
  /\ worker' = [worker EXCEPT ![w].pc = "report"]
  /\ UNCHANGED <<accounts, challenges, request, faults, history>>

(* Mutant of Judge: a failed verification is tried again.                    *)
RetryingJudge(w) ==
  /\ server = "up"
  /\ worker[w].pc = "judge"
  /\ \/ /\ worker[w].status = "valid"
        /\ authorizations' = [authorizations EXCEPT
                                ![AuthorizationOf[worker[w].challenge]] = "valid"]
        /\ worker' = [worker EXCEPT ![w].pc = "report"]
     \/ /\ worker[w].status # "valid"
        /\ worker' = [worker EXCEPT ![w].pc = "queued"]
        /\ UNCHANGED authorizations
  /\ UNCHANGED <<accounts, challenges, request, faults, history>>

(* What the update returned decides whether the authorization becomes valid. *)
Judge(w) ==
  /\ server = "up"
  /\ worker[w].pc = "judge"
  /\ \/ /\ worker[w].status = "valid"
        /\ authorizations' = [authorizations EXCEPT
                                ![AuthorizationOf[worker[w].challenge]] = "valid"]
     \/ worker[w].status # "valid" /\ UNCHANGED authorizations
  /\ worker' = [worker EXCEPT ![w].pc = "report"]
  /\ UNCHANGED <<accounts, challenges, request, faults, history>>

(* fetch rejects, and the challenge stays as it was.                         *)
FetchFails(w) ==
  /\ server = "up"
  /\ worker[w].pc = "probe"
  /\ worker[w].challenge \in Unreliable
  /\ TypeOf[worker[w].challenge] = "http-01"
  /\ worker' = [worker EXCEPT ![w].pc = "report", ![w].status = None]
  /\ UNCHANGED <<store, request, faults, history>>

(* done() is called, with an error unless everything went well. Until then   *)
(* the call counts as being served.                                          *)
Report(w) ==
  /\ server = "up"
  /\ worker[w].pc = "report"
  /\ worker' = [worker EXCEPT ![w].pc =
                   IF worker[w].status = "valid" THEN "done" ELSE "failed"]
  /\ UNCHANGED <<store, request, faults, history>>

WorkersOf(type) == {w \in Requests : Active(w) /\ TypeOf[worker[w].challenge] = type}

(* A child of a worker farm dies with the calls it was serving, of one type  *)
(* since each worker has its own farm; the farm queues them again, as often  *)
(* as it takes.                                                              *)
QueuedAgain(calls) ==
  worker' = [w \in Requests |->
    IF w \in calls
    THEN [worker[w] EXCEPT !.pc = "queued", !.keyAuthorization = None, !.status = None]
    ELSE worker[w]]

(* tls.connect reports a refused connection with an event nobody listens to, *)
(* which ends the process: the server itself, when workers run inside it, or *)
(* the child of the farm.                                                    *)
ConnectionError(w) ==
  /\ server = "up"
  /\ worker[w].pc = "probe"
  /\ worker[w].challenge \in Unreliable
  /\ TypeOf[worker[w].challenge] = "tls-sni-01"
  /\ \/ Engine = "internaldb" /\ server' = "down" /\ UNCHANGED worker
     \/ /\ Engine = "mongodb"
        /\ \E calls \in SUBSET WorkersOf("tls-sni-01") : w \in calls /\ QueuedAgain(calls)
        /\ UNCHANGED server
  /\ UNCHANGED <<store, request, deaths, restarts, failures, history>>

(* A child dies of something else.                                           *)
ChildDeath(type) ==
  /\ Engine = "mongodb"
  /\ server = "up"
  /\ FaultsLeft
  /\ deaths' = deaths + 1
  /\ \E calls \in SUBSET WorkersOf(type) : calls # {} /\ QueuedAgain(calls)
  /\ UNCHANGED <<store, request, server, restarts, failures, history>>

(* A call to MongoDB fails when its connection does. The handler takes a get *)
(* that fails for a record that is not there. When the update of a challenge *)
(* fails, its write has been made ("launch") or not, and no worker starts.   *)
RequestCallFails(r) ==
  LET pc == request[r].pc IN
  /\ Engine = "mongodb"
  /\ server = "up"
  /\ FaultsLeft
  /\ failures' = failures + 1
  /\ \/ pc \in {"challenge", "authorization", "account"} /\ Answer(r, 404)
     \/ pc = "thumbprint" /\ BodyMatches(request[r]) /\ Answer(r, 500)
     \/ pc \in {"launch", "proxy"} /\ Answer(r, 500)
  /\ UNCHANGED <<store, worker, server, deaths, restarts, history>>

(* A worker whose call fails reports an error. Here too an update that fails *)
(* has been made ("reread", "report") or not.                                *)
WorkerCallFails(w) ==
  /\ Engine = "mongodb"
  /\ server = "up"
  /\ FaultsLeft
  /\ failures' = failures + 1
  /\ \/ worker[w].pc \in {"queued", "probe", "reread"}
     \/ worker[w].pc \in {"judge", "report"} /\ worker[w].status = "valid"
  /\ worker' = [worker EXCEPT ![w].pc = "report", ![w].status = None]
  /\ UNCHANGED <<store, request, server, deaths, restarts, history>>

(* The server is restarted on the records it left in MongoDB: the requests   *)
(* it was serving are lost, and the farm with its calls.                     *)
Restart ==
  /\ Engine = "mongodb"
  /\ server = "up"
  /\ FaultsLeft
  /\ restarts' = restarts + 1
  /\ request' = [r \in Requests |->
       IF Busy(r) THEN [Idle EXCEPT !.pc = "lost"] ELSE request[r]]
  /\ worker' = [w \in Requests |->
       IF Active(w) THEN [worker[w] EXCEPT !.pc = "failed"] ELSE worker[w]]
  /\ UNCHANGED <<store, server, deaths, failures, history>>

(* POST /accounts/:accound_id with status "deactivated": the last write of   *)
(* the update-account handler.                                               *)
Deactivate(a) ==
  /\ server = "up"
  /\ accounts[a] # "deactivated"
  /\ accounts' = [accounts EXCEPT ![a] = "deactivated"]
  /\ UNCHANGED <<authorizations, challenges, request, worker, faults, history>>

(* Every request has had its answer and every worker has ended.              *)
Quiescent ==
  /\ \/ server = "down"
     \/ \A r \in Requests : request[r].pc \in {"answered", "lost"} /\ ~Active(r)
  /\ UNCHANGED vars

WorkerStep(w) ==
  \/ Run(w)
  \/ worker[w].pc = "probe" /\ \E answer \in Served[worker[w].challenge] : Probe(w, answer)
  \/ Reread(w)
  \/ Judge(w)
  \/ FetchFails(w)
  \/ ConnectionError(w)
  \/ Report(w)

-----------------------------------------------------------------------------
Init ==
  /\ accounts = [a \in Accounts |-> "valid"]
  /\ authorizations = [a \in Authorizations |-> "pending"]
  /\ challenges = [c \in Challenges |-> NewChallenge]
  /\ request = [r \in Requests |-> Idle]
  /\ worker = [r \in Requests |-> NoWorker]
  /\ server = "up" /\ deaths = 0 /\ restarts = 0 /\ failures = 0
  /\ answered = [c \in Challenges |-> {}]
  /\ proved = [c \in Challenges |-> {}]
  /\ late = {}

Next ==
  \/ \E r \in Requests, m \in Posts : Arrive(r, m.challenge, m.key, m.body)
  \/ \E r \in Requests : RequestStep(r) \/ WorkerStep(r)
  \/ \E r \in Requests : RequestCallFails(r) \/ WorkerCallFails(r)
  \/ \E type \in ChallengeTypes : ChildDeath(type)
  \/ Restart
  \/ \E a \in Accounts : Deactivate(a)
  \/ Quiescent

Spec == Init /\ [][Next]_vars

(* The event loop runs every continuation that is ready, and a peer that is  *)
(* probed answers or refuses in the end (nothing else bounds the wait).      *)
FairSpec ==
  /\ Spec
  /\ \A r \in Requests : WF_vars(RequestStep(r)) /\ WF_vars(WorkerStep(r))

-----------------------------------------------------------------------------
Codes == {200, 202, 401, 403, 404, 412, 500}

ChallengeRecord ==
  [status : {"pending", "processing", "valid", "invalid"},
   keyAuthorization : (Challenges \X Keys) \cup {None},
   processing : BOOLEAN]

RequestRecord ==
  [pc : {"idle", "challenge", "authorization", "account", "thumbprint", "launch",
         "proxy", "answered", "lost"},
   challenge : Challenges \cup {None},
   key : Keys \cup {None},
   body : Bodies \cup {None},
   challengeStatus : {"pending", "processing", "valid", "invalid", None},
   authorizationStatus : {"pending", "valid", None},
   answer : Codes \cup {None}]

WorkerRecord ==
  [pc : {"none", "queued", "probe", "reread", "judge", "report", "done", "failed"},
   challenge : Challenges \cup {None},
   keyAuthorization : (Challenges \X Keys) \cup {None},
   status : {"pending", "processing", "valid", "invalid", None}]

(* Every record has the attributes its collection declares, and every copy   *)
(* was taken from such a record.                                             *)
TypeOK ==
  /\ accounts \in [Accounts -> {"valid", "deactivated"}]
  /\ authorizations \in [Authorizations -> {"pending", "valid"}]
  /\ challenges \in [Challenges -> ChallengeRecord]
  /\ request \in [Requests -> RequestRecord]
  /\ worker \in [Requests -> WorkerRecord]
  /\ server \in {"up", "down"}
  /\ deaths \in Nat /\ restarts \in Nat /\ failures \in Nat
  /\ answered \in [Challenges -> SUBSET Keys] /\ proved \in [Challenges -> SUBSET Keys]
  /\ late \subseteq Requests

(* An authorization is valid only if one of its challenges was answered with *)
(* a key called like its account's, and the peer of that very challenge then *)
(* served the key authorization made with that very key. (That the key is    *)
(* the account's is as true as its kid: get-all-related.js compares no more.)*)
AuthorizationEarned ==
  \A a \in Authorizations : authorizations[a] = "valid" =>
    \E c \in Challenges :
      AuthorizationOf[c] = a /\ OwnersKeys(c) \cap proved[c] # {}

(* A request that arrives when the authorization is valid, or the account    *)
(* deactivated, starts no verification, however old the challenge it finds.  *)
NoLateVerification ==
  \A r \in late : worker[r].pc = "none" /\ request[r].pc # "launch"

(* The calls that verify c may be made again, once a child has died or since *)
(* one does whenever some peer refuses the connection.                       *)
MayRepeat(c) ==
  \/ deaths > 0
  \/ /\ Engine = "mongodb" /\ TypeOf[c] = "tls-sni-01"
     /\ \E d \in Unreliable : TypeOf[d] = "tls-sni-01"

(* A worker in state k is between the two writes of a verdict on c, or, when *)
(* its call is made again, about to ask the peer once more, who may be out   *)
(* of reach by then.                                                         *)
Settles(k, c) ==
  /\ k.challenge = c
  /\ \/ k.pc = "reread"
     \/ k.pc = "judge" /\ k.status = "valid"
     \/ MayRepeat(c) /\ k.pc \in {"queued", "probe"}
     \/ /\ MayRepeat(c) /\ c \in Unreliable /\ TypeOf[c] = "http-01"
        /\ k.pc \in {"report", "failed"} /\ k.status # "valid"

(* No challenge is left valid with an authorization that nobody is going to  *)
(* make valid, although other requests and workers write the same records    *)
(* and children die, unless a restart or a failed call has parted the two    *)
(* writes (verify-http-01.worker.js).                                        *)
ValidChallengeSettles ==
  restarts = 0 /\ failures = 0 =>
    \A c \in Challenges : challenges[c].status = "valid" =>
      \/ authorizations[AuthorizationOf[c]] = "valid"
      \/ \E w \in Requests : Settles(worker[w], c)

(* Every request gets an answer, unless the process it was sent to is gone.  *)
AnsweredEventually ==
  \A r \in Requests : Busy(r) ~> (~Busy(r) \/ server = "down")

(* A worker loses its child again and again, to connections that are refused *)
(* to it or to another worker there.                                         *)
KilledForever(w) ==
  []<><<\E v \in Requests : ConnectionError(v) /\ worker'[w] # worker[w]>>_vars

(* Every verification that starts comes to an end, but for one of type       *)
(* tls-sni-01 whose call the farm makes again without end, since its child   *)
(* dies whenever a peer refuses the connection, and one never stops to       *)
(* (worker.service.js:29 sets no limit to the retries).                      *)
VerificationEnds ==
  \A w \in Requests :
    (Active(w) ~> (~Active(w) \/ server = "down")) \/ KilledForever(w)

(* When the peer of a challenge serves what a request has answered with, the *)
(* authorization becomes valid once the request is accepted, whatever other  *)
(* requests with that answer write over the challenge meanwhile, whatever    *)
(* becomes of the authorization's other challenge and although children of   *)
(* the farm die. What can prevent it is an answer with another key, whose    *)
(* verdict is written over this one's, a restart, a failed call, or children *)
(* that refused connections kill for ever.                                   *)
AcceptedIsAuthorized ==
  \A r \in Requests, c \in Challenges \ Unreliable, k \in Keys :
    Served[c] = {KeyAuthorization(c, k)} =>
      \/ (/\ request[r].pc = "launch"
          /\ request[r].challenge = c /\ request[r].key = k) ~>
           (\/ authorizations[AuthorizationOf[c]] = "valid"
            \/ answered[c] # {k}
            \/ restarts > 0 \/ failures > 0 \/ server = "down")
      \/ KilledForever(r)

(* In v1 a challenge that is being verified stays "pending" and is known by  *)
(* its attribute processing (so says respond-to-challenge.handler.js).       *)
ProcessingTracked ==
  Version = "v1" =>
    \A w \in Requests : worker[w].pc \in {"queued", "probe"} =>
      \/ challenges[worker[w].challenge].processing
      \/ challenges[worker[w].challenge].status # "pending"

Promise == INSTANCE AuthorizationPromise
             WITH MayAnswer <- [c \in Challenges |-> OwnersKeys(c)]

(* Validation keeps the promise: answered with a key of the owner's kid,     *)
(* then that answer found at the peer, then authorized, and what is valid    *)
(* stays valid, whatever dies, fails or is written twice.                    *)
PromiseKept == Promise!PromiseSpec

-----------------------------------------------------------------------------
(* What makes the invariants above inductive, part by part.                  *)

(* The key authorizations a challenge was answered with.                     *)
AnswersTo(c) == {KeyAuthorization(c, k) : k \in answered[c]}

(* Challenges are answered with keys of their owner's kid, and what is stored*)
(* to be looked for is one of the answers.                                   *)
StoredIsOwn ==
  \A c \in Challenges :
    /\ answered[c] \subseteq OwnersKeys(c)
    /\ challenges[c].keyAuthorization \in AnswersTo(c) \cup {None}

(* A request past a check satisfies what was checked, and has no worker      *)
(* before it launches one.                                                   *)
Checked(r, q) ==
  /\ q.pc \in {"authorization", "account", "thumbprint", "launch", "proxy"} =>
       q.challenge \in Challenges
  /\ q.pc = "thumbprint" => q.key \in OwnersKeys(q.challenge)
  /\ q.pc \in {"launch", "proxy"} => challenges[q.challenge].keyAuthorization # None
  /\ q.pc \in {"idle", "challenge", "authorization", "account", "thumbprint", "launch"} =>
       worker[r].pc = "none"

RequestsChecked == \A r \in Requests : Checked(r, request[r])

(* A worker looks for an answer.                                             *)
WorkersLookForOwn ==
  \A w \in Requests :
    LET k == worker[w] IN
    /\ k.pc # "none" =>
         k.challenge \in Challenges /\ challenges[k.challenge].keyAuthorization # None
    /\ k.pc = "probe" => k.keyAuthorization \in AnswersTo(k.challenge)

(* Whatever says "valid" says so of a challenge of which an answer has been  *)
(* proved, and nothing is proved but answers.                                *)
ValidIsProved ==
  /\ \A c \in Challenges : proved[c] \subseteq answered[c]
  /\ \A c \in Challenges : challenges[c].status = "valid" => proved[c] # {}
  /\ \A w \in Requests :
       worker[w].pc = "judge" /\ worker[w].status = "valid" => proved[worker[w].challenge] # {}

(* A late request is on its way to a refusal, and nothing can hold it up.    *)
BoundToFail(q) ==
  /\ q.pc \notin {"idle", "thumbprint", "launch", "proxy"}
  /\ q.pc \in {"challenge", "authorization", "account"} => TooLate(q.challenge)
  /\ q.pc = "account" => \/ q.authorizationStatus = "valid"
                         \/ accounts[Owner(q.challenge)] = "deactivated"

LateIsRefused == \A r \in late : BoundToFail(request[r])

IInv ==
  /\ TypeOK
  /\ StoredIsOwn
  /\ RequestsChecked
  /\ WorkersLookForOwn
  /\ ValidIsProved
  /\ LateIsRefused
  /\ AuthorizationEarned
  /\ NoLateVerification
  /\ ValidChallengeSettles

=============================================================================
