------------------------------ MODULE Issuance ------------------------------
(* ACME v1 certificates: the new-cert and renew handlers, the worker that    *)
(* signs, and the two handlers a client polls a certificate with.            *)
(*                                                                           *)
(* The CSR to sign is no part of the certificate: new-cert writes it over    *)
(* the authorization, and the worker reads it from there when it runs. As in *)
(* ChallengeValidation every read or write of a collection is a step, so two *)
(* requests may meet on one authorization. Certificate and worker r are the  *)
(* ones request r creates and starts; nothing else knows the new id, so the  *)
(* creation of a certificate and the start of its worker are one step.       *)
(*                                                                           *)
(* With the internal database the workers run in the server, so MaxDeaths    *)
(* and MaxRestarts are 0 there; they are not with MongoDB and a worker farm. *)
EXTENDS Naturals, FiniteSets

CONSTANTS
  Accounts, Authorizations, Requests,
  Keys,         \* account keys, each known by its kid, which is all that is looked at
  KidOf,        \* the kid of the key an account was created with
  AccountOf,    \* the account of an authorization
  DomainOf,     \* the domain an authorization is for
  Csrs,         \* the CSRs clients send
  DomainsOf,    \* the domains parseCsr finds in a CSR
  Malformed,    \* the CSRs it throws on
  Modes,        \* the values deferredCertGen may have
  MaxDeaths,    \* bound on the deaths of farm children
  MaxRestarts,  \* bound on the restarts of the server
  Root,         \* the id "root", and the root certificate
  None          \* the value null or undefined

PollKinds == {"get", "accepted"}
Kinds == {"new", "renew"} \cup PollKinds
Codes == {200, 201, 202, 403, 404, 412, 422, 500}

ASSUME IssuanceAssumption ==
  /\ KidOf \in [Accounts -> Keys]
  /\ AccountOf \in [Authorizations -> Accounts]
  /\ DOMAIN DomainOf = Authorizations
  /\ DOMAIN DomainsOf = Csrs /\ Malformed \subseteq Csrs
  /\ \A csr \in Csrs : IsFiniteSet(DomainsOf[csr])
  /\ Modes \subseteq BOOLEAN /\ MaxDeaths \in Nat /\ MaxRestarts \in Nat
  /\ None \notin Accounts \cup Authorizations \cup Requests \cup Keys \cup Csrs \cup {Root}
  /\ None \notin Kinds /\ None \notin Codes
  /\ Root \notin Requests \cup Csrs

VARIABLES
  deferred,        \* deferredCertGen: answer before the certificate is signed
  accounts,        \* status of each account
  authorizations,  \* status and CSR of each authorization
  certificates,    \* each certificate: its pem is known by the CSR it was made of
  request,         \* control state and local copies of each request
  worker,          \* control state and local copies of each sign worker
  deaths, restarts,
  before           \* history: the requests that were over when one arrived

vars == <<deferred, accounts, authorizations, certificates, request, worker, deaths,
          restarts, before>>

faults == <<deaths, restarts>>

NoCertificate == [status |-> "none", pem |-> None, authorization |-> None]

Idle ==
  [pc |-> "idle", kind |-> None, key |-> None, csr |-> None, target |-> None,
   account |-> None, authorization |-> None, answer |-> None, body |-> None]

Over(r) == request[r].pc \in {"answered", "lost"}
Busy(r) == request[r].pc # "idle" /\ ~Over(r)

Goto(r, pc) == request' = [request EXCEPT ![r].pc = pc]

Respond(r, code, pem) ==
  request' = [request EXCEPT ![r].pc = "answered", ![r].answer = code, ![r].body = pem]

Answer(r, code) == Respond(r, code, None)

Arrive(r, arrived) ==
  /\ request[r].pc = "idle"
  /\ request' = [request EXCEPT ![r] = arrived]
  /\ before' = [before EXCEPT ![r] = {q \in Requests : Over(q)}]
  /\ UNCHANGED <<deferred, accounts, authorizations, certificates, worker, faults>>

-----------------------------------------------------------------------------
(* POST /new-cert, signed by k or not signed at all (None).                  *)
ArriveNew(r, k, csr) ==
  Arrive(r, [Idle EXCEPT !.pc = "account", !.kind = "new", !.key = k, !.csr = csr])

(* Without a key the handler throws. Several accounts may have one key.      *)
FindAccount(r) ==
  LET found == {a \in Accounts : KidOf[a] = request[r].key} IN
  /\ request[r].pc = "account"
  /\ \/ request[r].key = None /\ Answer(r, 500)
     \/ request[r].key # None /\ found = {} /\ Answer(r, 404)
     \/ \E a \in found :
          \/ accounts[a] = "deactivated" /\ Answer(r, 403)
          \/ /\ accounts[a] # "deactivated"
             /\ request' = [request EXCEPT ![r].pc = "find", ![r].account = a]
  /\ UNCHANGED <<deferred, accounts, authorizations, certificates, worker, faults, before>>

(* Mutant of Matching: the account is not part of the query.                 *)
AnyonesMatching(q) ==
  {a \in Authorizations :
     /\ authorizations[a].status = "valid"
     /\ DomainsOf[q.csr] = {DomainOf[a]}}

(* Mutant of Matching: the status is not part of the query.                  *)
UnprovedMatching(q) ==
  {a \in Authorizations : AccountOf[a] = q.account /\ DomainsOf[q.csr] = {DomainOf[a]}}

(* The valid authorizations a CSR may be signed for.                         *)
Matching(q) ==
  {a \in Authorizations :
     /\ AccountOf[a] = q.account
     /\ authorizations[a].status = "valid"
     /\ DomainsOf[q.csr] = {DomainOf[a]}}

(* Parses the CSR, which must name exactly one domain, and finds a valid     *)
(* authorization for it; when there is none the handler trips over null.     *)
FindAuthorization(r) ==
  LET csr == request[r].csr IN
  /\ request[r].pc = "find"
  /\ \/ csr \in Malformed /\ Answer(r, 500)
     \/ csr \notin Malformed /\ Cardinality(DomainsOf[csr]) # 1 /\ Answer(r, 422)
     \/ /\ csr \notin Malformed /\ Cardinality(DomainsOf[csr]) = 1
        /\ \/ Matching(request[r]) = {} /\ Answer(r, 500)
           \/ \E a \in Matching(request[r]) :
                request' = [request EXCEPT ![r].pc = "store", ![r].authorization = a]
  /\ UNCHANGED <<deferred, accounts, authorizations, certificates, worker, faults, before>>

(* Mutant of StoreCsr: the first CSR of an authorization is kept.            *)
KeepingStoreCsr(r) ==
  /\ request[r].pc = "store"
  /\ authorizations' = [authorizations EXCEPT ![request[r].authorization].csr =
                          IF @ = None THEN request[r].csr ELSE @]
  /\ Goto(r, "create")
  /\ UNCHANGED <<deferred, accounts, certificates, worker, faults, before>>

(* Mutant of StoreCsr: what the update does not name is as in a new record.  *)
ResettingStoreCsr(r) ==
  /\ request[r].pc = "store"
  /\ authorizations' = [authorizations EXCEPT ![request[r].authorization] =
                          [status |-> "pending", csr |-> request[r].csr]]
  /\ Goto(r, "create")
  /\ UNCHANGED <<deferred, accounts, certificates, worker, faults, before>>

(* The CSR is written over the one the authorization had.                    *)
StoreCsr(r) ==
  /\ request[r].pc = "store"
  /\ authorizations' = [authorizations EXCEPT ![request[r].authorization].csr = request[r].csr]
  /\ Goto(r, "create")
  /\ UNCHANGED <<deferred, accounts, certificates, worker, faults, before>>

-----------------------------------------------------------------------------
(* GET /cert/renew/:authorization_id, for an id no authorization has (None)  *)
(* too. The account is read and found, and its status not looked at.         *)
ArriveRenew(r, a) ==
  Arrive(r, [Idle EXCEPT !.pc = "renew", !.kind = "renew", !.target = a])

ReadAuthorization(r) ==
  LET a == request[r].target
      usable == a # None /\ authorizations[a].status = "valid" /\ authorizations[a].csr # None
  IN
  /\ request[r].pc = "renew"
  /\ \/ a = None /\ Answer(r, 404)
     \/ a # None /\ ~usable /\ Answer(r, 412)
     \/ usable /\ request' = [request EXCEPT ![r].pc = "create", ![r].authorization = a]
  /\ UNCHANGED <<deferred, accounts, authorizations, certificates, worker, faults, before>>

-----------------------------------------------------------------------------
(* What new-cert and renew have in common.                                   *)

NoWorker == [pc |-> "none", csr |-> None]

(* Mutant of Create: a deferred request starts no worker.                    *)
WorkerlessCreate(r) ==
  /\ request[r].pc = "create"
  /\ certificates' = [certificates EXCEPT ![r] =
       [status |-> "pending", pem |-> None, authorization |-> request[r].authorization]]
  /\ IF deferred
     THEN Answer(r, 202) /\ UNCHANGED worker
     ELSE Goto(r, "signing") /\ worker' = [worker EXCEPT ![r].pc = "queued"]
  /\ UNCHANGED <<deferred, accounts, authorizations, faults, before>>

(* Creates a pending certificate and starts its worker. Deferred, the answer *)
(* says where to poll; otherwise it waits for the worker.                    *)
Create(r) ==
  /\ request[r].pc = "create"
  /\ certificates' = [certificates EXCEPT ![r] =
       [status |-> "pending", pem |-> None, authorization |-> request[r].authorization]]
  /\ worker' = [worker EXCEPT ![r].pc = "queued"]
  /\ IF deferred THEN Answer(r, 202) ELSE Goto(r, "signing")
  /\ UNCHANGED <<deferred, accounts, authorizations, faults, before>>

(* Mutant of Finish: the worker's promise is not waited for.                 *)
HastyFinish(r) ==
  /\ request[r].pc = "signing"
  /\ IF certificates[r].status = "valid" THEN Goto(r, "der") ELSE Answer(r, 202)
  /\ UNCHANGED <<deferred, accounts, authorizations, certificates, worker, faults, before>>

(* Mutant of Finish: the record is waited for and not the worker's promise.  *)
RecordFinish(r) ==
  /\ request[r].pc = "signing"
  /\ certificates[r].status = "valid"
  /\ Goto(r, "der")
  /\ UNCHANGED <<deferred, accounts, authorizations, certificates, worker, faults, before>>

(* The worker has ended: the certificate is read again.                      *)
Finish(r) ==
  /\ request[r].pc = "signing"
  /\ worker[r].pc = "done"
  /\ IF certificates[r].status = "valid" THEN Goto(r, "der") ELSE Answer(r, 202)
  /\ UNCHANGED <<deferred, accounts, authorizations, certificates, worker, faults, before>>

-----------------------------------------------------------------------------
(* GET /cert/:certificate_id and GET /cert/accepted/:certificate_id.         *)

ArrivePoll(r, kind, c) ==
  Arrive(r, [Idle EXCEPT !.pc = "poll", !.kind = kind, !.target = c])

(* The certificate is read with its authorization and account, which are     *)
(* always found. The root certificate is always there and has no status.     *)
ReadCertificate(r) ==
  LET c == request[r].target
      get == request[r].kind = "get"
      known == c \in Requests /\ certificates[c].status # "none"
  IN
  /\ request[r].pc = "poll"
  /\ \/ c = Root /\ get /\ Respond(r, 200, Root)
     \/ c = Root /\ ~get /\ Answer(r, 202)
     \/ c # Root /\ ~known /\ Answer(r, 404)
     \/ known /\ certificates[c].status = "valid" /\ Goto(r, "der")
     \/ known /\ certificates[c].status # "valid" /\ get /\ Answer(r, 412)
     \/ known /\ certificates[c].status # "valid" /\ ~get /\ Answer(r, 202)
  /\ UNCHANGED <<deferred, accounts, authorizations, certificates, worker, faults, before>>

-----------------------------------------------------------------------------
(* The certificate a request is about: the one it created, or the one it     *)
(* polls.                                                                    *)
CertificateOf(r) == IF request[r].kind \in PollKinds THEN request[r].target ELSE r

(* Mutant of GetDer: the answer is made of what the authorization asks for.  *)
CsrGetDer(r) ==
  LET c == CertificateOf(r) IN
  /\ request[r].pc = "der"
  /\ Respond(r, IF request[r].kind = "get" THEN 200 ELSE 201,
                authorizations[certificates[c].authorization].csr)
  /\ UNCHANGED <<deferred, accounts, authorizations, certificates, worker, faults, before>>

(* getDer reads the certificate once more; a pem that is null would throw.   *)
GetDer(r) ==
  LET pem == certificates[CertificateOf(r)].pem IN
  /\ request[r].pc = "der"
  /\ IF pem = None THEN Answer(r, 500)
     ELSE Respond(r, IF request[r].kind = "get" THEN 200 ELSE 201, pem)
  /\ UNCHANGED <<deferred, accounts, authorizations, certificates, worker, faults, before>>

RequestStep(r) ==
  \/ FindAccount(r)
  \/ FindAuthorization(r)
  \/ StoreCsr(r)
  \/ ReadAuthorization(r)
  \/ Create(r)
  \/ Finish(r)
  \/ ReadCertificate(r)
  \/ GetDer(r)

-----------------------------------------------------------------------------
(* sign-certificate.worker.js and CertificateService.sign.                   *)

Active(w) == worker[w].pc \in {"queued", "sign", "stored"}

(* Reads the certificate, whose authorization never changes, and then the    *)
(* CSR of that authorization. It parses, since new-cert has parsed it.       *)
ReadCsr(w) ==
  /\ worker[w].pc = "queued"
  /\ worker' = [worker EXCEPT ![w] =
       [pc |-> "sign", csr |-> authorizations[certificates[w].authorization].csr]]
  /\ UNCHANGED <<deferred, accounts, authorizations, certificates, request, faults, before>>

(* Signs a certificate for the key of the CSR and stores it.                 *)
Sign(w) ==
  /\ worker[w].pc = "sign"
  /\ certificates' = [certificates EXCEPT ![w].status = "valid", ![w].pem = worker[w].csr]
  /\ worker' = [worker EXCEPT ![w].pc = "stored"]
  /\ UNCHANGED <<deferred, accounts, authorizations, request, faults, before>>

(* The worker calls done, which resolves the promise of the server.          *)
Report(w) ==
  /\ worker[w].pc = "stored"
  /\ worker' = [worker EXCEPT ![w].pc = "done"]
  /\ UNCHANGED <<deferred, accounts, authorizations, certificates, request, faults, before>>

WorkerStep(w) == ReadCsr(w) \/ Sign(w) \/ Report(w)

(* Mutant of ChildDeath: the farm forgets the calls of a child that dies.    *)
ForgetfulChildDeath ==
  /\ deaths < MaxDeaths
  /\ deaths' = deaths + 1
  /\ \E calls \in SUBSET {w \in Requests : Active(w)} :
       /\ calls # {}
       /\ worker' = [w \in Requests |-> IF w \in calls THEN NoWorker ELSE worker[w]]
  /\ UNCHANGED <<deferred, accounts, authorizations, certificates, request, restarts, before>>

(* A child of the farm dies with the calls it was serving, even one that it  *)
(* had finished but not reported; the farm queues them again.                *)
ChildDeath ==
  /\ deaths < MaxDeaths
  /\ deaths' = deaths + 1
  /\ \E calls \in SUBSET {w \in Requests : Active(w)} :
       /\ calls # {}
       /\ worker' = [w \in Requests |->
            IF w \in calls THEN [pc |-> "queued", csr |-> None] ELSE worker[w]]
  /\ UNCHANGED <<deferred, accounts, authorizations, certificates, request, restarts, before>>

(* The server restarts: its requests are lost, and the farm with its calls.  *)
Restart ==
  /\ restarts < MaxRestarts
  /\ restarts' = restarts + 1
  /\ request' = [r \in Requests |->
       IF Busy(r) THEN [request[r] EXCEPT !.pc = "lost"] ELSE request[r]]
  /\ worker' = [w \in Requests |-> IF Active(w) THEN NoWorker ELSE worker[w]]
  /\ UNCHANGED <<deferred, accounts, authorizations, certificates, deaths, before>>

-----------------------------------------------------------------------------
(* What the rest of the server does meanwhile: an authorization becomes      *)
(* valid (ChallengeValidation!Judge), an account is deactivated.             *)
Validate(a) ==
  /\ authorizations[a].status = "pending"
  /\ authorizations' = [authorizations EXCEPT ![a].status = "valid"]
  /\ UNCHANGED <<deferred, accounts, certificates, request, worker, faults, before>>

Deactivate(a) ==
  /\ accounts[a] # "deactivated"
  /\ accounts' = [accounts EXCEPT ![a] = "deactivated"]
  /\ UNCHANGED <<deferred, authorizations, certificates, request, worker, faults, before>>

Quiescent ==
  /\ \A r \in Requests : Over(r) /\ ~Active(r)
  /\ UNCHANGED vars

Init ==
  /\ deferred \in Modes
  /\ accounts = [a \in Accounts |-> "valid"]
  /\ authorizations = [a \in Authorizations |-> [status |-> "pending", csr |-> None]]
  /\ certificates = [r \in Requests |-> NoCertificate]
  /\ request = [r \in Requests |-> Idle]
  /\ worker = [r \in Requests |-> NoWorker]
  /\ deaths = 0 /\ restarts = 0
  /\ before = [r \in Requests |-> {}]

Next ==
  \/ \E r \in Requests :
       \/ \E k \in Keys \cup {None}, csr \in Csrs : ArriveNew(r, k, csr)
       \/ \E a \in Authorizations \cup {None} : ArriveRenew(r, a)
       \/ \E kind \in PollKinds, c \in Requests \cup {Root, None} : ArrivePoll(r, kind, c)
       \/ RequestStep(r)
       \/ WorkerStep(r)
  \/ ChildDeath
  \/ Restart
  \/ \E a \in Authorizations : Validate(a)
  \/ \E a \in Accounts : Deactivate(a)
  \/ Quiescent

Spec == Init /\ [][Next]_vars

(* The event loop runs every continuation that is ready, in the server and   *)
(* in the children of the farm.                                              *)
FairSpec ==
  /\ Spec
  /\ \A r \in Requests : WF_vars(RequestStep(r)) /\ WF_vars(WorkerStep(r))

-----------------------------------------------------------------------------
CertificateRecord ==
  [status : {"none", "pending", "valid"}, pem : Csrs \cup {None},
   authorization : Authorizations \cup {None}]

Pcs == {"idle", "account", "find", "store", "renew", "create", "signing", "poll", "der",
        "answered", "lost"}

RequestRecord ==
  [pc : Pcs,
   kind : Kinds \cup {None},
   key : Keys \cup {None},
   csr : Csrs \cup {None},
   target : Authorizations \cup Requests \cup {Root, None},
   account : Accounts \cup {None},
   authorization : Authorizations \cup {None},
   answer : Codes \cup {None},
   body : Csrs \cup {Root, None}]

(* The attributes of the records and the local copies have their types.      *)
TypeOK ==
  /\ deferred \in BOOLEAN
  /\ accounts \in [Accounts -> {"valid", "deactivated"}]
  /\ authorizations \in
       [Authorizations -> [status : {"pending", "valid"}, csr : Csrs \cup {None}]]
  /\ certificates \in [Requests -> CertificateRecord]
  /\ request \in [Requests -> RequestRecord]
  /\ worker \in [Requests -> [pc : {"none", "queued", "sign", "stored", "done"},
                              csr : Csrs \cup {None}]]
  /\ deaths \in Nat /\ restarts \in Nat
  /\ before \in [Requests -> SUBSET Requests]

(* A certificate is signed only for a valid authorization, for exactly its   *)
(* domain, and from a CSR that the account of the authorization sent itself, *)
(* although the CSR goes through a record that other requests write as well. *)
CertificateEarned ==
  \A c \in Requests : certificates[c].status = "valid" =>
    LET a == certificates[c].authorization IN
    /\ authorizations[a].status = "valid"
    /\ DomainsOf[certificates[c].pem] = {DomainOf[a]}
    /\ \E q \in Requests :
         /\ request[q].kind = "new"
         /\ request[q].key = KidOf[AccountOf[a]]
         /\ request[q].csr = certificates[c].pem

(* A new-cert request gets a certificate for the key of its own CSR, unless  *)
(* another one for the same authorization was there at the same time: one    *)
(* that was over before it arrived never gets in its way.                    *)
OwnCsrUnlessRival ==
  \A r \in Requests :
    request[r].kind = "new" /\ certificates[r].status = "valid" =>
      \/ certificates[r].pem = request[r].csr
      \/ \E q \in Requests \ {r} :
           /\ request[q].kind = "new"
           /\ request[q].authorization = request[r].authorization
           /\ q \notin before[r]

(* Unless generation is deferred, the answer waits until the certificate is  *)
(* signed and no longer "pending" (so new-certificate.handler.js says): it   *)
(* never sends the client, which cannot poll, to poll.                       *)
SyncAnswerSigned ==
  ~deferred => \A r \in Requests :
    request[r].kind \in {"new", "renew"} => request[r].answer # 202

(* What a client was given is what is on record, at once and for ever,       *)
(* though the handler reads the record twice and the worker may run again:   *)
(* only a client that polled before a child died may hold an older one.      *)
HandedOutIsRecorded ==
  \A r \in Requests : request[r].answer \in {200, 201} =>
    \/ request[r].body = Root
    \/ request[r].body # None /\ request[r].body = certificates[CertificateOf(r)].pem
    \/ deaths > 0 /\ request[r].kind \in PollKinds

(* Nobody waits for a worker that is not there, whichever children of the    *)
(* farm die: a request that is to answer with the signed certificate has     *)
(* one that runs or has reported, and a client that was sent to poll has a   *)
(* certificate or a worker on it, unless the server has restarted            *)
(* (new-certificate.handler.js:71 and :80, worker.service.js:29).            *)
NeverForgotten ==
  \A r \in Requests :
    /\ request[r].pc = "signing" => Active(r) \/ worker[r].pc = "done"
    /\ request[r].kind \in {"new", "renew"} /\ request[r].answer = 202 =>
         certificates[r].status = "valid" \/ Active(r) \/ restarts > 0

(* Certificates as Certification sees them.                                  *)
Messages == {<<request[q].key, request[q].csr>> : q \in {r \in Requests : request[r].kind = "new"}}
Filed == [a \in Authorizations |-> {authorizations[a].csr} \ {None}]
OrderedFor ==
  [c \in Requests |-> IF certificates[c].status = "none" THEN {}
                      ELSE {certificates[c].authorization}]
Drafts == [c \in Requests |-> IF worker[c].pc = "sign" THEN {worker[c].csr} ELSE {}]
Pems == [c \in Requests |-> IF certificates[c].status = "valid" THEN {certificates[c].pem} ELSE {}]
Tellings ==
  [r \in Requests |-> IF request[r].answer \in {200, 201} /\ request[r].body # Root
                      THEN {<<CertificateOf(r), request[r].body>>} ELSE {}]

C == INSTANCE Certification WITH
  KeyOf <- [a \in Authorizations |-> KidOf[AccountOf[a]]],
  Fits <- {f \in Authorizations \X Csrs : DomainsOf[f[2]] = {DomainOf[f[1]]}},
  sent <- Messages,
  valid <- {a \in Authorizations : authorizations[a].status = "valid"},
  filed <- Filed, orderedFor <- OrderedFor, draft <- Drafts, pem <- Pems, told <- Tellings,
  repeated <- deaths > 0

(* Whatever requests, workers and polls overlap, and whichever of their      *)
(* calls are lost or repeated, they are to clients what Certification says:  *)
(* a certificate is drafted from a CSR its authorization has had since the   *)
(* certificate was ordered, and what a client is told is on record, and for  *)
(* whoever ordered it the last word (new-certificate.handler.js:60,          *)
(* certificate.service.js:80).                                               *)
CertificationKept == C!CertificationSpec

(* A certificate a client was sent to poll for is signed in the end, unless  *)
(* the server restarts: nothing takes up a pending certificate again.        *)
AcceptedIsSigned ==
  \A r \in Requests :
    (request[r].kind \in {"new", "renew"} /\ request[r].answer = 202) ~>
      (certificates[r].status = "valid" \/ restarts > 0)

(* Every request is answered, those that wait for a worker too.              *)
AnsweredEventually == \A r \in Requests : Busy(r) ~> ~Busy(r)

=============================================================================
