-------------------------- MODULE LifecycleProofs ---------------------------
(* Proofs about Lifecycle, for any accounts, authorizations, challenges and  *)
(* requests of both kinds, on both engines: each component is on the shared  *)
(* records what it is alone, and from that follows what they do together.    *)
EXTENDS Lifecycle, ChallengeValidationProofs

-----------------------------------------------------------------------------
(* Both components see the same statuses.                                    *)
Shared ==
  /\ authorizations = StatusesIn(records)
  /\ records = [a \in Authorizations |-> [status |-> records[a].status, csr |-> records[a].csr]]

(* All that issuance writes of an authorization is its CSR.                  *)
OnlyCsrs ==
  /\ accounts' = accounts /\ restarts' = restarts
  /\ \/ records' = records
     \/ \E a, csr : records' = [records EXCEPT ![a].csr = csr]

LEMMA CertifyWrites == ASSUME Certify PROVE OnlyCsrs
<1>1. ASSUME NEW r, NEW new, I!Arrive(r, new) PROVE OnlyCsrs
  BY <1>1 DEF OnlyCsrs, I!Arrive, I!faults
<1>2. ASSUME NEW r, I!RequestStep(r) PROVE OnlyCsrs
  <2>1. CASE I!StoreCsr(r)
    BY <2>1 DEF OnlyCsrs, I!StoreCsr, I!faults
  <2>2. CASE I!FindAccount(r)
    BY <2>2 DEF OnlyCsrs, I!FindAccount, I!faults
  <2>3. CASE I!FindAuthorization(r)
    BY <2>3 DEF OnlyCsrs, I!FindAuthorization, I!faults
  <2>4. CASE I!ReadAuthorization(r)
    BY <2>4 DEF OnlyCsrs, I!ReadAuthorization, I!faults
  <2>5. CASE I!Create(r)
    BY <2>5 DEF OnlyCsrs, I!Create, I!faults
  <2>6. CASE I!Finish(r)
    BY <2>6 DEF OnlyCsrs, I!Finish, I!faults
  <2>7. CASE I!ReadCertificate(r)
    BY <2>7 DEF OnlyCsrs, I!ReadCertificate, I!faults
  <2>8. CASE I!GetDer(r)
    BY <2>8 DEF OnlyCsrs, I!GetDer, I!faults
  <2>. QED
    BY <1>2, <2>1, <2>2, <2>3, <2>4, <2>5, <2>6, <2>7, <2>8 DEF I!RequestStep
<1>3. ASSUME NEW w, I!WorkerStep(w) PROVE OnlyCsrs
  BY <1>3 DEF OnlyCsrs, I!WorkerStep, I!ReadCsr, I!Sign, I!Report, I!faults
<1>4. CASE I!ChildDeath
  BY <1>4 DEF OnlyCsrs, I!ChildDeath
<1>. QED
  BY <1>1, <1>2, <1>3, <1>4 DEF Certify, I!ArriveNew, I!ArriveRenew, I!ArrivePoll

LEMMA CertifyKeepsStatuses ==
  ASSUME Shared, Certify
  PROVE  Shared' /\ UNCHANGED vars
<1>1. Shared' /\ authorizations' = authorizations
  <2>1. authorizations' = StatusesIn(records')
    BY DEF Certify
  <2>2. CASE records' = records
    BY <2>1, <2>2 DEF Shared
  <2>3. ASSUME NEW a, NEW csr, records' = [records EXCEPT ![a].csr = csr]
        PROVE  Shared' /\ authorizations' = authorizations
    <3>1. ASSUME NEW b \in Authorizations
          PROVE  /\ records'[b].status = records[b].status
                 /\ records'[b] = [status |-> records'[b].status, csr |-> records'[b].csr]
      <4>1. records[b] = [status |-> records[b].status, csr |-> records[b].csr]
        BY DEF Shared
      <4>2. records'[b] = IF b = a THEN [records[b] EXCEPT !.csr = csr] ELSE records[b]
        BY <2>3 DEF Shared
      <4>. QED
        BY ONLY <4>1, <4>2
    <3>2. records' = [b \in Authorizations |-> records'[b]]
      BY <2>3 DEF Shared
    <3>3. authorizations' = authorizations
      BY <2>1, <3>1 DEF Shared, StatusesIn
    <3>4. records' = [b \in Authorizations |->
                        [status |-> records'[b].status, csr |-> records'[b].csr]]
      BY <3>1, <3>2
    <3>. QED
      BY <2>1, <3>3, <3>4 DEF Shared
  <2>. QED
    BY <2>2, <2>3, CertifyWrites DEF OnlyCsrs
<1>. QED
  BY <1>1, CertifyWrites DEF OnlyCsrs, Certify, vars, history

(* All that validation writes of one is its status, and only "valid".        *)
LEMMA RespondWrites ==
  ASSUME TypeOK, Respond
  PROVE  /\ accounts' = accounts /\ restarts' = restarts
         /\ \/ authorizations' = authorizations
            \/ /\ server = "up"
               /\ \E a \in Authorizations : authorizations' = [authorizations EXCEPT ![a] = "valid"]
<1>1. ASSUME NEW r \in Requests, RequestStep(r) PROVE UNCHANGED <<accounts, authorizations, restarts>>
  BY <1>1 DEF RequestStep, ReadChallenge, ReadAuthorization, ReadAccount, Accept, Launch, Proxy,
              store, faults
<1>2. ASSUME NEW w \in Requests, WorkerStep(w), ~Judge(w)
      PROVE  UNCHANGED <<accounts, authorizations, restarts>>
  BY <1>2 DEF WorkerStep, Run, Probe, Reread, FetchFails, ConnectionError, Report, store, faults
<1>3. ASSUME NEW w \in Requests, Judge(w), authorizations' # authorizations
      PROVE  /\ accounts' = accounts /\ restarts' = restarts /\ server = "up"
             /\ \E a \in Authorizations : authorizations' = [authorizations EXCEPT ![a] = "valid"]
  <2>1. PICK a : authorizations' = [authorizations EXCEPT ![a] = "valid"]
    BY <1>3 DEF Judge
  <2>2. a \in Authorizations
    BY <1>3, <2>1 DEF TypeOK
  <2>. QED
    BY <1>3, <2>1, <2>2 DEF Judge, faults
<1>4. ASSUME NEW w \in Requests, Judge(w) PROVE accounts' = accounts /\ restarts' = restarts
  BY <1>4 DEF Judge, faults
<1>5. ASSUME NEW r, NEW c, NEW k, NEW b, Arrive(r, c, k, b)
      PROVE  UNCHANGED <<accounts, authorizations, restarts>>
  BY <1>5 DEF Arrive, store, faults
<1>6. ASSUME NEW type, ChildDeath(type) PROVE UNCHANGED <<accounts, authorizations, restarts>>
  BY <1>6 DEF ChildDeath, store
<1>7. ASSUME NEW r, RequestCallFails(r) \/ WorkerCallFails(r)
      PROVE  UNCHANGED <<accounts, authorizations, restarts>>
  BY <1>7 DEF RequestCallFails, WorkerCallFails, store
<1>. QED
  BY <1>1, <1>2, <1>3, <1>4, <1>5, <1>6, <1>7 DEF Respond

LEMMA VerifyKeepsCsrs ==
  ASSUME Shared, TypeOK, Verify
  PROVE  /\ Shared'
         /\ \A a \in Authorizations : records'[a].csr = records[a].csr
<1>1. authorizations' = [a \in Authorizations |-> authorizations'[a]]
  BY RespondWrites DEF Verify, TypeOK
<1>2. \A a \in Authorizations :
        records[a] = [status |-> records[a].status, csr |-> records[a].csr]
  BY DEF Shared
<1>3. ASSUME NEW a \in Authorizations
      PROVE  records'[a] = [status |-> authorizations'[a], csr |-> records[a].csr]
  <2>1. records'[a] = [records[a] EXCEPT !.status = authorizations'[a]]
    BY DEF Verify
  <2>2. records[a] = [status |-> records[a].status, csr |-> records[a].csr]
    BY <1>2
  <2>. QED
    BY ONLY <2>1, <2>2
<1>4. records' = [a \in Authorizations |-> records'[a]]
  BY DEF Verify
<1>. QED
  BY <1>1, <1>3, <1>4 DEF Shared, StatusesIn

-----------------------------------------------------------------------------
(* Step by step, each component takes one of its own steps, or none.         *)
LEMMA ValidationStep ==
  ASSUME Shared, LifeNext \/ UNCHANGED lifeVars
  PROVE  [Next]_vars
<1>1. CASE Verify
  BY <1>1 DEF Verify, Respond, Next
<1>2. CASE Certify
  BY <1>2, CertifyKeepsStatuses
<1>. QED
  BY <1>1, <1>2 DEF LifeNext, RestartServer, DeactivateAccount, Rest, Quiescent, Next, lifeVars

LEMMA VerifyStep == ASSUME Shared, TypeOK, Verify PROVE [I!Next]_I!vars
<1>1. /\ UNCHANGED certOnly /\ accounts' = accounts /\ restarts' = restarts
      /\ records = [a \in Authorizations |-> records[a]]
      /\ records' = [a \in Authorizations |-> records'[a]]
  BY RespondWrites DEF Verify, Shared
<1>2. ASSUME NEW a \in Authorizations
      PROVE  /\ records[a] = [status |-> authorizations[a], csr |-> records[a].csr]
             /\ records'[a] = [status |-> authorizations'[a], csr |-> records[a].csr]
  <2>1. records[a] = [status |-> authorizations[a], csr |-> records[a].csr]
    BY DEF Shared, StatusesIn
  <2>2. records'[a] = [records[a] EXCEPT !.status = authorizations'[a]]
    BY DEF Verify
  <2>. QED
    BY ONLY <2>1, <2>2
<1>3. CASE authorizations' = authorizations
  <2>1. records' = records
    BY <1>1, <1>2, <1>3
  <2>. QED
    BY <1>1, <2>1 DEF certOnly, I!vars
<1>4. ASSUME NEW a \in Authorizations, authorizations' = [authorizations EXCEPT ![a] = "valid"],
             authorizations' # authorizations
      PROVE  I!Validate(a)
  <2>1. authorizations[a] = "pending" /\ authorizations'[a] = "valid"
        /\ \A b \in Authorizations \ {a} : authorizations'[b] = authorizations[b]
    BY <1>4 DEF TypeOK
  <2>2. \A b \in Authorizations \ {a} : records'[b] = records[b]
    BY <1>2, <2>1
  <2>3. records'[a] = [records[a] EXCEPT !.status = "valid"] /\ records[a].status = "pending"
    <3>1. records[a] = [status |-> "pending", csr |-> records[a].csr]
          /\ records'[a] = [status |-> "valid", csr |-> records[a].csr]
      BY <1>2, <2>1
    <3>. QED
      BY ONLY <3>1
  <2>4. records' = [records EXCEPT ![a] = [records[a] EXCEPT !.status = "valid"]]
    BY <1>1, <2>2, <2>3
  <2>. QED
    BY <1>1, <2>3, <2>4 DEF I!Validate, I!faults, certOnly
<1>. QED
  BY <1>3, <1>4, RespondWrites DEF Verify, I!Next

LEMMA IssuanceStep ==
  ASSUME Shared, TypeOK, LifeNext \/ UNCHANGED lifeVars
  PROVE  [I!Next]_I!vars
<1>1. CASE Certify
  BY <1>1 DEF Certify, I!Next
<1>2. CASE Rest \/ UNCHANGED lifeVars
  BY <1>2 DEF Rest, Quiescent, lifeVars, vars, certOnly, I!vars
<1>. QED
  BY <1>1, <1>2, VerifyStep DEF LifeNext, RestartServer, DeactivateAccount, I!Next

LEMMA SharedStart == LifeInit => Shared
BY DEF LifeInit, Init, I!Init, Shared, StatusesIn

LEMMA SharedStays ==
  ASSUME Shared, TypeOK, LifeNext \/ UNCHANGED lifeVars
  PROVE  Shared'
<1>1. CASE UNCHANGED <<authorizations, records>>
  BY <1>1 DEF Shared, StatusesIn
<1>. QED
  BY <1>1, CertifyKeepsStatuses, VerifyKeepsCsrs
     DEF LifeNext, RestartServer, DeactivateAccount, Restart, Deactivate, I!Restart, I!Deactivate,
         Rest, Quiescent, store, vars, lifeVars

LEMMA IInvStays ==
  ASSUME Shared, IInv, LifeNext \/ UNCHANGED lifeVars
  PROVE  IInv'
BY ValidationStep, NextKeeps

LEMMA SharedAlways == LifeSpec => [](Shared /\ IInv)
<1>1. LifeInit => Shared /\ IInv
  BY SharedStart, InitIInv DEF LifeInit
<1>2. (Shared /\ IInv) /\ [LifeNext]_lifeVars => (Shared /\ IInv)'
  BY SharedStays, IInvStays DEF IInv
<1>. QED
  BY <1>1, <1>2, PTL DEF LifeSpec

(* The response handler and the verification workers are on the shared       *)
(* records what ChallengeValidation says of them alone, so that all theorems *)
(* of ChallengeValidationProofs hold of them here.                           *)
THEOREM ValidationGoesOn == LifeSpec => ValidationKept
<1>1. LifeInit => Init
  BY DEF LifeInit
<1>2. Shared /\ IInv /\ [LifeNext]_lifeVars => [Next]_vars
  BY ValidationStep
<1>. QED
  BY <1>1, <1>2, SharedAlways, PTL DEF LifeSpec, ValidationKept, Spec

(* And new-cert, renew, the polls and the sign worker are what Issuance says *)
(* of them alone, where Validate stands for all the verification workers.    *)
THEOREM IssuanceGoesOn == LifeSpec => IssuanceKept
<1>1. LifeInit => I!Init
  BY DEF LifeInit
<1>2. Shared /\ IInv /\ [LifeNext]_lifeVars => [I!Next]_I!vars
  BY IssuanceStep DEF IInv
<1>. QED
  BY <1>1, <1>2, SharedAlways, PTL DEF LifeSpec, IssuanceKept, I!Spec

-----------------------------------------------------------------------------
(* Where a CSR goes: from the request that sent it to the record of the      *)
(* authorization, from there to the worker, and into the certificate.        *)
Sent(a, csr) ==
  /\ csr \in Csrs /\ DomainsOf[csr] = {DomainOf[a]}
  /\ \E q \in CertRequests :
       /\ certRequest[q].kind = "new" /\ certRequest[q].csr = csr
       /\ certRequest[q].key = KidOf[AccountOf[a]]

Filed(a) ==
  records[a].csr # None => records[a].status = "valid" /\ Sent(a, records[a].csr)

Asks(r) ==
  LET q == certRequest[r] IN
  /\ q.pc = "idle" => q.kind = None
  /\ q.pc \in {"account", "find", "store"} => q.kind = "new" /\ q.csr \in Csrs
  /\ q.pc = "find" => q.account \in Accounts /\ q.key = KidOf[q.account]
  /\ q.pc = "store" =>
       /\ q.authorization \in Authorizations
       /\ records[q.authorization].status = "valid" /\ Sent(q.authorization, q.csr)
  /\ q.pc = "renew" => q.kind = "renew" /\ q.target \in Authorizations \cup {None}
  /\ q.pc = "create" =>
       q.authorization \in Authorizations /\ records[q.authorization].csr # None
  /\ q.pc \in {"create", "signing"} => q.kind \notin I!PollKinds
  /\ q.pc = "der" => I!CertificateOf(r) \in CertRequests
  /\ q.pc \in {"idle", "account", "find", "store", "renew", "create"} => signer[r].pc = "none"

Makes(r) ==
  LET c == certificates[r] IN
  /\ c.status # "none" =>
       c.authorization \in Authorizations /\ records[c.authorization].csr # None
  /\ signer[r].pc # "none" => c.status # "none"
  /\ signer[r].pc = "sign" => Sent(c.authorization, signer[r].csr)
  /\ c.status = "valid" => Sent(c.authorization, c.pem)

Followed ==
  /\ I!TypeOK
  /\ \A a \in Authorizations : Filed(a)
  /\ \A r \in CertRequests : Asks(r) /\ Makes(r)

(* What a request has sent stays, and so do the validity of an authorization *)
(* and that it has a CSR.                                                    *)
Lasts ==
  /\ \A q \in CertRequests : certRequest[q].kind # None =>
       /\ certRequest'[q].kind = certRequest[q].kind
       /\ certRequest'[q].key = certRequest[q].key /\ certRequest'[q].csr = certRequest[q].csr
  /\ \A a \in Authorizations :
       /\ records[a].status = "valid" => records'[a].status = "valid"
       /\ records[a].csr # None => records'[a].csr # None

LEMMA SentLasts ==
  ASSUME Lasts, NEW a, NEW csr, Sent(a, csr)
  PROVE  Sent(a, csr)'
<1>1. PICK q \in CertRequests : /\ certRequest[q].kind = "new" /\ certRequest[q].csr = csr
                                /\ certRequest[q].key = KidOf[AccountOf[a]]
  BY DEF Sent
<1>2. certRequest[q].kind # None
  BY <1>1, LifecycleAssumption
<1>. QED
  BY <1>1, <1>2 DEF Lasts, Sent

LEMMA FiledLasts ==
  ASSUME Lasts, NEW a \in Authorizations, Filed(a), records'[a].csr = records[a].csr
  PROVE  Filed(a)'
BY SentLasts DEF Filed, Lasts

LEMMA AsksLasts ==
  ASSUME Lasts, NEW r \in CertRequests, Asks(r),
         certRequest'[r] = certRequest[r], signer'[r] = signer[r]
  PROVE  Asks(r)'
<1>1. I!CertificateOf(r)' = I!CertificateOf(r)
  BY DEF I!CertificateOf
<1>. QED
  BY <1>1, SentLasts DEF Asks, Lasts

LEMMA MakesLasts ==
  ASSUME Lasts, NEW r \in CertRequests, Makes(r), certificates'[r] = certificates[r],
         \/ signer'[r] = signer[r]
         \/ signer'[r].pc = "none"
         \/ signer'[r].pc = "queued" /\ signer[r].pc # "none"
  PROVE  Makes(r)'
BY SentLasts DEF Makes, Lasts

(* A step of one request that changes no record.                             *)
Keeps(r) ==
  /\ certRequest' \in [CertRequests -> I!RequestRecord]
  /\ \A q \in CertRequests \ {r} : certRequest'[q] = certRequest[q]
  /\ certRequest'[r].kind = certRequest[r].kind /\ certRequest'[r].key = certRequest[r].key
  /\ certRequest'[r].csr = certRequest[r].csr

LEMMA Put ==
  ASSUME I!TypeOK, NEW r \in CertRequests, NEW new \in I!RequestRecord,
         certRequest' = [certRequest EXCEPT ![r] = new],
         new.kind = certRequest[r].kind, new.key = certRequest[r].key,
         new.csr = certRequest[r].csr
  PROVE  Keeps(r) /\ certRequest'[r] = new
BY DEF I!TypeOK, Keeps

LEMMA OnlyRequest ==
  ASSUME Followed, NEW r \in CertRequests, Keeps(r), Asks(r)',
         UNCHANGED <<deferred, accounts, records, certificates, signer, signDeaths, restarts, before>>
  PROVE  Followed'
<1>1. Lasts
  BY DEF Lasts, Keeps
<1>2. I!TypeOK'
  <2>1. I!TypeOK /\ certRequest' \in [CertRequests -> I!RequestRecord]
    BY DEF Followed, Keeps
  <2>. QED
    BY ONLY <2>1, UNCHANGED <<deferred, accounts, records, certificates, signer, signDeaths,
                              restarts, before>>
       DEF I!TypeOK
<1>3. \A a \in Authorizations : Filed(a)'
  BY <1>1, FiledLasts DEF Followed
<1>4. ASSUME NEW q \in CertRequests PROVE Makes(q)'
  <2>1. Makes(q)
    BY DEF Followed
  <2>. QED
    BY <1>1, <2>1, MakesLasts
<1>5. \A q \in CertRequests \ {r} : Asks(q)'
  BY <1>1, AsksLasts DEF Followed, Keeps
<1>. QED
  BY <1>2, <1>3, <1>4, <1>5 DEF Followed

LEMMA RespondKeeps ==
  ASSUME Followed, NEW r \in CertRequests, NEW code \in I!Codes,
         NEW pem \in Csrs \cup {Root, None}, I!Respond(r, code, pem)
  PROVE  Keeps(r) /\ certRequest'[r].pc = "answered"
<1>. DEFINE new == [certRequest[r] EXCEPT !.pc = "answered", !.answer = code, !.body = pem]
<1>1. certRequest[r] \in I!RequestRecord
  BY DEF Followed, I!TypeOK
<1>2. /\ new \in I!RequestRecord /\ new.pc = "answered"
      /\ new.kind = certRequest[r].kind /\ new.key = certRequest[r].key
      /\ new.csr = certRequest[r].csr
  <2>1. "answered" \in I!Pcs
    BY DEF I!Pcs
  <2>2. new \in I!RequestRecord
    BY ONLY <1>1, <2>1, code \in I!Codes, pem \in Csrs \cup {Root, None} DEF I!RequestRecord
  <2>. QED
    BY ONLY <1>1, <2>2 DEF I!RequestRecord
<1>3. certRequest' = [certRequest EXCEPT ![r] = new]
  BY DEF Followed, I!TypeOK, I!Respond
<1>. HIDE DEF new
<1>4. Keeps(r) /\ certRequest'[r] = new
  BY ONLY <1>2, <1>3, Followed, r \in CertRequests, Put DEF Followed
<1>. QED
  BY <1>2, <1>4

LEMMA Answering ==
  ASSUME Followed, NEW r \in CertRequests, NEW code \in I!Codes,
         NEW pem \in Csrs \cup {Root, None}, I!Respond(r, code, pem),
         UNCHANGED <<deferred, accounts, records, certificates, signer, signDeaths, restarts, before>>
  PROVE  Followed'
<1>1. Keeps(r) /\ Asks(r)'
  BY RespondKeeps DEF Asks
<1>. QED
  BY <1>1, OnlyRequest

LEMMA FindAccountFollows ==
  ASSUME Followed, NEW r \in CertRequests, I!FindAccount(r)
  PROVE  Followed'
<1>. DEFINE found == {a \in Accounts : KidOf[a] = certRequest[r].key}
<1>1. /\ certRequest[r].pc = "account" /\ Asks(r)
      /\ UNCHANGED <<deferred, accounts, records, certificates, signer, signDeaths, restarts, before>>
  BY DEF I!FindAccount, I!faults, Followed
<1>2. CASE \E code \in {403, 404, 500} : I!Answer(r, code)
  BY <1>1, <1>2, Answering DEF I!Answer, I!Codes
<1>3. ASSUME NEW a \in found,
             certRequest' = [certRequest EXCEPT ![r].pc = "find", ![r].account = a]
      PROVE  Followed'
  <2>. DEFINE new == [certRequest[r] EXCEPT !.pc = "find", !.account = a]
  <2>1. certRequest[r] \in I!RequestRecord /\ "find" \in I!Pcs
    BY DEF Followed, I!TypeOK, I!Pcs
  <2>2. /\ new \in I!RequestRecord /\ new.pc = "find" /\ new.account = a
        /\ new.kind = certRequest[r].kind /\ new.key = certRequest[r].key
        /\ new.csr = certRequest[r].csr
    BY ONLY <2>1, a \in found DEF I!RequestRecord
  <2>3. certRequest' = [certRequest EXCEPT ![r] = new]
    BY <1>3 DEF Followed, I!TypeOK
  <2>. HIDE DEF new
  <2>4. Keeps(r) /\ certRequest'[r] = new
    BY ONLY <2>2, <2>3, Followed, r \in CertRequests, Put DEF Followed
  <2>5. Asks(r)'
    BY <1>1, <2>2, <2>4 DEF Asks
  <2>. QED
    BY <1>1, <2>4, <2>5, OnlyRequest
<1>. QED
  BY <1>2, <1>3 DEF I!FindAccount

LEMMA FindAuthorizationFollows ==
  ASSUME Followed, NEW r \in CertRequests, I!FindAuthorization(r)
  PROVE  Followed'
<1>1. /\ certRequest[r].pc = "find" /\ Asks(r)
      /\ UNCHANGED <<deferred, accounts, records, certificates, signer, signDeaths, restarts, before>>
  BY DEF I!FindAuthorization, I!faults, Followed
<1>2. CASE \E code \in {422, 500} : I!Answer(r, code)
  BY <1>1, <1>2, Answering DEF I!Answer, I!Codes
<1>3. ASSUME NEW a \in I!Matching(certRequest[r]),
             certRequest' = [certRequest EXCEPT ![r].pc = "store", ![r].authorization = a]
      PROVE  Followed'
  <2>. DEFINE new == [certRequest[r] EXCEPT !.pc = "store", !.authorization = a]
  <2>1. /\ a \in Authorizations /\ records[a].status = "valid"
        /\ AccountOf[a] = certRequest[r].account
        /\ DomainsOf[certRequest[r].csr] = {DomainOf[a]}
    BY DEF I!Matching
  <2>2. certRequest[r] \in I!RequestRecord /\ "store" \in I!Pcs
    BY DEF Followed, I!TypeOK, I!Pcs
  <2>3. /\ new \in I!RequestRecord /\ new.pc = "store" /\ new.authorization = a
        /\ new.kind = certRequest[r].kind /\ new.key = certRequest[r].key
        /\ new.csr = certRequest[r].csr
    BY ONLY <2>1, <2>2 DEF I!RequestRecord
  <2>4. certRequest' = [certRequest EXCEPT ![r] = new]
    BY <1>3 DEF Followed, I!TypeOK
  <2>. HIDE DEF new
  <2>5. Keeps(r) /\ certRequest'[r] = new
    BY ONLY <2>3, <2>4, Followed, r \in CertRequests, Put DEF Followed
  <2>6. /\ new.kind = "new" /\ new.csr \in Csrs /\ new.key = KidOf[AccountOf[a]]
        /\ DomainsOf[new.csr] = {DomainOf[a]} /\ signer[r].pc = "none"
    <3>1. /\ certRequest[r].kind = "new" /\ certRequest[r].csr \in Csrs
          /\ certRequest[r].key = KidOf[certRequest[r].account] /\ signer[r].pc = "none"
      BY ONLY <1>1 DEF Asks
    <3>. QED
      BY ONLY <2>1, <2>3, <3>1
  <2>7. Sent(a, certRequest[r].csr)'
    BY ONLY <2>5, <2>6, r \in CertRequests DEF Sent
  <2>8. Asks(r)'
    BY ONLY <1>1, <2>1, <2>3, <2>5, <2>6, <2>7 DEF Asks, I!PollKinds
  <2>. QED
    BY <1>1, <2>5, <2>8, OnlyRequest
<1>. QED
  BY <1>2, <1>3 DEF I!FindAuthorization

LEMMA ReadAuthorizationFollows ==
  ASSUME Followed, NEW r \in CertRequests, I!ReadAuthorization(r)
  PROVE  Followed'
<1>. DEFINE a == certRequest[r].target
            new == [certRequest[r] EXCEPT !.pc = "create", !.authorization = a]
<1>1. /\ certRequest[r].pc = "renew" /\ Asks(r)
      /\ UNCHANGED <<deferred, accounts, records, certificates, signer, signDeaths, restarts, before>>
  BY DEF I!ReadAuthorization, I!faults, Followed
<1>2. CASE \E code \in {404, 412} : I!Answer(r, code)
  BY <1>1, <1>2, Answering DEF I!Answer, I!Codes
<1>3. CASE /\ a # None /\ records[a].csr # None
           /\ certRequest' = [certRequest EXCEPT ![r].pc = "create", ![r].authorization = a]
  <2>1. a \in Authorizations
    BY <1>1, <1>3 DEF Asks
  <2>2. certRequest[r] \in I!RequestRecord /\ "create" \in I!Pcs
    BY DEF Followed, I!TypeOK, I!Pcs
  <2>3. /\ new \in I!RequestRecord /\ new.pc = "create" /\ new.authorization = a
        /\ new.kind = certRequest[r].kind /\ new.key = certRequest[r].key
        /\ new.csr = certRequest[r].csr
    BY ONLY <2>1, <2>2 DEF I!RequestRecord
  <2>4. certRequest' = [certRequest EXCEPT ![r] = new]
    BY <1>3 DEF Followed, I!TypeOK
  <2>. HIDE DEF new
  <2>5. Keeps(r) /\ certRequest'[r] = new
    BY ONLY <2>3, <2>4, Followed, r \in CertRequests, Put DEF Followed
  <2>6. Asks(r)'
    BY <1>1, <1>3, <2>1, <2>3, <2>5 DEF Asks, I!PollKinds
  <2>. QED
    BY <1>1, <2>5, <2>6, OnlyRequest
<1>. QED
  BY <1>2, <1>3 DEF I!ReadAuthorization

(* What comes after the worker, and the polls, ask for nothing.              *)
LEMMA TellingFollows ==
  ASSUME Followed, NEW r \in CertRequests, I!Finish(r) \/ I!ReadCertificate(r) \/ I!GetDer(r)
  PROVE  Followed'
<1>1. /\ Asks(r)
      /\ UNCHANGED <<deferred, accounts, records, certificates, signer, signDeaths, restarts, before>>
  BY DEF I!Finish, I!ReadCertificate, I!GetDer, I!faults, Followed
<1>2. CASE \E code \in {202, 404, 412, 500} : I!Answer(r, code)
  BY <1>1, <1>2, Answering DEF I!Answer, I!Codes
<1>3. CASE I!Respond(r, 200, Root)
  BY <1>1, <1>3, Answering DEF I!Codes
<1>4. CASE I!GetDer(r)
  <2>. DEFINE pem == certificates[I!CertificateOf(r)].pem
              code == IF certRequest[r].kind = "get" THEN 200 ELSE 201
  <2>1. CASE pem = None
    BY <1>2, <1>4, <2>1 DEF I!GetDer
  <2>2. CASE pem # None
    <3>0. I!CertificateOf(r) \in CertRequests
      BY <1>1, <1>4 DEF I!GetDer, Asks
    <3>1. pem \in Csrs \cup {Root, None} /\ code \in I!Codes /\ I!Respond(r, code, pem)
      BY <1>4, <2>2, <3>0 DEF I!GetDer, I!Codes, Followed, I!TypeOK, I!CertificateRecord
    <3>. HIDE DEF pem, code
    <3>. QED
      BY ONLY <1>1, <3>1, Followed, r \in CertRequests, Answering
  <2>. QED
    BY <1>4, <2>1, <2>2 DEF I!GetDer
<1>5. CASE I!Goto(r, "der") /\ (I!Finish(r) \/ certRequest[r].target \in CertRequests)
  <2>. DEFINE new == [certRequest[r] EXCEPT !.pc = "der"]
  <2>1. certRequest[r] \in I!RequestRecord /\ "der" \in I!Pcs
    BY DEF Followed, I!TypeOK, I!Pcs
  <2>2. /\ new \in I!RequestRecord /\ new.pc = "der"
        /\ new.kind = certRequest[r].kind /\ new.key = certRequest[r].key
        /\ new.csr = certRequest[r].csr /\ new.target = certRequest[r].target
    BY ONLY <2>1 DEF I!RequestRecord
  <2>3. certRequest' = [certRequest EXCEPT ![r] = new]
    BY <1>5 DEF Followed, I!TypeOK, I!Goto
  <2>. HIDE DEF new
  <2>4. Keeps(r) /\ certRequest'[r] = new
    BY ONLY <2>2, <2>3, Followed, r \in CertRequests, Put DEF Followed
  <2>5. I!CertificateOf(r)' \in CertRequests
    <3>1. CASE I!Finish(r)
      BY <1>1, <2>4, <3>1 DEF I!Finish, Asks, I!CertificateOf, Keeps
    <3>2. CASE certRequest[r].target \in CertRequests
      BY <2>2, <2>4, <3>2 DEF I!CertificateOf
    <3>. QED
      BY <1>5, <3>1, <3>2
  <2>6. Asks(r)'
    BY <2>2, <2>4, <2>5 DEF Asks
  <2>. QED
    BY <1>1, <2>4, <2>6, OnlyRequest
<1>. QED
  BY <1>2, <1>3, <1>4, <1>5 DEF I!Finish, I!ReadCertificate

(* Arrivals.                                                                 *)
LEMMA ArriveFollows ==
  ASSUME Followed, NEW r \in CertRequests, NEW new \in I!RequestRecord, I!Arrive(r, new),
         \/ new.pc = "account" /\ new.kind = "new" /\ new.csr \in Csrs
         \/ new.pc = "renew" /\ new.kind = "renew" /\ new.target \in Authorizations \cup {None}
         \/ new.pc = "poll"
  PROVE  Followed'
<1>1. /\ certRequest[r].pc = "idle" /\ certRequest' = [certRequest EXCEPT ![r] = new]
      /\ before' = [before EXCEPT ![r] = {q \in CertRequests : I!Over(q)}]
      /\ UNCHANGED <<deferred, accounts, records, certificates, signer, signDeaths, restarts>>
  BY DEF I!Arrive, I!faults
<1>2. /\ certRequest' \in [CertRequests -> I!RequestRecord] /\ certRequest'[r] = new
      /\ \A q \in CertRequests \ {r} : certRequest'[q] = certRequest[q]
      /\ before' \in [CertRequests -> SUBSET CertRequests]
  BY <1>1 DEF Followed, I!TypeOK
<1>3. certRequest[r].kind = None /\ signer[r].pc = "none"
  BY <1>1 DEF Followed, Asks
<1>4. Lasts
  BY <1>1, <1>2, <1>3 DEF Lasts
<1>5. I!TypeOK'
  <2>1. I!TypeOK
    BY DEF Followed
  <2>. QED
    BY ONLY <1>1, <1>2, <2>1 DEF I!TypeOK
<1>6. \A a \in Authorizations : Filed(a)'
  BY <1>1, <1>4, FiledLasts DEF Followed
<1>7. ASSUME NEW q \in CertRequests PROVE Makes(q)'
  <2>1. Makes(q)
    BY DEF Followed
  <2>. QED
    BY <1>1, <1>4, <2>1, MakesLasts
<1>8. \A q \in CertRequests \ {r} : Asks(q)'
  BY <1>1, <1>2, <1>4, AsksLasts DEF Followed
<1>9. Asks(r)'
  BY <1>1, <1>2, <1>3 DEF Asks
<1>. QED
  BY <1>5, <1>6, <1>7, <1>8, <1>9 DEF Followed

LEMMA ArrivalsFollow ==
  ASSUME Followed, NEW r \in CertRequests,
         \/ \E k \in Kids \cup {None}, csr \in Csrs : I!ArriveNew(r, k, csr)
         \/ \E a \in Authorizations \cup {None} : I!ArriveRenew(r, a)
         \/ \E kind \in I!PollKinds, c \in CertRequests \cup {Root, None} :
              I!ArrivePoll(r, kind, c)
  PROVE  Followed'
<1>. USE DEF I!Idle, I!RequestRecord, I!Pcs, I!Kinds
<1>1. ASSUME NEW k \in Kids \cup {None}, NEW csr \in Csrs, I!ArriveNew(r, k, csr) PROVE Followed'
  BY <1>1, ArriveFollows DEF I!ArriveNew
<1>2. ASSUME NEW a \in Authorizations \cup {None}, I!ArriveRenew(r, a) PROVE Followed'
  BY <1>2, ArriveFollows DEF I!ArriveRenew
<1>3. ASSUME NEW kind \in I!PollKinds, NEW c \in CertRequests \cup {Root, None},
             I!ArrivePoll(r, kind, c) PROVE Followed'
  BY <1>3, ArriveFollows DEF I!ArrivePoll
<1>. QED
  BY <1>1, <1>2, <1>3

-----------------------------------------------------------------------------
(* The steps that take the CSR on.                                           *)
LEMMA GotoKeeps ==
  ASSUME Followed, NEW r \in CertRequests, NEW pc \in I!Pcs, I!Goto(r, pc)
  PROVE  /\ Keeps(r) /\ certRequest'[r].pc = pc
         /\ certRequest'[r].authorization = certRequest[r].authorization
<1>. DEFINE new == [certRequest[r] EXCEPT !.pc = pc]
<1>1. certRequest[r] \in I!RequestRecord
  BY DEF Followed, I!TypeOK
<1>2. /\ new \in I!RequestRecord /\ new.pc = pc
      /\ new.kind = certRequest[r].kind /\ new.key = certRequest[r].key
      /\ new.csr = certRequest[r].csr /\ new.authorization = certRequest[r].authorization
  BY ONLY <1>1, pc \in I!Pcs DEF I!RequestRecord
<1>3. certRequest' = [certRequest EXCEPT ![r] = new]
  BY DEF Followed, I!TypeOK, I!Goto
<1>. HIDE DEF new
<1>4. Keeps(r) /\ certRequest'[r] = new
  BY ONLY <1>2, <1>3, Followed, r \in CertRequests, Put DEF Followed
<1>. QED
  BY <1>2, <1>4

LEMMA StoreCsrFollows ==
  ASSUME Followed, NEW r \in CertRequests, I!StoreCsr(r)
  PROVE  Followed'
<1>. DEFINE a == certRequest[r].authorization
            csr == certRequest[r].csr
<1>1. /\ certRequest[r].pc = "store" /\ I!Goto(r, "create") /\ Asks(r)
      /\ records' = [records EXCEPT ![a].csr = csr]
      /\ UNCHANGED <<deferred, accounts, certificates, signer, signDeaths, restarts, before>>
  BY DEF I!StoreCsr, I!faults, Followed
<1>2. /\ a \in Authorizations /\ records[a].status = "valid" /\ Sent(a, csr)
      /\ certRequest[r].kind = "new" /\ csr \in Csrs /\ signer[r].pc = "none"
  BY <1>1 DEF Asks
<1>3. /\ Keeps(r) /\ certRequest'[r].pc = "create" /\ certRequest'[r].authorization = a
  BY <1>1, GotoKeeps DEF I!Pcs
<1>4. /\ records' \in [Authorizations -> [status : {"pending", "valid"}, csr : Csrs \cup {None}]]
      /\ records'[a].csr = csr /\ records'[a].status = "valid"
      /\ \A b \in Authorizations \ {a} : records'[b] = records[b]
  <2>1. records \in [Authorizations -> [status : {"pending", "valid"}, csr : Csrs \cup {None}]]
    BY DEF Followed, I!TypeOK
  <2>. QED
    BY ONLY <1>1, <1>2, <2>1
<1>5. csr # None
  BY <1>2, LifecycleAssumption
<1>6. Lasts
  <2>1. \A q \in CertRequests :
          /\ certRequest'[q].kind = certRequest[q].kind /\ certRequest'[q].key = certRequest[q].key
          /\ certRequest'[q].csr = certRequest[q].csr
    BY <1>3 DEF Keeps
  <2>2. \A b \in Authorizations :
          /\ records[b].status = "valid" => records'[b].status = "valid"
          /\ records[b].csr # None => records'[b].csr # None
    BY <1>4, <1>5
  <2>. QED
    BY ONLY <2>1, <2>2 DEF Lasts
<1>7. I!TypeOK'
  <2>1. I!TypeOK
    BY DEF Followed
  <2>. QED
    BY ONLY <1>1, <1>3, <1>4, <2>1 DEF I!TypeOK, Keeps
<1>8. ASSUME NEW b \in Authorizations PROVE Filed(b)'
  <2>1. CASE b # a
    BY <2>1, <1>4, <1>6, FiledLasts DEF Followed
  <2>2. CASE b = a
    <3>1. PICK c \in Csrs : c = csr
      BY <1>2
    <3>2. Sent(b, c)'
      BY <3>1, <2>2, <1>2, <1>6, SentLasts
    <3>. QED
      BY <3>1, <3>2, <2>2, <1>4 DEF Filed
  <2>. QED
    BY <2>1, <2>2
<1>9. ASSUME NEW q \in CertRequests PROVE Makes(q)'
  <2>1. Makes(q)
    BY DEF Followed
  <2>. QED
    BY <1>1, <1>6, <2>1, MakesLasts
<1>10. \A q \in CertRequests \ {r} : Asks(q)'
  BY <1>1, <1>3, <1>6, AsksLasts DEF Followed, Keeps
<1>11. Asks(r)'
  BY <1>1, <1>2, <1>3, <1>4, <1>5 DEF Asks, Keeps, I!PollKinds
<1>. QED
  BY <1>7, <1>8, <1>9, <1>10, <1>11 DEF Followed

LEMMA CreateFollows ==
  ASSUME Followed, NEW r \in CertRequests, I!Create(r)
  PROVE  Followed'
<1>. DEFINE a == certRequest[r].authorization
            created == [status |-> "pending", pem |-> None, authorization |-> a]
<1>1. /\ certRequest[r].pc = "create" /\ Asks(r)
      /\ certificates' = [certificates EXCEPT ![r] = created]
      /\ signer' = [signer EXCEPT ![r].pc = "queued"]
      /\ I!Answer(r, 202) \/ I!Goto(r, "signing")
      /\ UNCHANGED <<deferred, accounts, records, signDeaths, restarts, before>>
  BY DEF I!Create, I!faults, Followed
<1>2. /\ a \in Authorizations /\ records[a].csr # None /\ certRequest[r].kind \notin I!PollKinds
  BY <1>1 DEF Asks
<1>3. Keeps(r) /\ certRequest'[r].pc \in {"answered", "signing"}
  <2>1. CASE I!Goto(r, "signing")
    BY <2>1, GotoKeeps DEF I!Pcs
  <2>2. CASE I!Answer(r, 202)
    BY <2>2, RespondKeeps DEF I!Answer, I!Codes
  <2>. QED
    BY <1>1, <2>1, <2>2
<1>4. /\ certificates' \in [CertRequests -> I!CertificateRecord] /\ certificates'[r] = created
      /\ \A q \in CertRequests \ {r} : certificates'[q] = certificates[q]
  <2>1. created \in I!CertificateRecord
    BY <1>2 DEF I!CertificateRecord
  <2>. QED
    BY <1>1, <2>1 DEF Followed, I!TypeOK
<1>5. /\ signer' \in [CertRequests -> [pc : {"none", "queued", "sign", "stored", "done"},
                                       csr : Csrs \cup {None}]]
      /\ signer'[r].pc = "queued"
      /\ \A q \in CertRequests \ {r} : signer'[q] = signer[q]
  BY <1>1 DEF Followed, I!TypeOK
<1>6. Lasts
  BY <1>1, <1>3 DEF Lasts, Keeps
<1>7. I!TypeOK'
  <2>1. I!TypeOK
    BY DEF Followed
  <2>. QED
    BY ONLY <1>1, <1>3, <1>4, <1>5, <2>1 DEF I!TypeOK, Keeps
<1>8. \A b \in Authorizations : Filed(b)'
  BY <1>1, <1>6, FiledLasts DEF Followed
<1>9. ASSUME NEW q \in CertRequests \ {r} PROVE Makes(q)' /\ Asks(q)'
  <2>1. /\ Makes(q) /\ Asks(q) /\ certRequest'[q] = certRequest[q]
        /\ certificates'[q] = certificates[q] /\ signer'[q] = signer[q]
    BY <1>3, <1>4, <1>5 DEF Followed, Keeps
  <2>. QED
    BY <1>6, <2>1, MakesLasts, AsksLasts
<1>10. Makes(r)'
  BY <1>1, <1>2, <1>4, <1>5 DEF Makes
<1>11. Asks(r)'
  BY <1>2, <1>3 DEF Asks, Keeps
<1>. QED
  BY <1>7, <1>8, <1>9, <1>10, <1>11 DEF Followed

(* The worker.                                                               *)
LEMMA SignerFollows ==
  ASSUME Followed, NEW w \in CertRequests,
         signer' \in [CertRequests -> [pc : {"none", "queued", "sign", "stored", "done"},
                                      csr : Csrs \cup {None}]],
         certificates' \in [CertRequests -> I!CertificateRecord],
         \A q \in CertRequests \ {w} :
           signer'[q] = signer[q] /\ certificates'[q] = certificates[q],
         UNCHANGED <<deferred, accounts, records, certRequest, signDeaths, restarts, before>>,
         signer[w].pc # "none", Lasts => Makes(w)'
  PROVE  Followed'
<1>1. Lasts
  BY DEF Lasts
<1>2. I!TypeOK'
  <2>1. I!TypeOK
    BY DEF Followed
  <2>2. certRequest' \in [CertRequests -> I!RequestRecord]
    BY <2>1 DEF I!TypeOK
  <2>. QED
    BY <2>1, <2>2 DEF I!TypeOK
<1>3. \A a \in Authorizations : Filed(a)'
  BY <1>1, FiledLasts DEF Followed
<1>4. ASSUME NEW q \in CertRequests \ {w} PROVE Makes(q)' /\ Asks(q)'
  <2>1. Makes(q) /\ Asks(q) /\ certRequest'[q] = certRequest[q]
    BY DEF Followed
  <2>. QED
    BY <1>1, <2>1, MakesLasts, AsksLasts
<1>5. Asks(w)'
  <2>1. Asks(w) /\ I!CertificateOf(w)' = I!CertificateOf(w)
    BY DEF Followed, I!CertificateOf
  <2>. QED
    BY <1>1, <2>1, SentLasts DEF Asks, Lasts
<1>. QED
  BY <1>1, <1>2, <1>3, <1>4, <1>5 DEF Followed

LEMMA WorkerFollows ==
  ASSUME Followed, NEW w \in CertRequests, I!WorkerStep(w)
  PROVE  Followed'
<1>. DEFINE a == certificates[w].authorization
            Signers == [pc : {"none", "queued", "sign", "stored", "done"}, csr : Csrs \cup {None}]
<1>1. /\ signer \in [CertRequests -> Signers] /\ certificates \in [CertRequests -> I!CertificateRecord]
      /\ Makes(w)
      /\ UNCHANGED <<deferred, accounts, records, certRequest, signDeaths, restarts, before>>
  BY DEF Followed, I!TypeOK, I!WorkerStep, I!ReadCsr, I!Sign, I!Report, I!faults
<1>2. CASE I!ReadCsr(w)
  <2>1. /\ signer[w].pc = "queued" /\ certificates' = certificates
        /\ signer' = [signer EXCEPT ![w] = [pc |-> "sign", csr |-> records[a].csr]]
    BY <1>2 DEF I!ReadCsr
  <2>2. a \in Authorizations /\ records[a].csr # None
    BY <1>1, <2>1 DEF Makes
  <2>3. Sent(a, records[a].csr) /\ records[a].csr \in Csrs
    BY <2>2 DEF Followed, Filed, Sent
  <2>4. /\ signer' \in [CertRequests -> Signers]
        /\ signer'[w].pc = "sign" /\ signer'[w].csr = records[a].csr
        /\ \A q \in CertRequests \ {w} : signer'[q] = signer[q]
    BY <1>1, <2>1, <2>3
  <2>5. ASSUME Lasts PROVE Makes(w)'
    <3>1. PICK x : x = a
      OBVIOUS
    <3>2. PICK c : c = records[a].csr
      OBVIOUS
    <3>3. Sent(x, c)'
      BY <2>3, <2>5, <3>1, <3>2, SentLasts
    <3>4. certificates[w].status = "valid" => Sent(a, certificates[w].pem)'
      <4>1. PICK pem : pem = certificates[w].pem
        OBVIOUS
      <4>2. certificates[w].status = "valid" => Sent(x, pem)'
        BY <1>1, <2>5, <3>1, <4>1, SentLasts DEF Makes
      <4>. QED
        BY <2>1, <3>1, <4>1, <4>2
    <3>. QED
      BY <1>1, <2>1, <2>4, <3>1, <3>2, <3>3, <3>4 DEF Makes
  <2>. QED
    BY <1>1, <2>1, <2>4, <2>5, SignerFollows
<1>3. CASE I!Sign(w)
  <2>. DEFINE signed == [certificates[w] EXCEPT !.status = "valid", !.pem = signer[w].csr]
  <2>1. /\ signer[w].pc = "sign" /\ certificates' = [certificates EXCEPT ![w] = signed]
        /\ signer' = [signer EXCEPT ![w].pc = "stored"]
    BY <1>1, <1>3 DEF I!Sign
  <2>2. /\ a \in Authorizations /\ records[a].csr # None /\ Sent(a, signer[w].csr)
        /\ signer[w].csr \in Csrs
    BY <1>1, <2>1 DEF Makes, Sent
  <2>3. /\ signed \in I!CertificateRecord /\ signed.status = "valid"
        /\ signed.pem = signer[w].csr /\ signed.authorization = a
    BY <1>1, <2>2 DEF I!CertificateRecord
  <2>. HIDE DEF signed
  <2>4. /\ certificates' \in [CertRequests -> I!CertificateRecord] /\ certificates'[w] = signed
        /\ signer' \in [CertRequests -> Signers] /\ signer'[w].pc = "stored"
        /\ \A q \in CertRequests \ {w} :
             signer'[q] = signer[q] /\ certificates'[q] = certificates[q]
    BY <1>1, <2>1, <2>3
  <2>5. ASSUME Lasts PROVE Makes(w)'
    <3>1. PICK x : x = a
      OBVIOUS
    <3>2. PICK c : c = signer[w].csr
      OBVIOUS
    <3>3. Sent(x, c)'
      BY <2>2, <2>5, <3>1, <3>2, SentLasts
    <3>. QED
      BY <1>1, <2>2, <2>3, <2>4, <3>1, <3>2, <3>3 DEF Makes
  <2>. QED
    BY <1>1, <2>1, <2>4, <2>5, SignerFollows
<1>4. CASE I!Report(w)
  <2>1. /\ signer[w].pc = "stored" /\ certificates' = certificates
        /\ signer' = [signer EXCEPT ![w].pc = "done"]
    BY <1>4 DEF I!Report
  <2>2. /\ signer' \in [CertRequests -> Signers] /\ signer'[w].pc = "done"
        /\ \A q \in CertRequests \ {w} : signer'[q] = signer[q]
    BY <1>1, <2>1
  <2>3. ASSUME Lasts PROVE Makes(w)'
    BY <1>1, <2>1, <2>2, <2>3, SentLasts DEF Makes
  <2>. QED
    BY <1>1, <2>1, <2>2, <2>3, SignerFollows
<1>. QED
  BY <1>2, <1>3, <1>4 DEF I!WorkerStep

(* The steps that touch no request's CSR.                                    *)
LEMMA ChildDeathFollows == ASSUME Followed, I!ChildDeath PROVE Followed'
<1>. DEFINE Signers == [pc : {"none", "queued", "sign", "stored", "done"}, csr : Csrs \cup {None}]
<1>1. PICK calls \in SUBSET {w \in CertRequests : I!Active(w)} :
        signer' = [w \in CertRequests |->
          IF w \in calls THEN [pc |-> "queued", csr |-> None] ELSE signer[w]]
  BY DEF I!ChildDeath
<1>2. /\ signDeaths' = signDeaths + 1
      /\ UNCHANGED <<deferred, accounts, records, certificates, certRequest, restarts, before>>
  BY DEF I!ChildDeath
<1>3. /\ signer' \in [CertRequests -> Signers]
      /\ \A w \in CertRequests :
           \/ signer'[w] = signer[w]
           \/ /\ signer[w].pc \in {"queued", "sign", "stored"}
              /\ signer'[w].pc = "queued"
  BY <1>1 DEF Followed, I!TypeOK, I!Active
<1>4. Lasts
  BY <1>2 DEF Lasts
<1>5. I!TypeOK'
  <2>1. I!TypeOK /\ signDeaths' \in Nat
    BY <1>2 DEF Followed, I!TypeOK
  <2>. QED
    BY ONLY <1>2, <1>3, <2>1 DEF I!TypeOK
<1>6. \A a \in Authorizations : Filed(a)'
  BY <1>2, <1>4, FiledLasts DEF Followed
<1>7. ASSUME NEW q \in CertRequests PROVE Asks(q)' /\ Makes(q)'
  <2>1. Asks(q) /\ Makes(q) /\ certRequest'[q] = certRequest[q] /\ certificates' = certificates
        /\ I!CertificateOf(q)' = I!CertificateOf(q)
    BY <1>2 DEF Followed, I!CertificateOf
  <2>2. CASE signer'[q] = signer[q]
    BY <1>4, <2>1, <2>2, AsksLasts, MakesLasts
  <2>3. CASE signer[q].pc \in {"queued", "sign", "stored"} /\ signer'[q].pc = "queued"
    <3>1. Makes(q)'
      BY <1>4, <2>1, <2>3, MakesLasts
    <3>2. certRequest[q].pc \notin {"idle", "account", "find", "store", "renew", "create"}
      BY <2>1, <2>3 DEF Asks
    <3>3. Asks(q)'
      BY ONLY <2>1, <3>2 DEF Asks
    <3>. QED
      BY <3>1, <3>3
  <2>. QED
    BY <1>3, <2>2, <2>3
<1>. QED
  BY <1>5, <1>6, <1>7 DEF Followed

LEMMA RestartFollows == ASSUME Followed, I!Restart PROVE Followed'
<1>1. /\ restarts' = restarts + 1
      /\ certRequest' = [r \in CertRequests |->
           IF I!Busy(r) THEN [certRequest[r] EXCEPT !.pc = "lost"] ELSE certRequest[r]]
      /\ signer' = [w \in CertRequests |-> IF I!Active(w) THEN I!NoWorker ELSE signer[w]]
      /\ UNCHANGED <<deferred, accounts, records, certificates, signDeaths, before>>
  BY DEF I!Restart
<1>2. ASSUME NEW r \in CertRequests
      PROVE  /\ certRequest'[r] \in I!RequestRecord
             /\ certRequest'[r].kind = certRequest[r].kind
             /\ certRequest'[r].key = certRequest[r].key
             /\ certRequest'[r].csr = certRequest[r].csr
             /\ \/ certRequest'[r] = certRequest[r] /\ ~I!Busy(r)
                \/ certRequest'[r].pc = "lost"
  <2>1. certRequest[r] \in I!RequestRecord
    BY DEF Followed, I!TypeOK
  <2>2. CASE I!Busy(r)
    <3>. DEFINE new == [certRequest[r] EXCEPT !.pc = "lost"]
    <3>1. certRequest'[r] = new
      BY <1>1, <2>2
    <3>2. "lost" \in I!Pcs
      BY DEF I!Pcs
    <3>3. /\ new \in I!RequestRecord /\ new.pc = "lost"
          /\ new.kind = certRequest[r].kind /\ new.key = certRequest[r].key
          /\ new.csr = certRequest[r].csr
      BY ONLY <2>1, <3>2 DEF I!RequestRecord
    <3>. HIDE DEF new
    <3>. QED
      BY ONLY <3>1, <3>3
  <2>3. CASE ~I!Busy(r)
    BY <1>1, <2>1, <2>3
  <2>. QED
    BY <2>2, <2>3
<1>3. certRequest' \in [CertRequests -> I!RequestRecord]
  <2>1. certRequest' = [r \in CertRequests |-> certRequest'[r]]
    BY <1>1
  <2>. QED
    BY <1>2, <2>1
<1>4. /\ signer' \in [CertRequests -> [pc : {"none", "queued", "sign", "stored", "done"},
                                       csr : Csrs \cup {None}]]
      /\ \A w \in CertRequests : signer'[w] = signer[w] \/ signer'[w].pc = "none"
  BY <1>1 DEF I!Active, I!NoWorker, Followed, I!TypeOK
<1>5. Lasts
  BY <1>1, <1>2 DEF Lasts
<1>6. I!TypeOK'
  <2>1. I!TypeOK /\ restarts' \in Nat
    BY <1>1 DEF Followed, I!TypeOK
  <2>. QED
    BY ONLY <1>1, <1>3, <1>4, <2>1 DEF I!TypeOK
<1>7. \A a \in Authorizations : Filed(a)'
  BY <1>1, <1>5, FiledLasts DEF Followed
<1>8. ASSUME NEW q \in CertRequests PROVE Asks(q)' /\ Makes(q)'
  <2>1. Asks(q) /\ Makes(q)
    BY DEF Followed
  <2>2. Makes(q)'
    BY <1>1, <1>4, <1>5, <2>1, MakesLasts
  <2>3. CASE certRequest'[q] = certRequest[q] /\ ~I!Busy(q)
    <3>1. certRequest[q].pc \in {"idle", "answered", "lost"}
      BY <2>3 DEF I!Busy, I!Over
    <3>. QED
      BY <1>4, <2>1, <2>2, <2>3, <3>1 DEF Asks
  <2>4. CASE certRequest'[q].pc = "lost"
    BY <2>2, <2>4 DEF Asks
  <2>. QED
    BY <1>2, <2>3, <2>4
<1>. QED
  BY <1>6, <1>7, <1>8 DEF Followed

LEMMA ValidateFollows ==
  ASSUME Followed, NEW a \in Authorizations, I!Validate(a)
  PROVE  Followed'
<1>1. /\ records' = [records EXCEPT ![a].status = "valid"]
      /\ UNCHANGED <<deferred, accounts, certificates, certRequest, signer, signDeaths,
                     restarts, before>>
  BY DEF I!Validate, I!faults
<1>2. /\ records' \in [Authorizations -> [status : {"pending", "valid"}, csr : Csrs \cup {None}]]
      /\ \A b \in Authorizations :
           /\ records'[b].csr = records[b].csr
           /\ records[b].status = "valid" => records'[b].status = "valid"
  <2>1. records \in [Authorizations -> [status : {"pending", "valid"}, csr : Csrs \cup {None}]]
    BY DEF Followed, I!TypeOK
  <2>. QED
    BY ONLY <1>1, <2>1
<1>3. Lasts
  BY <1>1, <1>2 DEF Lasts
<1>4. I!TypeOK'
  <2>1. I!TypeOK
    BY DEF Followed
  <2>. QED
    BY ONLY <1>1, <1>2, <2>1 DEF I!TypeOK
<1>5. \A b \in Authorizations : Filed(b)'
  BY <1>2, <1>3, FiledLasts DEF Followed
<1>6. ASSUME NEW q \in CertRequests PROVE Asks(q)' /\ Makes(q)'
  <2>1. Asks(q) /\ Makes(q)
    BY DEF Followed
  <2>. QED
    BY <1>1, <1>3, <2>1, AsksLasts, MakesLasts
<1>. QED
  BY <1>4, <1>5, <1>6 DEF Followed

LEMMA UnheededFollows ==
  ASSUME Followed, accounts' \in [Accounts -> {"valid", "deactivated"}],
         UNCHANGED <<deferred, records, certificates, certRequest, signer, signDeaths,
                     restarts, before>>
  PROVE  Followed'
<1>1. Lasts
  BY DEF Lasts
<1>2. I!TypeOK'
  <2>1. I!TypeOK
    BY DEF Followed
  <2>. QED
    BY ONLY <2>1, accounts' \in [Accounts -> {"valid", "deactivated"}],
            UNCHANGED <<deferred, records, certificates, certRequest, signer, signDeaths,
                        restarts, before>>
       DEF I!TypeOK
<1>3. \A b \in Authorizations : Filed(b)'
  BY <1>1, FiledLasts DEF Followed
<1>4. ASSUME NEW q \in CertRequests PROVE Asks(q)' /\ Makes(q)'
  <2>1. Asks(q) /\ Makes(q)
    BY DEF Followed
  <2>. QED
    BY <1>1, <2>1, AsksLasts, MakesLasts
<1>. QED
  BY <1>2, <1>3, <1>4 DEF Followed

-----------------------------------------------------------------------------
LEMMA FollowedStart == I!Init => Followed
<1>. SUFFICES ASSUME I!Init PROVE Followed
  OBVIOUS
<1>. USE LifecycleAssumption DEF I!Init
<1>1. I!TypeOK
  BY DEF I!TypeOK, I!CertificateRecord, I!RequestRecord, I!Pcs, I!NoCertificate, I!NoWorker,
         I!Idle
<1>2. \A a \in Authorizations : Filed(a)
  BY DEF Filed
<1>3. \A r \in CertRequests : Asks(r) /\ Makes(r)
  BY DEF Asks, Makes, I!Idle, I!NoCertificate, I!NoWorker
<1>. QED
  BY <1>1, <1>2, <1>3 DEF Followed

LEMMA FollowedNext == ASSUME Followed, [I!Next]_I!vars PROVE Followed'
<1>1. ASSUME NEW r \in CertRequests, I!RequestStep(r) PROVE Followed'
  BY <1>1, FindAccountFollows, FindAuthorizationFollows, StoreCsrFollows,
     ReadAuthorizationFollows, CreateFollows, TellingFollows DEF I!RequestStep
<1>2. ASSUME NEW a \in Accounts, I!Deactivate(a) PROVE Followed'
  <2>1. accounts' \in [Accounts -> {"valid", "deactivated"}]
    BY <1>2 DEF I!Deactivate, Followed, I!TypeOK
  <2>. QED
    BY <1>2, <2>1, UnheededFollows DEF I!Deactivate, I!faults
<1>3. CASE UNCHANGED I!vars
  <2>1. accounts' \in [Accounts -> {"valid", "deactivated"}]
    BY <1>3 DEF I!vars, Followed, I!TypeOK
  <2>. QED
    BY <1>3, <2>1, UnheededFollows DEF I!vars
<1>. QED
  BY <1>1, <1>2, <1>3, ArrivalsFollow, WorkerFollows, ChildDeathFollows, RestartFollows,
     ValidateFollows DEF I!Next, I!Quiescent

LEMMA FollowedAlways == LifeSpec => []Followed
<1>1. LifeInit => Followed
  BY FollowedStart DEF LifeInit
<1>2. Shared /\ IInv /\ Followed /\ [LifeNext]_lifeVars => Followed'
  BY IssuanceStep, FollowedNext DEF IInv
<1>. QED
  BY <1>1, <1>2, SharedAlways, PTL DEF LifeSpec

(* Together: no certificate but of a CSR that was sent with the kid of the   *)
(* account of an authorization, for the domain of this authorization, of     *)
(* which a challenge was answered with a key of that same kid and the answer *)
(* found at its peer, whichever of the two wrote the record in between.      *)
THEOREM CertificatesAreProved == LifeSpec => []CertificateProved
<1>1. ASSUME Shared, IInv, Followed PROVE CertificateProved
  <2>. SUFFICES ASSUME NEW r \in CertRequests, certificates[r].status = "valid"
                PROVE  \E c \in Challenges, q \in CertRequests :
                         /\ AuthorizationOf[c] = certificates[r].authorization
                         /\ proved[c] \cap OwnersKeys(c) # {}
                         /\ DomainsOf[certificates[r].pem] = {DomainOf[AuthorizationOf[c]]}
                         /\ certRequest[q].kind = "new" /\ certRequest[q].key = KidOf[Owner(c)]
                         /\ certRequest[q].csr = certificates[r].pem
    BY DEF CertificateProved
  <2>. DEFINE a == certificates[r].authorization
  <2>1. /\ a \in Authorizations /\ records[a].csr # None /\ Sent(a, certificates[r].pem)
        /\ Filed(a)
    BY <1>1 DEF Followed, Makes
  <2>2. authorizations[a] = "valid"
    BY <1>1, <2>1 DEF Filed, Shared, StatusesIn
  <2>3. PICK c \in Challenges : AuthorizationOf[c] = a /\ OwnersKeys(c) \cap proved[c] # {}
    BY <1>1, <2>1, <2>2 DEF IInv, AuthorizationEarned
  <2>4. PICK q \in CertRequests :
          /\ certRequest[q].kind = "new" /\ certRequest[q].csr = certificates[r].pem
          /\ certRequest[q].key = KidOf[AccountOf[a]]
    BY <2>1 DEF Sent
  <2>. QED
    BY <2>1, <2>3, <2>4 DEF Sent, Owner
<1>2. Shared /\ IInv /\ Followed => CertificateProved
  BY <1>1
<1>. QED
  BY <1>2, SharedAlways, FollowedAlways, PTL
=============================================================================
