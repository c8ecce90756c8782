--------------------------- MODULE IssuanceProofs ---------------------------
(* Proofs about Issuance, for any accounts, authorizations, requests and     *)
(* CSRs, any number of deaths and restarts, deferred or not.                 *)
EXTENDS Issuance, TLAPS

-----------------------------------------------------------------------------
(* The inductive invariant.                                                  *)

(* csr is for the domain of a and was sent by the account of a.              *)
Sent(a, csr) ==
  /\ csr \in Csrs /\ DomainsOf[csr] = {DomainOf[a]}
  /\ \E q \in Requests :
       /\ request[q].kind = "new"
       /\ request[q].key = KidOf[AccountOf[a]]
       /\ request[q].csr = csr

(* Another new-cert request for the same authorization that was not over     *)
(* when r arrived.                                                           *)
Rival(r) ==
  \E q \in Requests \ {r} :
    /\ request[q].kind = "new"
    /\ request[q].authorization = request[r].authorization
    /\ q \notin before[r]

(* Whatever CSR an authorization holds may be signed for it.                 *)
Holds(a) ==
  authorizations[a].csr # None =>
    authorizations[a].status = "valid" /\ Sent(a, authorizations[a].csr)

(* What a request has established at each point of its handler.              *)
Stage(r) ==
  LET q == request[r] IN
  /\ q.pc = "idle" => q = Idle
  /\ q.pc # "answered" => q.answer = None
  /\ q.pc \in {"account", "find", "store"} => q.kind = "new" /\ q.csr \in Csrs
  /\ q.pc = "find" => q.account \in Accounts /\ q.key = KidOf[q.account]
  /\ q.pc = "store" =>
       /\ q.authorization \in Authorizations
       /\ authorizations[q.authorization].status = "valid"
       /\ Sent(q.authorization, q.csr)
  /\ q.pc = "renew" => q.kind = "renew" /\ q.target \in Authorizations \cup {None}
  /\ q.pc = "create" =>
       /\ q.kind \in {"new", "renew"} /\ q.authorization \in Authorizations
       /\ authorizations[q.authorization].csr # None
  /\ q.pc = "signing" =>
       /\ q.kind \in {"new", "renew"} /\ ~deferred
       /\ certificates[r].status # "none"
  /\ q.pc = "poll" => q.kind \in PollKinds
  /\ q.pc = "der" =>
       /\ CertificateOf(r) \in Requests
       /\ certificates[CertificateOf(r)].status = "valid"
       /\ q.kind \in {"new", "renew"} => worker[r].pc = "done"
  /\ q.pc \in {"account", "find", "renew", "poll"} => q.authorization = None
  /\ q.pc \in {"idle", "account", "find", "store", "renew", "create", "poll"} =>
       certificates[r].status = "none"

(* What an answer has told.                                                  *)
Told(r) ==
  /\ request[r].answer = 202 /\ ~deferred => request[r].kind \notin {"new", "renew"}
  /\ request[r].answer \in {200, 201} =>
       /\ request[r].kind \in {"new", "renew"} => worker[r].pc = "done"
       /\ \/ request[r].body = Root
          \/ /\ CertificateOf(r) \in Requests
             /\ certificates[CertificateOf(r)].status = "valid"
             /\ request[r].body # None
             /\ request[r].body = certificates[CertificateOf(r)].pem
          \/ deaths > 0 /\ request[r].kind \in PollKinds

(* The certificate of r and its worker.                                      *)
Certified(r) ==
  LET c == certificates[r] w == worker[r] IN
  /\ c.status # "none" =>
       /\ request[r].kind \in {"new", "renew"}
       /\ c.authorization \in Authorizations
       /\ authorizations[c.authorization].csr # None
       /\ request[r].kind = "new" => c.authorization = request[r].authorization
  /\ c.status = "valid" => Sent(c.authorization, c.pem)
  /\ w.pc # "none" => c.status # "none"
  /\ w.pc = "sign" => Sent(c.authorization, w.csr)
  /\ w.pc \in {"stored", "done"} => c.status = "valid"
  /\ w.pc \in {"queued", "sign"} /\ deaths = 0 => c.status # "valid"

(* Where the CSR of r is, unless it has a rival.                             *)
Own(r) ==
  request[r].kind = "new" =>
    \/ Rival(r)
    \/ /\ request[r].pc = "create" \/ certificates[r].status # "none" =>
            authorizations[request[r].authorization].csr = request[r].csr
       /\ worker[r].pc = "sign" => worker[r].csr = request[r].csr
       /\ certificates[r].status = "valid" => certificates[r].pem = request[r].csr

BeforeIsOver == \A r \in Requests : \A q \in before[r] : Over(q)

IInv ==
  /\ TypeOK
  /\ \A a \in Authorizations : Holds(a)
  /\ \A r \in Requests : Stage(r) /\ Told(r) /\ Certified(r) /\ Own(r)
  /\ BeforeIsOver

-----------------------------------------------------------------------------
(* What every step keeps.                                                    *)
Grows ==
  /\ \A q \in Requests :
       /\ request[q].kind # None =>
            /\ request'[q].kind = request[q].kind /\ request'[q].key = request[q].key
            /\ request'[q].csr = request[q].csr
       /\ request[q].authorization # None =>
            request'[q].authorization = request[q].authorization
       /\ Over(q) => request'[q] = request[q]
  /\ \A a \in Authorizations :
       /\ authorizations[a].status = "valid" => authorizations'[a].status = "valid"
       /\ authorizations[a].csr # None => authorizations'[a].csr # None
  /\ \A c \in Requests : certificates[c].status = "valid" =>
       /\ certificates'[c].status = "valid"
       /\ certificates'[c].pem = certificates[c].pem \/ deaths > 0
  /\ deferred' = deferred
  /\ deaths' \in Nat /\ deaths' >= deaths

LEMMA SentGrows ==
  ASSUME Grows, NEW a, NEW csr, Sent(a, csr)
  PROVE  Sent(a, csr)'
<1>1. PICK q \in Requests : /\ request[q].kind = "new"
                            /\ request[q].key = KidOf[AccountOf[a]]
                            /\ request[q].csr = csr
  BY DEF Sent
<1>2. request[q].kind # None
  BY <1>1, IssuanceAssumption DEF Kinds
<1>. QED
  BY <1>1, <1>2 DEF Grows, Sent

LEMMA RivalGrows ==
  ASSUME Grows, NEW r \in Requests, Rival(r),
         request[r].authorization # None, before'[r] = before[r]
  PROVE  Rival(r)'
<1>1. PICK q \in Requests \ {r} : /\ request[q].kind = "new"
                                  /\ request[q].authorization = request[r].authorization
                                  /\ q \notin before[r]
  BY DEF Rival
<1>2. request[q].kind # None
  BY <1>1, IssuanceAssumption DEF Kinds
<1>. QED
  BY <1>1, <1>2 DEF Grows, Rival

LEMMA HoldsGrows ==
  ASSUME IInv, Grows, NEW a \in Authorizations, authorizations'[a].csr = authorizations[a].csr
  PROVE  Holds(a)'
BY SentGrows DEF IInv, Holds, Grows

LEMMA BeforeGrows ==
  ASSUME IInv, Grows, UNCHANGED before
  PROVE  BeforeIsOver'
BY DEF IInv, TypeOK, BeforeIsOver, Grows, Over

(* A request that a step does not touch stays where it is, ...               *)
LEMMA Untouched ==
  ASSUME IInv, Grows, NEW q \in Requests,
         request'[q] = request[q], certificates'[q] = certificates[q],
         worker'[q] = worker[q]
  PROVE  Stage(q)' /\ Told(q)' /\ Certified(q)'
<1>. USE IssuanceAssumption DEF IInv
<1>1. Certified(q)'
  <2>1. Certified(q)
    OBVIOUS
  <2>2. deaths' = 0 => deaths = 0
    BY DEF TypeOK, Grows
  <2>. QED
    BY <2>1, <2>2, SentGrows DEF Certified, Grows
<1>2. Stage(q)'
  <2>1. Stage(q)
    OBVIOUS
  <2>2. CertificateOf(q)' = CertificateOf(q)
    BY DEF CertificateOf
  <2>. QED
    BY <2>1, <2>2, SentGrows DEF Stage, Grows
<1>3. Told(q)'
  <2>1. Told(q)
    OBVIOUS
  <2>2. CertificateOf(q)' = CertificateOf(q)
    BY DEF CertificateOf
  <2>3. deaths > 0 => deaths' > 0
    BY DEF TypeOK, Grows
  <2>4. CASE request[q].kind \in PollKinds
    BY <2>1, <2>2, <2>3, <2>4 DEF Told, Grows
  <2>5. CASE request[q].kind \notin PollKinds
    <3>1. CertificateOf(q) = q
      BY <2>5 DEF CertificateOf
    <3>. QED
      BY <2>1, <2>2, <2>3, <2>5, <3>1 DEF Told, Grows
  <2>. QED
    BY <2>4, <2>5
<1>. QED
  BY <1>1, <1>2, <1>3

(* ... and its CSR too, as long as it is not written over.                   *)
LEMMA OwnUntouched ==
  ASSUME IInv, Grows, NEW q \in Requests, before'[q] = before[q],
         request'[q].kind = request[q].kind, request'[q].csr = request[q].csr,
         request'[q].kind = "new" /\ request'[q].pc = "create" => request[q].pc = "create",
         certificates'[q] = certificates[q], worker'[q] = worker[q],
         request[q].authorization \in Authorizations =>
           authorizations'[request[q].authorization].csr =
             authorizations[request[q].authorization].csr
  PROVE  Own(q)'
<1>. SUFFICES ASSUME request[q].kind = "new" PROVE Own(q)'
  BY DEF Own
<1>. USE IssuanceAssumption DEF IInv
<1>1. CASE request[q].authorization = None
  <2>1. certificates[q].status = "none" /\ worker[q].pc = "none" /\ request[q].pc # "create"
    BY <1>1 DEF Certified, Stage, TypeOK, CertificateRecord
  <2>. QED
    BY <2>1 DEF Own
<1>2. CASE request[q].authorization # None
  <2>1. /\ request[q].authorization \in Authorizations
        /\ request'[q].authorization = request[q].authorization
    BY <1>2 DEF TypeOK, RequestRecord, Grows
  <2>. QED
    BY <1>2, <2>1, RivalGrows DEF Own
<1>. QED
  BY <1>1, <1>2

-----------------------------------------------------------------------------
(* The steps of a request that change no record.                             *)
Keeps(r) ==
  /\ request' \in [Requests -> RequestRecord]
  /\ \A q \in Requests \ {r} : request'[q] = request[q]
  /\ request'[r].kind = request[r].kind /\ request'[r].key = request[r].key
  /\ request'[r].csr = request[r].csr /\ request'[r].target = request[r].target

LEMMA Put ==
  ASSUME TypeOK, NEW r \in Requests, NEW new \in RequestRecord,
         request' = [request EXCEPT ![r] = new]
  PROVE  /\ request' \in [Requests -> RequestRecord] /\ request'[r] = new
         /\ \A q \in Requests \ {r} : request'[q] = request[q]
BY DEF TypeOK

LEMMA GotoKeeps ==
  ASSUME TypeOK, NEW r \in Requests, NEW pc \in Pcs, Goto(r, pc)
  PROVE  /\ Keeps(r) /\ request'[r].pc = pc
         /\ request'[r].account = request[r].account
         /\ request'[r].authorization = request[r].authorization
         /\ request'[r].answer = request[r].answer
<1>. DEFINE new == [request[r] EXCEPT !.pc = pc]
<1>1. request[r] \in RequestRecord
  BY DEF TypeOK
<1>2. /\ new \in RequestRecord /\ new.pc = pc /\ new.answer = request[r].answer
      /\ new.kind = request[r].kind /\ new.key = request[r].key
      /\ new.csr = request[r].csr /\ new.target = request[r].target
      /\ new.account = request[r].account /\ new.authorization = request[r].authorization
  BY <1>1 DEF RequestRecord
<1>3. request' = [request EXCEPT ![r] = new]
  BY DEF TypeOK, Goto
<1>. HIDE DEF new
<1>4. /\ request' \in [Requests -> RequestRecord] /\ request'[r] = new
      /\ \A q \in Requests \ {r} : request'[q] = request[q]
  BY ONLY <1>2, <1>3, r \in Requests, TypeOK, Put
<1>. QED
  BY ONLY <1>2, <1>4 DEF Keeps

(* ... an account is found, or an authorization.                             *)
LEMMA AccountKeeps ==
  ASSUME TypeOK, NEW r \in Requests, NEW a \in Accounts,
         request' = [request EXCEPT ![r].pc = "find", ![r].account = a]
  PROVE  /\ Keeps(r) /\ request'[r].pc = "find" /\ request'[r].account = a
         /\ request'[r].authorization = request[r].authorization
         /\ request'[r].answer = request[r].answer
<1>. DEFINE new == [request[r] EXCEPT !.pc = "find", !.account = a]
<1>1. request[r] \in RequestRecord
  BY DEF TypeOK
<1>2. /\ new \in RequestRecord /\ new.pc = "find" /\ new.answer = request[r].answer
      /\ new.kind = request[r].kind /\ new.key = request[r].key
      /\ new.csr = request[r].csr /\ new.target = request[r].target
      /\ new.account = a /\ new.authorization = request[r].authorization
  BY <1>1 DEF RequestRecord, Pcs
<1>3. request' = [request EXCEPT ![r] = new]
  BY DEF TypeOK
<1>. HIDE DEF new
<1>4. /\ request' \in [Requests -> RequestRecord] /\ request'[r] = new
      /\ \A q \in Requests \ {r} : request'[q] = request[q]
  BY ONLY <1>2, <1>3, r \in Requests, TypeOK, Put
<1>. QED
  BY ONLY <1>2, <1>4 DEF Keeps

LEMMA AuthorizationKeeps ==
  ASSUME TypeOK, NEW r \in Requests, NEW a \in Authorizations, NEW pc \in Pcs,
         request' = [request EXCEPT ![r].pc = pc, ![r].authorization = a]
  PROVE  /\ Keeps(r) /\ request'[r].pc = pc /\ request'[r].authorization = a
         /\ request'[r].answer = request[r].answer
<1>. DEFINE new == [request[r] EXCEPT !.pc = pc, !.authorization = a]
<1>1. request[r] \in RequestRecord
  BY DEF TypeOK
<1>2. /\ new \in RequestRecord /\ new.pc = pc /\ new.answer = request[r].answer
      /\ new.kind = request[r].kind /\ new.key = request[r].key
      /\ new.csr = request[r].csr /\ new.target = request[r].target
      /\ new.authorization = a
  <2>1. new \in RequestRecord
    BY ONLY <1>1, pc \in Pcs, a \in Authorizations DEF RequestRecord
  <2>. QED
    BY ONLY <1>1, <2>1 DEF RequestRecord
<1>3. request' = [request EXCEPT ![r] = new]
  BY DEF TypeOK
<1>. HIDE DEF new
<1>4. /\ request' \in [Requests -> RequestRecord] /\ request'[r] = new
      /\ \A q \in Requests \ {r} : request'[q] = request[q]
  BY ONLY <1>2, <1>3, r \in Requests, TypeOK, Put
<1>. QED
  BY ONLY <1>2, <1>4 DEF Keeps

LEMMA RespondKeeps ==
  ASSUME TypeOK, NEW r \in Requests, NEW code \in Codes, NEW pem \in Csrs \cup {Root, None},
         Respond(r, code, pem)
  PROVE  /\ Keeps(r) /\ request'[r].pc = "answered"
         /\ request'[r].authorization = request[r].authorization
         /\ request'[r].answer = code /\ request'[r].body = pem
<1>. DEFINE new == [request[r] EXCEPT !.pc = "answered", !.answer = code, !.body = pem]
<1>1. request[r] \in RequestRecord
  BY DEF TypeOK
<1>2. /\ new \in RequestRecord /\ new.pc = "answered" /\ new.answer = code /\ new.body = pem
      /\ new.kind = request[r].kind /\ new.key = request[r].key
      /\ new.csr = request[r].csr /\ new.target = request[r].target
      /\ new.authorization = request[r].authorization
  <2>. "answered" \in Pcs
    BY DEF Pcs
  <2>1. new \in RequestRecord
    BY ONLY <1>1, "answered" \in Pcs, code \in Codes, pem \in Csrs \cup {Root, None} DEF RequestRecord
  <2>. QED
    BY ONLY <1>1, <2>1 DEF RequestRecord
<1>3. request' = [request EXCEPT ![r] = new]
  BY DEF TypeOK, Respond
<1>. HIDE DEF new
<1>4. /\ request' \in [Requests -> RequestRecord] /\ request'[r] = new
      /\ \A q \in Requests \ {r} : request'[q] = request[q]
  BY ONLY <1>2, <1>3, r \in Requests, TypeOK, Put
<1>. QED
  BY ONLY <1>2, <1>4 DEF Keeps

LEMMA OnlyRequest ==
  ASSUME IInv, NEW r \in Requests, Keeps(r), ~Over(r),
         UNCHANGED <<deferred, accounts, authorizations, certificates, worker, faults, before>>,
         \/ request'[r].authorization = request[r].authorization
         \/ request[r].authorization = None,
         Stage(r)', Told(r)',
         request'[r].kind = "new" => request'[r].pc # "create"
  PROVE  IInv'
<1>. USE IssuanceAssumption DEF IInv, Keeps
<1>1. Grows
  <2>1. \A q \in Requests :
          /\ request'[q].kind = request[q].kind /\ request'[q].key = request[q].key
          /\ request'[q].csr = request[q].csr
          /\ request[q].authorization # None =>
               request'[q].authorization = request[q].authorization
          /\ Over(q) => request'[q] = request[q]
    OBVIOUS
  <2>. QED
    BY ONLY <2>1, IInv, UNCHANGED <<deferred, authorizations, certificates, faults>>
       DEF Grows, faults, IInv, TypeOK
<1>2. TypeOK'
  BY DEF TypeOK, faults
<1>3. \A a \in Authorizations : Holds(a)'
  BY <1>1, HoldsGrows
<1>4. \A q \in Requests \ {r} : Stage(q)' /\ Told(q)' /\ Certified(q)' /\ Own(q)'
  BY <1>1, Untouched, OwnUntouched
<1>5. Certified(r)'
  <2>1. Certified(r)
    OBVIOUS
  <2>2. certificates[r].status # "none" /\ request[r].kind = "new" =>
          request'[r].authorization = request[r].authorization
    BY <2>1 DEF Certified
  <2>. QED
    BY ONLY <2>1, <2>2, <1>1, SentGrows, request'[r].kind = request[r].kind,
            UNCHANGED <<authorizations, certificates, worker, faults>>
       DEF Certified, faults
<1>6. Own(r)'
  BY <1>1, OwnUntouched
<1>7. BeforeIsOver'
  BY <1>1, BeforeGrows
<1>. QED
  BY <1>2, <1>3, <1>4, <1>5, <1>6, <1>7

LEMMA AnswerInv ==
  ASSUME IInv, NEW r \in Requests, ~Over(r), NEW code \in Codes,
         UNCHANGED <<deferred, accounts, authorizations, certificates, worker, faults, before>>,
         Answer(r, code), code \notin {200, 201},
         code = 202 => deferred \/ request[r].kind \in PollKinds
  PROVE  IInv'
<1>. USE IssuanceAssumption DEF IInv
<1>1. /\ Keeps(r) /\ request'[r].pc = "answered" /\ request'[r].answer = code
      /\ request'[r].authorization = request[r].authorization
  BY RespondKeeps DEF Answer
<1>2. Stage(r)'
  BY <1>1 DEF Stage
<1>3. Told(r)'
  BY <1>1 DEF Told, Keeps, PollKinds
<1>. QED
  BY <1>1, <1>2, <1>3, OnlyRequest

LEMMA FindAccountInv == ASSUME IInv, NEW r \in Requests, FindAccount(r) PROVE IInv'
<1>. USE IssuanceAssumption DEF IInv
<1>. DEFINE found == {a \in Accounts : KidOf[a] = request[r].key}
<1>1. /\ ~Over(r) /\ request[r].pc = "account"
      /\ UNCHANGED <<deferred, accounts, authorizations, certificates, worker, faults, before>>
  BY DEF FindAccount, Over
<1>2. CASE \E code \in {403, 404, 500} : Answer(r, code)
  BY <1>1, <1>2, AnswerInv DEF Codes
<1>3. CASE \E a \in found :
             request' = [request EXCEPT ![r].pc = "find", ![r].account = a]
  <2>1. PICK a \in found : request' = [request EXCEPT ![r].pc = "find", ![r].account = a]
    BY <1>3
  <2>2. /\ Keeps(r) /\ request'[r].pc = "find" /\ request'[r].account = a
        /\ request'[r].authorization = request[r].authorization
        /\ request'[r].answer = request[r].answer
    BY <2>1, AccountKeeps
  <2>3. Stage(r)
    OBVIOUS
  <2>4. Stage(r)' /\ request'[r].kind = "new" /\ request'[r].answer = None
    BY <1>1, <2>2, <2>3 DEF Stage, Keeps
  <2>5. Told(r)'
    BY <2>4 DEF Told, Codes
  <2>. QED
    BY <1>1, <2>2, <2>4, <2>5, OnlyRequest
<1>. QED
  BY <1>2, <1>3 DEF FindAccount

LEMMA FindAuthorizationInv ==
  ASSUME IInv, NEW r \in Requests, FindAuthorization(r) PROVE IInv'
<1>. USE IssuanceAssumption DEF IInv
<1>1. /\ ~Over(r) /\ request[r].pc = "find"
      /\ UNCHANGED <<deferred, accounts, authorizations, certificates, worker, faults, before>>
  BY DEF FindAuthorization, Over
<1>2. CASE \E code \in {422, 500} : Answer(r, code)
  BY <1>1, <1>2, AnswerInv DEF Codes
<1>3. CASE \E a \in Matching(request[r]) :
             request' = [request EXCEPT ![r].pc = "store", ![r].authorization = a]
  <2>1. PICK a \in Matching(request[r]) :
          request' = [request EXCEPT ![r].pc = "store", ![r].authorization = a]
    BY <1>3
  <2>2. /\ a \in Authorizations /\ authorizations[a].status = "valid"
        /\ AccountOf[a] = request[r].account /\ DomainsOf[request[r].csr] = {DomainOf[a]}
    BY DEF Matching
  <2>3. /\ Keeps(r) /\ request'[r].pc = "store" /\ request'[r].authorization = a
        /\ request'[r].answer = request[r].answer
    BY <2>1, <2>2, AuthorizationKeeps DEF Pcs
  <2>4. /\ Stage(r) /\ request[r].kind = "new" /\ request[r].csr \in Csrs
        /\ request[r].key = KidOf[AccountOf[a]] /\ request[r].authorization = None
    BY <1>1, <2>2 DEF Stage
  <2>5. Sent(a, request[r].csr)'
    BY <2>2, <2>3, <2>4 DEF Sent, Keeps
  <2>6. Stage(r)' /\ request'[r].answer = None
    BY <1>1, <2>2, <2>3, <2>4, <2>5 DEF Stage, Keeps
  <2>7. Told(r)'
    BY <2>6 DEF Told, Codes
  <2>. QED
    BY <1>1, <2>3, <2>4, <2>6, <2>7, OnlyRequest
<1>. QED
  BY <1>2, <1>3 DEF FindAuthorization

LEMMA ReadAuthorizationInv ==
  ASSUME IInv, NEW r \in Requests, ReadAuthorization(r) PROVE IInv'
<1>. USE IssuanceAssumption DEF IInv
<1>. DEFINE a == request[r].target
<1>1. /\ ~Over(r) /\ request[r].pc = "renew"
      /\ UNCHANGED <<deferred, accounts, authorizations, certificates, worker, faults, before>>
  BY DEF ReadAuthorization, Over
<1>2. CASE \E code \in {404, 412} : Answer(r, code)
  BY <1>1, <1>2, AnswerInv DEF Codes
<1>3. CASE /\ a # None /\ authorizations[a].csr # None
           /\ request' = [request EXCEPT ![r].pc = "create", ![r].authorization = a]
  <2>1. Stage(r) /\ Told(r) /\ request[r].kind = "renew" /\ a \in Authorizations
    BY <1>1, <1>3 DEF Stage
  <2>3. /\ Keeps(r) /\ request'[r].pc = "create" /\ request'[r].authorization = a
        /\ request'[r].answer = request[r].answer
    BY <1>3, <2>1, AuthorizationKeeps DEF Pcs
  <2>6. Stage(r)' /\ request'[r].answer = None /\ request[r].authorization = None
    BY <1>1, <1>3, <2>1, <2>3 DEF Stage, Keeps
  <2>7. Told(r)'
    BY <2>6 DEF Told, Codes
  <2>. QED
    BY <1>1, <2>1, <2>3, <2>6, <2>7, OnlyRequest DEF Keeps
<1>. QED
  BY <1>2, <1>3 DEF ReadAuthorization

LEMMA FinishInv == ASSUME IInv, NEW r \in Requests, Finish(r) PROVE IInv'
<1>. USE IssuanceAssumption DEF IInv
<1>1. /\ ~Over(r) /\ request[r].pc = "signing" /\ worker[r].pc = "done"
      /\ UNCHANGED <<deferred, accounts, authorizations, certificates, worker, faults, before>>
  BY DEF Finish, Over
<1>2. /\ certificates[r].status = "valid" /\ request[r].kind \in {"new", "renew"}
      /\ request[r].answer = None /\ CertificateOf(r) = r
  BY <1>1 DEF Stage, Certified, CertificateOf, PollKinds
<1>3. Goto(r, "der")
  BY <1>2 DEF Finish
<1>4. /\ Keeps(r) /\ request'[r].pc = "der" /\ request'[r].answer = None
      /\ request'[r].authorization = request[r].authorization
  BY <1>2, <1>3, GotoKeeps DEF Pcs
<1>5. CertificateOf(r)' = r
  BY <1>2, <1>4 DEF Keeps, CertificateOf, PollKinds
<1>6. Stage(r)'
  BY <1>1, <1>2, <1>4, <1>5 DEF Stage
<1>7. Told(r)'
  BY <1>4 DEF Told, Codes
<1>. QED
  BY <1>1, <1>4, <1>6, <1>7, OnlyRequest

LEMMA ReadCertificateInv ==
  ASSUME IInv, NEW r \in Requests, ReadCertificate(r) PROVE IInv'
<1>. USE IssuanceAssumption DEF IInv
<1>. DEFINE c == request[r].target
<1>1. /\ ~Over(r) /\ request[r].pc = "poll"
      /\ UNCHANGED <<deferred, accounts, authorizations, certificates, worker, faults, before>>
  BY DEF ReadCertificate, Over
<1>2. Stage(r) /\ request[r].kind \in PollKinds /\ request[r].answer = None /\ CertificateOf(r) = c
  BY <1>1 DEF Stage, CertificateOf
<1>3. CASE \E code \in {202, 404, 412} : Answer(r, code)
  BY <1>1, <1>2, <1>3, AnswerInv DEF Codes
<1>4. CASE Respond(r, 200, Root)
  <2>1. /\ Keeps(r) /\ request'[r].pc = "answered" /\ request'[r].answer = 200
        /\ request'[r].authorization = request[r].authorization /\ request'[r].body = Root
    BY <1>4, RespondKeeps DEF Codes
  <2>2. Stage(r)'
    BY <2>1 DEF Stage
  <2>3. Told(r)'
    BY <1>2, <2>1 DEF Told, Keeps, PollKinds
  <2>. QED
    BY <1>1, <2>1, <2>2, <2>3, OnlyRequest
<1>5. CASE c \in Requests /\ certificates[c].status = "valid" /\ Goto(r, "der")
  <2>1. /\ Keeps(r) /\ request'[r].pc = "der" /\ request'[r].answer = None
        /\ request'[r].authorization = request[r].authorization
    BY <1>2, <1>5, GotoKeeps DEF Pcs
  <2>2. CertificateOf(r)' = c
    BY <1>2, <2>1 DEF Keeps, CertificateOf
  <2>3. Stage(r)'
    BY <1>1, <1>2, <1>5, <2>1, <2>2 DEF Stage, Keeps, PollKinds
  <2>4. Told(r)'
    BY <2>1 DEF Told, Codes
  <2>. QED
    BY <1>1, <2>1, <2>3, <2>4, OnlyRequest
<1>. QED
  BY <1>3, <1>4, <1>5 DEF ReadCertificate

LEMMA GetDerInv == ASSUME IInv, NEW r \in Requests, GetDer(r) PROVE IInv'
<1>. USE IssuanceAssumption DEF IInv
<1>. DEFINE c == CertificateOf(r)
            pem == certificates[c].pem
            code == IF request[r].kind = "get" THEN 200 ELSE 201
<1>1. /\ ~Over(r) /\ request[r].pc = "der"
      /\ UNCHANGED <<deferred, accounts, authorizations, certificates, worker, faults, before>>
  BY DEF GetDer, Over
<1>2. /\ c \in Requests /\ certificates[c].status = "valid"
      /\ request[r].kind \in {"new", "renew"} => worker[r].pc = "done"
  BY <1>1 DEF Stage
<1>3. pem # None /\ pem \in Csrs /\ code \in Codes
  BY <1>2 DEF Certified, Sent, Codes
<1>4. Respond(r, code, pem)
  BY <1>3 DEF GetDer
<1>5. /\ Keeps(r) /\ request'[r].pc = "answered" /\ request'[r].answer = code
      /\ request'[r].authorization = request[r].authorization /\ request'[r].body = pem
  BY ONLY TypeOK, r \in Requests, <1>3, <1>4, RespondKeeps
<1>6. CertificateOf(r)' = c /\ request'[r].kind = request[r].kind
  BY <1>5 DEF Keeps, CertificateOf
<1>7. Stage(r)'
  BY <1>5 DEF Stage
<1>8. Told(r)'
  BY <1>1, <1>2, <1>3, <1>5, <1>6 DEF Told, PollKinds
<1>. QED
  BY <1>1, <1>5, <1>7, <1>8, OnlyRequest

LEMMA ArriveInv ==
  ASSUME IInv, NEW r \in Requests, NEW new \in RequestRecord, Arrive(r, new),
         new.answer = None, new.authorization = None,
         \/ new.pc = "account" /\ new.kind = "new" /\ new.csr \in Csrs
         \/ new.pc = "renew" /\ new.kind = "renew" /\ new.target \in Authorizations \cup {None}
         \/ new.pc = "poll" /\ new.kind \in PollKinds
  PROVE  IInv'
<1>. USE IssuanceAssumption DEF IInv
<1>1. /\ request[r].pc = "idle" /\ request' = [request EXCEPT ![r] = new]
      /\ before' = [before EXCEPT ![r] = {q \in Requests : Over(q)}]
      /\ UNCHANGED <<deferred, accounts, authorizations, certificates, worker, faults>>
  BY DEF Arrive
<1>2. /\ request' \in [Requests -> RequestRecord] /\ request'[r] = new
      /\ \A q \in Requests \ {r} : request'[q] = request[q] /\ before'[q] = before[q]
      /\ before' \in [Requests -> SUBSET Requests]
      /\ before'[r] = {q \in Requests : Over(q)}
  BY <1>1, Put DEF TypeOK
<1>3. /\ request[r] = Idle /\ request[r].kind = None /\ request[r].authorization = None
      /\ certificates[r].status = "none" /\ worker[r].pc = "none" /\ ~Over(r)
  BY <1>1 DEF Stage, Certified, Idle, Over, TypeOK
<1>4. Grows
  <2>1. \A q \in Requests :
          /\ request[q].kind # None => request'[q] = request[q]
          /\ request[q].authorization # None => request'[q] = request[q]
          /\ Over(q) => request'[q] = request[q]
    BY <1>2, <1>3
  <2>. QED
    BY ONLY <2>1, <1>1, IInv DEF Grows, faults, IInv, TypeOK
<1>5. TypeOK'
  BY <1>1, <1>2 DEF TypeOK, faults
<1>6. \A a \in Authorizations : Holds(a)'
  BY <1>1, <1>4, HoldsGrows
<1>7. \A q \in Requests \ {r} : Stage(q)' /\ Told(q)' /\ Certified(q)' /\ Own(q)'
  BY <1>1, <1>2, <1>4, Untouched, OwnUntouched
<1>8. Stage(r)'
  BY <1>1, <1>2, <1>3 DEF Stage
<1>9. Told(r)' /\ Certified(r)' /\ Own(r)'
  BY <1>1, <1>2, <1>3 DEF Told, Certified, Own, Codes
<1>10. BeforeIsOver'
  BY <1>1, <1>2, <1>3 DEF BeforeIsOver, Over, TypeOK
<1>. QED
  BY <1>5, <1>6, <1>7, <1>8, <1>9, <1>10

LEMMA ArrivalsInv ==
  ASSUME IInv, NEW r \in Requests,
         \/ \E k \in Keys \cup {None}, csr \in Csrs : ArriveNew(r, k, csr)
         \/ \E a \in Authorizations \cup {None} : ArriveRenew(r, a)
         \/ \E kind \in PollKinds, c \in Requests \cup {Root, None} : ArrivePoll(r, kind, c)
  PROVE  IInv'
<1>. USE DEF Idle, RequestRecord, Pcs, Kinds
<1>1. ASSUME NEW k \in Keys \cup {None}, NEW csr \in Csrs, ArriveNew(r, k, csr) PROVE IInv'
  BY <1>1, ArriveInv DEF ArriveNew
<1>2. ASSUME NEW a \in Authorizations \cup {None}, ArriveRenew(r, a) PROVE IInv'
  BY <1>2, ArriveInv DEF ArriveRenew
<1>3. ASSUME NEW kind \in PollKinds, NEW c \in Requests \cup {Root, None},
             ArrivePoll(r, kind, c) PROVE IInv'
  BY <1>3, ArriveInv DEF ArrivePoll
<1>. QED
  BY <1>1, <1>2, <1>3

-----------------------------------------------------------------------------
(* The steps of a request that change a record.                              *)
LEMMA StoreCsrInv == ASSUME IInv, NEW r \in Requests, StoreCsr(r) PROVE IInv'
<1>. USE IssuanceAssumption DEF IInv
<1>. DEFINE a == request[r].authorization
            csr == request[r].csr
<1>1. /\ ~Over(r) /\ request[r].pc = "store" /\ Goto(r, "create")
      /\ authorizations' = [authorizations EXCEPT ![a].csr = csr]
      /\ UNCHANGED <<deferred, accounts, certificates, worker, faults, before>>
  BY DEF StoreCsr, Over
<1>2. /\ Stage(r) /\ a \in Authorizations /\ authorizations[a].status = "valid" /\ Sent(a, csr)
      /\ request[r].kind = "new" /\ csr \in Csrs /\ request[r].answer = None
      /\ certificates[r].status = "none" /\ worker[r].pc = "none"
  BY <1>1 DEF Stage, Certified, TypeOK
<1>3. /\ Keeps(r) /\ request'[r].pc = "create" /\ request'[r].authorization = a
      /\ request'[r].answer = None
  BY <1>1, <1>2, GotoKeeps DEF Pcs
<1>4. /\ authorizations' \in
           [Authorizations -> [status : {"pending", "valid"}, csr : Csrs \cup {None}]]
      /\ authorizations'[a].csr = csr
      /\ \A b \in Authorizations : authorizations'[b].status = authorizations[b].status
      /\ \A b \in Authorizations \ {a} : authorizations'[b] = authorizations[b]
  BY <1>1, <1>2 DEF TypeOK
<1>5. Grows
  <2>1. \A q \in Requests :
          /\ request'[q].kind = request[q].kind /\ request'[q].key = request[q].key
          /\ request'[q].csr = request[q].csr
          /\ request'[q].authorization = request[q].authorization
          /\ Over(q) => request'[q] = request[q]
    BY <1>1, <1>3 DEF Keeps
  <2>2. \A b \in Authorizations :
          /\ authorizations[b].status = "valid" => authorizations'[b].status = "valid"
          /\ authorizations[b].csr # None => authorizations'[b].csr # None
    BY <1>2, <1>4
  <2>. QED
    BY ONLY <1>1, <2>1, <2>2, IInv DEF Grows, faults, IInv, TypeOK
<1>6. TypeOK'
  BY <1>1, <1>3, <1>4 DEF TypeOK, Keeps, faults
<1>7. ASSUME NEW b \in Authorizations PROVE Holds(b)'
  <2>1. CASE b # a
    BY <2>1, <1>4, <1>5, HoldsGrows
  <2>2. CASE b = a
    <3>1. PICK c \in Csrs : c = csr
      BY <1>2
    <3>2. Sent(b, c)'
      BY <3>1, <2>2, <1>2, <1>5, SentGrows
    <3>. QED
      BY <3>1, <3>2, <2>2, <1>2, <1>4 DEF Holds
  <2>. QED
    BY <2>1, <2>2
<1>8. \A q \in Requests \ {r} : Stage(q)' /\ Told(q)' /\ Certified(q)'
  BY <1>1, <1>3, <1>5, Untouched DEF Keeps
<1>9. ASSUME NEW q \in Requests \ {r} PROVE Own(q)'
  <2>1. CASE request[q].authorization # a
    BY <2>1, <1>1, <1>3, <1>4, <1>5, OwnUntouched DEF Keeps
  <2>2. CASE request[q].authorization = a
    <3>1. r \notin before[q]
      BY <1>1 DEF BeforeIsOver
    <3>2. Rival(q)'
      BY <1>1, <1>2, <1>3, <2>2, <3>1 DEF Rival, Keeps
    <3>. QED
      BY <3>2 DEF Own
  <2>. QED
    BY <2>1, <2>2
<1>10. Stage(r)'
  BY <1>1, <1>2, <1>3, <1>4 DEF Stage, Keeps
<1>11. Told(r)' /\ Certified(r)' /\ Own(r)'
  BY <1>1, <1>2, <1>3, <1>4 DEF Told, Certified, Own, Codes, Keeps
<1>12. BeforeIsOver'
  BY <1>1, <1>5, BeforeGrows
<1>. QED
  BY <1>6, <1>7, <1>8, <1>9, <1>10, <1>11, <1>12

LEMMA CreateInv == ASSUME IInv, NEW r \in Requests, Create(r) PROVE IInv'
<1>. USE IssuanceAssumption DEF IInv
<1>. DEFINE a == request[r].authorization
            certificate == [status |-> "pending", pem |-> None, authorization |-> a]
<1>1. /\ ~Over(r) /\ request[r].pc = "create"
      /\ certificates' = [certificates EXCEPT ![r] = certificate]
      /\ worker' = [worker EXCEPT ![r].pc = "queued"]
      /\ UNCHANGED <<deferred, accounts, authorizations, faults, before>>
  BY DEF Create, Over
<1>2. /\ Stage(r) /\ Certified(r) /\ request[r].kind \in {"new", "renew"}
      /\ a \in Authorizations /\ authorizations[a].csr # None
      /\ certificates[r].status = "none" /\ worker[r].pc = "none" /\ request[r].answer = None
  BY <1>1 DEF Stage, Certified, TypeOK
<1>3. /\ Keeps(r) /\ request'[r].authorization = a
      /\ \/ deferred /\ request'[r].pc = "answered" /\ request'[r].answer = 202
         \/ ~deferred /\ request'[r].pc = "signing" /\ request'[r].answer = None
  BY <1>2, GotoKeeps, RespondKeeps DEF Create, Answer, Pcs, Codes
<1>4. /\ certificates' \in [Requests -> CertificateRecord] /\ certificates'[r] = certificate
      /\ \A q \in Requests \ {r} : certificates'[q] = certificates[q]
  BY <1>1, <1>2 DEF TypeOK, CertificateRecord
<1>5. /\ worker' \in [Requests -> [pc : {"none", "queued", "sign", "stored", "done"},
                                   csr : Csrs \cup {None}]]
      /\ worker'[r].pc = "queued"
      /\ \A q \in Requests \ {r} : worker'[q] = worker[q]
  BY <1>1 DEF TypeOK
<1>6. Grows
  <2>1. \A q \in Requests :
          /\ request'[q].kind = request[q].kind /\ request'[q].key = request[q].key
          /\ request'[q].csr = request[q].csr
          /\ request'[q].authorization = request[q].authorization
          /\ Over(q) => request'[q] = request[q]
    BY <1>1, <1>3 DEF Keeps
  <2>2. \A q \in Requests :
          certificates[q].status = "valid" => certificates'[q] = certificates[q]
    BY <1>2, <1>4
  <2>. QED
    BY ONLY <1>1, <2>1, <2>2, IInv DEF Grows, faults, IInv, TypeOK
<1>7. TypeOK'
  BY <1>1, <1>3, <1>4, <1>5 DEF TypeOK, Keeps, faults
<1>8. \A b \in Authorizations : Holds(b)'
  BY <1>1, <1>6, HoldsGrows
<1>9. \A q \in Requests \ {r} : Stage(q)' /\ Told(q)' /\ Certified(q)' /\ Own(q)'
  BY <1>1, <1>3, <1>4, <1>5, <1>6, Untouched, OwnUntouched DEF Keeps
<1>10. Stage(r)' /\ Told(r)'
  BY <1>1, <1>2, <1>3, <1>4 DEF Stage, Told, Keeps, Codes
<1>11. Certified(r)'
  BY <1>1, <1>2, <1>3, <1>4, <1>5 DEF Certified, Keeps
<1>12. Own(r)'
  <2>1. Rival(r) => Rival(r)'
    BY <1>1, <1>2, <1>6, RivalGrows
  <2>2. Own(r)
    OBVIOUS
  <2>3. certificates'[r].status = "pending" /\ worker'[r].pc = "queued"
    BY <1>4, <1>5
  <2>4. /\ request'[r].kind = request[r].kind /\ request'[r].csr = request[r].csr
        /\ request'[r].authorization = a /\ authorizations' = authorizations
    BY <1>1, <1>3 DEF Keeps
  <2>. QED
    BY ONLY <2>1, <2>2, <2>3, <2>4, <1>1 DEF Own
<1>13. BeforeIsOver'
  BY <1>1, <1>6, BeforeGrows
<1>. QED
  BY <1>7, <1>8, <1>9, <1>10, <1>11, <1>12, <1>13

-----------------------------------------------------------------------------
(* The steps of a worker.                                                    *)
LEMMA WorkerMoves ==
  ASSUME IInv, NEW w \in Requests, NEW new,
         new \in [pc : {"none", "queued", "sign", "stored", "done"}, csr : Csrs \cup {None}],
         worker' = [worker EXCEPT ![w] = new],
         UNCHANGED <<deferred, accounts, authorizations, certificates, request, faults, before>>,
         worker[w].pc \in {"queued", "sign", "stored"},
         new.pc = "sign" => /\ worker[w].pc = "queued"
                            /\ new.csr = authorizations[certificates[w].authorization].csr,
         new.pc \in {"stored", "done"} => certificates[w].status = "valid",
         new.pc # "queued"
  PROVE  IInv'
<1>. USE IssuanceAssumption DEF IInv
<1>1. /\ worker'[w] = new /\ \A q \in Requests \ {w} : worker'[q] = worker[q]
      /\ worker' \in [Requests -> [pc : {"none", "queued", "sign", "stored", "done"},
                                   csr : Csrs \cup {None}]]
  BY DEF TypeOK
<1>2. Grows
  BY DEF Grows, faults, TypeOK
<1>3. TypeOK'
  BY <1>1 DEF TypeOK, faults
<1>4. \A b \in Authorizations : Holds(b)'
  BY <1>2, HoldsGrows
<1>5. \A q \in Requests \ {w} : Stage(q)' /\ Told(q)' /\ Certified(q)' /\ Own(q)'
  BY <1>1, <1>2, Untouched, OwnUntouched
<1>6. /\ certificates[w].status # "none" /\ certificates[w].authorization \in Authorizations
      /\ authorizations[certificates[w].authorization].csr # None
      /\ request[w].kind = "new" => certificates[w].authorization = request[w].authorization
  BY DEF Certified
<1>7. new.pc = "sign" => Sent(certificates[w].authorization, new.csr)'
  BY <1>2, <1>6, SentGrows DEF Holds
<1>8. Certified(w)'
  <2>1. Certified(w)
    OBVIOUS
  <2>. QED
    BY <2>1, <1>1, <1>2, <1>7, SentGrows DEF Certified, faults
<1>9. Stage(w)'
  <2>1. Stage(w) /\ CertificateOf(w)' = CertificateOf(w)
    BY DEF CertificateOf
  <2>2. Sent(request[w].authorization, request[w].csr)
          => Sent(request[w].authorization, request[w].csr)'
    BY <1>2, SentGrows
  <2>. QED
    BY <2>1, <2>2, <1>1, <1>6 DEF Stage
<1>10. Told(w)'
  <2>1. Told(w) /\ CertificateOf(w)' = CertificateOf(w)
    BY DEF CertificateOf
  <2>. QED
    BY <2>1, <1>1 DEF Told, faults
<1>11. Own(w)'
  <2>1. Rival(w) => Rival(w)'
    BY DEF Rival
  <2>. QED
    BY <2>1, <1>1, <1>6 DEF Own
<1>12. BeforeIsOver'
  BY <1>2, BeforeGrows
<1>. QED
  BY <1>3, <1>4, <1>5, <1>8, <1>9, <1>10, <1>11, <1>12

LEMMA WorkerInv == ASSUME IInv, NEW w \in Requests, WorkerStep(w) PROVE IInv'
<1>. USE IssuanceAssumption DEF IInv
<1>. DEFINE a == certificates[w].authorization
<1>1. CASE ReadCsr(w)
  <2>. DEFINE new == [pc |-> "sign", csr |-> authorizations[a].csr]
  <2>1. a \in Authorizations /\ authorizations[a].csr \in Csrs \cup {None}
        /\ worker[w].pc = "queued"
    BY <1>1 DEF ReadCsr, Certified, TypeOK
  <2>2. /\ new \in [pc : {"none", "queued", "sign", "stored", "done"}, csr : Csrs \cup {None}]
        /\ new.pc = "sign" /\ new.csr = authorizations[a].csr
        /\ worker' = [worker EXCEPT ![w] = new]
    BY <1>1, <2>1 DEF ReadCsr
  <2>. HIDE DEF new
  <2>. QED
    BY <1>1, <2>1, <2>2, WorkerMoves DEF ReadCsr
<1>2. CASE Report(w)
  <2>. DEFINE new == [worker[w] EXCEPT !.pc = "done"]
  <2>1. worker[w].pc = "stored" /\ certificates[w].status = "valid"
    BY <1>2 DEF Report, Certified
  <2>2. /\ new \in [pc : {"none", "queued", "sign", "stored", "done"}, csr : Csrs \cup {None}]
        /\ new.pc = "done" /\ worker' = [worker EXCEPT ![w] = new]
    BY <1>2 DEF Report, TypeOK
  <2>. HIDE DEF new
  <2>. QED
    BY <1>2, <2>1, <2>2, WorkerMoves DEF Report
<1>3. CASE Sign(w)
  <2>. DEFINE certificate == [certificates[w] EXCEPT !.status = "valid", !.pem = worker[w].csr]
  <2>1. /\ certificates[w].status # "none" /\ a \in Authorizations
        /\ Sent(a, worker[w].csr) /\ worker[w].pc = "sign" /\ worker[w].csr \in Csrs
        /\ certificates[w] \in CertificateRecord
        /\ deaths = 0 => certificates[w].status # "valid"
        /\ UNCHANGED <<deferred, accounts, authorizations, request, faults, before>>
    BY <1>3 DEF Sign, Certified, Sent, TypeOK
  <2>2. /\ certificate \in CertificateRecord /\ certificate.status = "valid"
        /\ certificate.pem = worker[w].csr /\ certificate.authorization = a
    BY <2>1 DEF CertificateRecord
  <2>3. certificates' = [certificates EXCEPT ![w] = certificate]
    BY <1>3 DEF Sign, TypeOK
  <2>. HIDE DEF certificate
  <2>4. /\ certificates' \in [Requests -> CertificateRecord] /\ certificates'[w] = certificate
        /\ \A q \in Requests \ {w} : certificates'[q] = certificates[q]
    BY <2>2, <2>3 DEF TypeOK
  <2>5. /\ worker' \in [Requests -> [pc : {"none", "queued", "sign", "stored", "done"},
                                     csr : Csrs \cup {None}]]
        /\ worker'[w].pc = "stored"
        /\ \A q \in Requests \ {w} : worker'[q] = worker[q]
    BY <1>3 DEF Sign, TypeOK
  <2>6. Grows
    <3>1. \A c \in Requests : certificates[c].status = "valid" =>
            /\ certificates'[c].status = "valid"
            /\ certificates'[c].pem = certificates[c].pem \/ deaths > 0
      BY <2>1, <2>2, <2>4 DEF TypeOK
    <3>. QED
      BY ONLY <3>1, <2>1, IInv DEF Grows, faults, IInv, TypeOK
  <2>7. TypeOK'
    BY <2>1, <2>4, <2>5 DEF TypeOK, faults
  <2>8. \A b \in Authorizations : Holds(b)'
    BY <2>1, <2>6, HoldsGrows
  <2>9. \A q \in Requests \ {w} : Stage(q)' /\ Told(q)' /\ Certified(q)' /\ Own(q)'
    BY <2>1, <2>4, <2>5, <2>6, Untouched, OwnUntouched
  <2>10. Certified(w)'
    <3>1. PICK x : x = a
      OBVIOUS
    <3>2. PICK c : c = worker[w].csr
      OBVIOUS
    <3>3. Sent(x, c)'
      BY <3>1, <3>2, <2>1, <2>6, SentGrows
    <3>4. Certified(w)
      OBVIOUS
    <3>. QED
      BY ONLY <3>1, <3>2, <3>3, <3>4, <2>1, <2>2, <2>4, <2>5 DEF Certified
  <2>11. request[w].pc \notin {"idle", "account", "find", "store", "renew", "create", "poll"}
         /\ Stage(w) /\ Told(w) /\ CertificateOf(w)' = CertificateOf(w)
    BY <2>1 DEF Stage, CertificateOf
  <2>12. request[w].kind \in {"new", "renew"} /\ worker[w].pc # "done" /\ CertificateOf(w) = w
    BY <2>1 DEF Certified, CertificateOf, PollKinds
  <2>13. Stage(w)'
    BY <2>1, <2>2, <2>4, <2>5, <2>11, <2>12 DEF Stage, Grows
  <2>14. Told(w)'
    BY <2>1, <2>2, <2>4, <2>5, <2>6, <2>11, <2>12 DEF Told, Grows, faults
  <2>15. Own(w)'
    <3>1. Own(w) /\ (Rival(w) => Rival(w)')
      BY <2>1 DEF Rival
    <3>. QED
      BY ONLY <3>1, <2>1, <2>2, <2>4, <2>5 DEF Own
  <2>16. BeforeIsOver'
    BY <2>1, <2>6, BeforeGrows
  <2>. QED
    BY <2>7, <2>8, <2>9, <2>10, <2>13, <2>14, <2>15, <2>16
<1>. QED
  BY <1>1, <1>2, <1>3 DEF WorkerStep

-----------------------------------------------------------------------------
(* Deaths, restarts, and what the rest of the server does.                   *)
LEMMA ChildDeathInv == ASSUME IInv, ChildDeath PROVE IInv'
<1>. USE IssuanceAssumption DEF IInv
<1>1. PICK calls \in SUBSET {w \in Requests : Active(w)} :
        worker' = [w \in Requests |->
          IF w \in calls THEN [pc |-> "queued", csr |-> None] ELSE worker[w]]
  BY DEF ChildDeath
<1>2. /\ deaths' = deaths + 1 /\ deaths' # 0 /\ deaths' > 0
      /\ UNCHANGED <<deferred, accounts, authorizations, certificates, request, restarts, before>>
  BY DEF ChildDeath, TypeOK
<1>3. /\ \A w \in calls : /\ w \in Requests /\ worker[w].pc \in {"queued", "sign", "stored"}
                          /\ worker'[w] = [pc |-> "queued", csr |-> None]
      /\ \A w \in Requests \ calls : worker'[w] = worker[w]
      /\ worker' \in [Requests -> [pc : {"none", "queued", "sign", "stored", "done"},
                                   csr : Csrs \cup {None}]]
  BY <1>1 DEF Active, TypeOK
<1>4. Grows
  BY <1>2 DEF Grows, TypeOK
<1>5. TypeOK'
  BY <1>2, <1>3 DEF TypeOK
<1>6. \A b \in Authorizations : Holds(b)'
  BY <1>2, <1>4, HoldsGrows
<1>7. \A q \in Requests \ calls : Stage(q)' /\ Told(q)' /\ Certified(q)' /\ Own(q)'
  BY <1>2, <1>3, <1>4, Untouched, OwnUntouched
<1>8. ASSUME NEW q \in calls PROVE Stage(q)' /\ Told(q)' /\ Certified(q)' /\ Own(q)'
  <2>1. /\ q \in Requests /\ worker[q].pc \in {"queued", "sign", "stored"}
        /\ worker'[q].pc = "queued"
        /\ Stage(q) /\ Told(q) /\ Certified(q) /\ Own(q)
        /\ CertificateOf(q)' = CertificateOf(q)
    BY <1>2, <1>3 DEF CertificateOf
  <2>2. Stage(q)'
    BY <2>1, <1>2, <1>4, SentGrows DEF Stage
  <2>3. Told(q)'
    BY <2>1, <1>2 DEF Told
  <2>4. Certified(q)'
    BY <2>1, <1>2, <1>4, SentGrows DEF Certified
  <2>5. Own(q)'
    <3>1. Rival(q) => Rival(q)'
      BY <1>2 DEF Rival
    <3>. QED
      BY <3>1, <2>1, <1>2 DEF Own
  <2>. QED
    BY <2>2, <2>3, <2>4, <2>5
<1>9. BeforeIsOver'
  BY <1>2, <1>4, BeforeGrows
<1>. QED
  BY <1>5, <1>6, <1>7, <1>8, <1>9

LEMMA RestartInv == ASSUME IInv, Restart PROVE IInv'
<1>. USE IssuanceAssumption DEF IInv
<1>1. /\ restarts' = restarts + 1
      /\ request' = [r \in Requests |->
           IF Busy(r) THEN [request[r] EXCEPT !.pc = "lost"] ELSE request[r]]
      /\ worker' = [w \in Requests |-> IF Active(w) THEN NoWorker ELSE worker[w]]
      /\ UNCHANGED <<deferred, accounts, authorizations, certificates, deaths, before>>
  BY DEF Restart
<1>2. \A r \in Requests :
        /\ request'[r] \in RequestRecord /\ request'[r].kind = request[r].kind
        /\ request'[r].key = request[r].key /\ request'[r].csr = request[r].csr
        /\ request'[r].target = request[r].target /\ request'[r].answer = request[r].answer
        /\ request'[r].authorization = request[r].authorization
        /\ request'[r].body = request[r].body
        /\ Busy(r) => request'[r].pc = "lost"
        /\ ~Busy(r) => request'[r] = request[r]
  <2>. SUFFICES ASSUME NEW r \in Requests
                PROVE  /\ request'[r] \in RequestRecord /\ request'[r].kind = request[r].kind
                       /\ request'[r].key = request[r].key /\ request'[r].csr = request[r].csr
                       /\ request'[r].target = request[r].target
                       /\ request'[r].answer = request[r].answer
                       /\ request'[r].authorization = request[r].authorization
                       /\ request'[r].body = request[r].body
                       /\ Busy(r) => request'[r].pc = "lost"
                       /\ ~Busy(r) => request'[r] = request[r]
    OBVIOUS
  <2>1. request[r] \in RequestRecord
    BY DEF TypeOK
  <2>2. CASE Busy(r)
    <3>. DEFINE new == [request[r] EXCEPT !.pc = "lost"]
    <3>1. request'[r] = new
      BY <1>1, <2>2
    <3>2. /\ new \in RequestRecord /\ new.pc = "lost" /\ new.answer = request[r].answer
          /\ new.kind = request[r].kind /\ new.key = request[r].key
          /\ new.csr = request[r].csr /\ new.target = request[r].target
          /\ new.authorization = request[r].authorization /\ new.body = request[r].body
      BY <2>1 DEF RequestRecord, Pcs
    <3>. HIDE DEF new
    <3>. QED
      BY <3>1, <3>2, <2>2
  <2>3. CASE ~Busy(r)
    <3>1. request'[r] = request[r]
      BY <1>1, <2>3
    <3>. QED
      BY <2>1, <2>3, <3>1
  <2>. QED
    BY <2>2, <2>3
<1>3. /\ worker' \in [Requests -> [pc : {"none", "queued", "sign", "stored", "done"},
                                   csr : Csrs \cup {None}]]
      /\ \A w \in Requests :
           /\ worker'[w].pc \in {"none", "done"}
           /\ worker[w].pc = "done" <=> worker'[w].pc = "done"
  BY <1>1 DEF Active, NoWorker, TypeOK
<1>4. Grows
  BY <1>1, <1>2 DEF Grows, TypeOK, Busy
<1>5. TypeOK'
  BY <1>1, <1>2, <1>3 DEF TypeOK
<1>6. \A b \in Authorizations : Holds(b)'
  BY <1>1, <1>4, HoldsGrows
<1>7. ASSUME NEW q \in Requests PROVE Stage(q)' /\ Told(q)' /\ Certified(q)' /\ Own(q)'
  <2>1. Stage(q) /\ Told(q) /\ Certified(q) /\ Own(q) /\ CertificateOf(q)' = CertificateOf(q)
    BY <1>2 DEF CertificateOf
  <2>2. Stage(q)'
    <3>1. CASE Busy(q)
      BY <3>1, <2>1, <1>1, <1>2 DEF Stage, Busy, Over
    <3>2. CASE ~Busy(q)
      <4>1. request'[q] = request[q] /\ request[q].pc \in {"idle", "answered", "lost"}
        BY <3>2, <1>2 DEF Busy, Over
      <4>. QED
        BY <4>1, <2>1, <1>1 DEF Stage
    <3>. QED
      BY <3>1, <3>2
  <2>3. Told(q)'
    BY <2>1, <1>1, <1>2, <1>3 DEF Told
  <2>4. Certified(q)'
    BY <2>1, <1>1, <1>2, <1>3, <1>4, SentGrows DEF Certified
  <2>5. Own(q)'
    <3>1. Rival(q) => Rival(q)'
      BY <1>1, <1>2 DEF Rival
    <3>2. request'[q].pc = "create" => request[q].pc = "create"
      BY <1>2
    <3>. QED
      BY <3>1, <3>2, <2>1, <1>1, <1>2, <1>3 DEF Own
  <2>. QED
    BY <2>2, <2>3, <2>4, <2>5
<1>8. BeforeIsOver'
  BY <1>1, <1>4, BeforeGrows
<1>. QED
  BY <1>5, <1>6, <1>7, <1>8

LEMMA ValidateInv == ASSUME IInv, NEW a \in Authorizations, Validate(a) PROVE IInv'
<1>. USE IssuanceAssumption DEF IInv
<1>1. /\ authorizations[a].status = "pending"
      /\ authorizations' = [authorizations EXCEPT ![a].status = "valid"]
      /\ UNCHANGED <<deferred, accounts, certificates, request, worker, faults, before>>
  BY DEF Validate
<1>2. /\ authorizations' \in
           [Authorizations -> [status : {"pending", "valid"}, csr : Csrs \cup {None}]]
      /\ \A b \in Authorizations : authorizations'[b].csr = authorizations[b].csr
      /\ \A b \in Authorizations :
           authorizations[b].status = "valid" => authorizations'[b].status = "valid"
  BY <1>1 DEF TypeOK
<1>3. Grows
  BY ONLY <1>1, <1>2, IInv DEF Grows, faults, IInv, TypeOK
<1>4. TypeOK'
  BY <1>1, <1>2 DEF TypeOK, faults
<1>5. \A b \in Authorizations : Holds(b)'
  BY <1>2, <1>3, HoldsGrows
<1>6. \A q \in Requests : Stage(q)' /\ Told(q)' /\ Certified(q)' /\ Own(q)'
  BY <1>1, <1>2, <1>3, Untouched, OwnUntouched
<1>7. BeforeIsOver'
  BY <1>1, <1>3, BeforeGrows
<1>. QED
  BY <1>4, <1>5, <1>6, <1>7

LEMMA DeactivateInv == ASSUME IInv, NEW a \in Accounts, Deactivate(a) PROVE IInv'
<1>. USE IssuanceAssumption DEF IInv
<1>1. UNCHANGED <<deferred, authorizations, certificates, request, worker, faults, before>>
  BY DEF Deactivate
<1>2. Grows
  BY ONLY <1>1, IInv DEF Grows, faults, IInv, TypeOK
<1>3. TypeOK'
  BY <1>1 DEF TypeOK, faults, Deactivate
<1>4. \A b \in Authorizations : Holds(b)'
  BY <1>1, <1>2, HoldsGrows
<1>5. \A q \in Requests : Stage(q)' /\ Told(q)' /\ Certified(q)' /\ Own(q)'
  BY <1>1, <1>2, Untouched, OwnUntouched
<1>6. BeforeIsOver'
  BY <1>1, <1>2, BeforeGrows
<1>. QED
  BY <1>3, <1>4, <1>5, <1>6

LEMMA StutterInv == ASSUME IInv, UNCHANGED vars PROVE IInv'
<1>. USE IssuanceAssumption DEF IInv
<1>1. /\ Grows /\ TypeOK'
      /\ UNCHANGED <<deferred, authorizations, certificates, request, worker, faults, before>>
  BY DEF vars, Grows, faults, TypeOK
<1>2. \A b \in Authorizations : Holds(b)'
  BY <1>1, HoldsGrows
<1>3. \A q \in Requests : Stage(q)' /\ Told(q)' /\ Certified(q)' /\ Own(q)'
  BY <1>1, Untouched, OwnUntouched
<1>4. BeforeIsOver'
  BY <1>1, BeforeGrows
<1>. QED
  BY <1>1, <1>2, <1>3, <1>4

-----------------------------------------------------------------------------
LEMMA InitInv == Init => IInv
<1>. SUFFICES ASSUME Init PROVE IInv
  OBVIOUS
<1>. USE IssuanceAssumption DEF Init
<1>1. TypeOK
  BY DEF TypeOK, CertificateRecord, RequestRecord, Pcs, NoCertificate, NoWorker, Idle
<1>2. \A a \in Authorizations : Holds(a)
  BY DEF Holds
<1>3. \A r \in Requests : Stage(r) /\ Told(r) /\ Certified(r) /\ Own(r)
  BY DEF Stage, Told, Certified, Own, Idle, NoCertificate, NoWorker, Kinds, Codes
<1>. QED
  BY <1>1, <1>2, <1>3 DEF IInv, BeforeIsOver

LEMMA NextInv == ASSUME IInv, [Next]_vars PROVE IInv'
<1>1. ASSUME NEW r \in Requests, RequestStep(r) PROVE IInv'
  BY <1>1, FindAccountInv, FindAuthorizationInv, StoreCsrInv, ReadAuthorizationInv, CreateInv,
     FinishInv, ReadCertificateInv, GetDerInv DEF RequestStep
<1>. QED
  BY <1>1, ArrivalsInv, WorkerInv, ChildDeathInv, RestartInv, ValidateInv, DeactivateInv,
     StutterInv DEF Next, Quiescent

LEMMA Invariance == Spec => []IInv
BY InitInv, NextInv, PTL DEF Spec

(* In every state all records and local copies have their types.             *)
THEOREM TypeCorrect == Spec => []TypeOK
<1>1. IInv => TypeOK
  BY DEF IInv
<1>. QED
  BY <1>1, Invariance, PTL

(* Every certificate is signed for a valid authorization and its domain,     *)
(* from a CSR its own account sent, whatever requests meet on the            *)
(* authorization the CSR goes through, and however often a worker runs.      *)
THEOREM CertificatesAreEarned == Spec => []CertificateEarned
<1>1. IInv => CertificateEarned
  <2>. SUFFICES ASSUME IInv, NEW c \in Requests, certificates[c].status = "valid"
                PROVE  LET a == certificates[c].authorization IN
                       /\ authorizations[a].status = "valid"
                       /\ DomainsOf[certificates[c].pem] = {DomainOf[a]}
                       /\ \E q \in Requests :
                            /\ request[q].kind = "new"
                            /\ request[q].key = KidOf[AccountOf[a]]
                            /\ request[q].csr = certificates[c].pem
    BY DEF CertificateEarned
  <2>. DEFINE a == certificates[c].authorization
  <2>1. a \in Authorizations /\ authorizations[a].csr # None /\ Sent(a, certificates[c].pem)
    BY DEF IInv, Certified
  <2>2. authorizations[a].status = "valid"
    BY <2>1 DEF IInv, Holds
  <2>. QED
    BY <2>1, <2>2 DEF Sent
<1>. QED
  BY <1>1, Invariance, PTL

(* Unless generation is deferred, no request for a certificate is answered   *)
(* with the place to poll: the worker it waits for has always signed.        *)
THEOREM SyncAnswersAreSigned == Spec => []SyncAnswerSigned
<1>1. IInv => SyncAnswerSigned
  BY DEF IInv, SyncAnswerSigned, Told
<1>. QED
  BY <1>1, Invariance, PTL

(* A request gets a certificate for its own CSR unless another one for the   *)
(* same authorization was under way with it: the race of new-cert with       *)
(* itself is the only way to a certificate for someone else's key.           *)
THEOREM OwnCsrIsSigned == Spec => []OwnCsrUnlessRival
<1>1. IInv => OwnCsrUnlessRival
  BY DEF IInv, OwnCsrUnlessRival, Own, Rival
<1>. QED
  BY <1>1, Invariance, PTL

(* The certificate in an answer is the one on record, for ever, unless a     *)
(* child of the farm died and its client polled.                             *)
THEOREM HandedOutStays == Spec => []HandedOutIsRecorded
<1>1. IInv => HandedOutIsRecorded
  BY DEF IInv, HandedOutIsRecorded, Told
<1>. QED
  BY <1>1, Invariance, PTL

-----------------------------------------------------------------------------
(* What waits for a worker, and the worker that it waits for.                *)
Awaits(r) ==
  \/ request[r].pc = "signing"
  \/ request[r].kind \in {"new", "renew"} /\ request[r].answer = 202 /\ restarts = 0

WInv == \A r \in Requests : Awaits(r) => worker[r].pc # "none"

LEMMA WorkersStay ==
  ASSUME TypeOK, [Next]_vars, ~Restart, NEW w \in Requests, worker[w].pc # "none"
  PROVE  worker'[w].pc # "none"
<1>1. worker \in [Requests -> [pc : {"none", "queued", "sign", "stored", "done"},
                               csr : Csrs \cup {None}]]
  BY DEF TypeOK
<1>2. ASSUME UNCHANGED worker PROVE worker'[w].pc # "none"
  BY <1>2
<1>3. ASSUME NEW r \in Requests, RequestStep(r) PROVE worker'[w].pc # "none"
  <2>1. CASE Create(r)
    BY ONLY <1>1, <2>1, worker[w].pc # "none", w \in Requests, r \in Requests DEF Create
  <2>2. CASE ~Create(r)
    BY <1>2, <1>3, <2>2
       DEF RequestStep, FindAccount, FindAuthorization, StoreCsr, ReadAuthorization, Finish,
           ReadCertificate, GetDer
  <2>. QED
    BY <2>1, <2>2
<1>4. ASSUME NEW r \in Requests, WorkerStep(r) PROVE worker'[w].pc # "none"
  <2>1. ASSUME NEW csr, worker' = [worker EXCEPT ![r] = [pc |-> "sign", csr |-> csr]]
        PROVE  worker'[w].pc # "none"
    BY ONLY <1>1, <2>1, worker[w].pc # "none", w \in Requests, r \in Requests
  <2>2. ASSUME NEW pc \in {"stored", "done"}, worker' = [worker EXCEPT ![r].pc = pc]
        PROVE  worker'[w].pc # "none"
    BY ONLY <1>1, <2>2, worker[w].pc # "none", w \in Requests, r \in Requests
  <2>. QED
    BY <1>4, <2>1, <2>2 DEF WorkerStep, ReadCsr, Sign, Report
<1>5. CASE ChildDeath
  BY <1>5 DEF ChildDeath
<1>6. ASSUME NEW r \in Requests,
             \/ \E k \in Keys \cup {None}, csr \in Csrs : ArriveNew(r, k, csr)
             \/ \E a \in Authorizations \cup {None} : ArriveRenew(r, a)
             \/ \E kind \in PollKinds, c \in Requests \cup {Root, None} : ArrivePoll(r, kind, c)
      PROVE  UNCHANGED worker
  <2>1. ASSUME NEW new, Arrive(r, new) PROVE UNCHANGED worker
    BY <2>1 DEF Arrive
  <2>2. /\ \A k, csr : ArriveNew(r, k, csr) => \E new : Arrive(r, new)
        /\ \A a : ArriveRenew(r, a) => \E new : Arrive(r, new)
        /\ \A kind, c : ArrivePoll(r, kind, c) => \E new : Arrive(r, new)
    BY Zenon DEF ArriveNew, ArriveRenew, ArrivePoll
  <2>. QED
    BY ONLY <1>6, <2>1, <2>2
<1>7. ASSUME NEW a, Validate(a) \/ Deactivate(a) PROVE UNCHANGED worker
  BY <1>7 DEF Validate, Deactivate
<1>8. Quiescent \/ UNCHANGED vars => UNCHANGED worker
  BY DEF Quiescent, vars
<1>. QED
  BY ONLY [Next]_vars, ~Restart, <1>2, <1>3, <1>4, <1>5, <1>6, <1>7, <1>8 DEF Next

(* A request that arrives waits for nothing.                                 *)
LEMMA ArrivesAlone ==
  ASSUME TypeOK, NEW r \in Requests, NEW new \in RequestRecord, Arrive(r, new),
         new.pc # "signing", new.answer = None, NEW q \in Requests, Awaits(q)'
  PROVE  Awaits(q)
<1>1. /\ request'[r] = new /\ \A p \in Requests \ {r} : request'[p] = request[p]
      /\ restarts' = restarts
  BY Put DEF Arrive, faults
<1>2. None # 202
  BY IssuanceAssumption DEF Codes
<1>. QED
  BY <1>1, <1>2 DEF Awaits

(* Only with its worker does a request begin to wait.                        *)
LEMMA AwaitsStarted ==
  ASSUME IInv, NEW r \in Requests, RequestStep(r), NEW q \in Requests, ~Awaits(q), Awaits(q)'
  PROVE  worker'[q].pc # "none"
<1>. USE DEF IInv
<1>1. Stage(r) /\ Certified(r) /\ request[r] \in RequestRecord /\ restarts' = restarts
  BY DEF TypeOK, RequestStep, FindAccount, FindAuthorization, StoreCsr, ReadAuthorization,
         Create, Finish, ReadCertificate, GetDer, faults
<1>2. ASSUME Keeps(r), request'[r].pc # "signing",
             request'[r].answer \in {request[r].answer, None} \cup (Codes \ {202})
               \/ request[r].kind \in PollKinds
      PROVE  FALSE
  BY <1>1, <1>2, IssuanceAssumption DEF Keeps, Awaits, PollKinds, Codes
<1>3. ASSUME NEW code \in Codes, Answer(r, code), code # 202 \/ request[r].kind \in PollKinds
      PROVE  FALSE
  BY <1>2, <1>3, RespondKeeps DEF Answer
<1>4. ASSUME NEW code \in {200, 201}, NEW pem \in Csrs \cup {Root, None}, Respond(r, code, pem)
      PROVE  FALSE
  BY <1>2, <1>4, RespondKeeps DEF Codes
<1>5. ASSUME NEW pc \in Pcs \ {"signing"}, Goto(r, pc) PROVE FALSE
  BY <1>2, <1>5, GotoKeeps
<1>6. CASE FindAccount(r)
  BY <1>2, <1>3, <1>6, AccountKeeps DEF FindAccount, Codes
<1>7. CASE FindAuthorization(r)
  <2>1. ASSUME NEW a \in Authorizations,
               request' = [request EXCEPT ![r].pc = "store", ![r].authorization = a]
        PROVE  FALSE
    BY <1>2, <2>1, AuthorizationKeeps DEF Pcs
  <2>. QED
    BY <1>3, <1>7, <2>1 DEF FindAuthorization, Matching, Codes
<1>8. CASE StoreCsr(r)
  BY <1>5, <1>8 DEF StoreCsr, Pcs
<1>9. CASE ReadAuthorization(r)
  <2>1. ASSUME NEW a \in Authorizations,
               request' = [request EXCEPT ![r].pc = "create", ![r].authorization = a]
        PROVE  FALSE
    BY <1>2, <2>1, AuthorizationKeeps DEF Pcs
  <2>2. request[r].target \in Authorizations \cup {None}
    BY <1>1, <1>9 DEF ReadAuthorization, Stage
  <2>. QED
    BY <1>3, <1>9, <2>1, <2>2 DEF ReadAuthorization, Codes
<1>10. CASE Create(r)
  <2>1. worker'[r].pc = "queued"
    BY <1>10 DEF Create, TypeOK
  <2>2. Keeps(r)
    BY <1>10, RespondKeeps, GotoKeeps DEF Create, Answer, Codes, Pcs
  <2>. QED
    BY <1>1, <2>1, <2>2 DEF Keeps, Awaits
<1>11. CASE Finish(r)
  <2>1. request[r].pc = "signing" /\ certificates[r].status = "valid"
    BY <1>1, <1>11 DEF Finish, Certified
  <2>. QED
    BY <1>5, <1>11, <2>1 DEF Finish, Pcs
<1>12. CASE ReadCertificate(r)
  <2>1. request[r].kind \in PollKinds
    BY <1>1, <1>12 DEF ReadCertificate, Stage
  <2>. QED
    BY <1>3, <1>4, <1>5, <1>12, <2>1 DEF ReadCertificate, Codes, Pcs
<1>13. CASE GetDer(r)
  <2>1. certificates[CertificateOf(r)].pem \in Csrs \cup {None}
    BY <1>1, <1>13 DEF GetDer, Stage, TypeOK, CertificateRecord
  <2>. QED
    BY <1>3, <1>4, <1>13, <2>1 DEF GetDer, Codes
<1>. QED
  BY <1>6, <1>7, <1>8, <1>9, <1>10, <1>11, <1>12, <1>13 DEF RequestStep

LEMMA WInvNext == IInv /\ WInv /\ [Next]_vars => WInv'
<1>. SUFFICES ASSUME IInv, WInv, [Next]_vars, NEW q \in Requests, Awaits(q)'
              PROVE  worker'[q].pc # "none"
  BY DEF WInv
<1>. USE DEF IInv
<1>1. ~Restart
  <2>. SUFFICES ASSUME Restart PROVE FALSE
    OBVIOUS
  <2>1. restarts' # 0 /\ request[q] \in RequestRecord
    BY DEF Restart, TypeOK
  <2>2. CASE Busy(q)
    <3>1. request'[q] = [request[q] EXCEPT !.pc = "lost"]
      BY <2>2 DEF Restart
    <3>2. request'[q].pc = "lost"
      BY ONLY <2>1, <3>1 DEF RequestRecord
    <3>. QED
      BY <2>1, <3>2 DEF Awaits
  <2>3. CASE ~Busy(q)
    BY <2>1, <2>3 DEF Restart, Awaits, Busy, Over
  <2>. QED
    BY <2>2, <2>3
<1>2. Awaits(q) => worker'[q].pc # "none"
  BY <1>1, WorkersStay DEF WInv
<1>3. ASSUME NEW r \in Requests, RequestStep(r) PROVE worker'[q].pc # "none"
  BY <1>2, <1>3, AwaitsStarted
<1>4. ASSUME NEW r \in Requests,
             \/ \E k \in Keys \cup {None}, csr \in Csrs : ArriveNew(r, k, csr)
             \/ \E a \in Authorizations \cup {None} : ArriveRenew(r, a)
             \/ \E kind \in PollKinds, c \in Requests \cup {Root, None} : ArrivePoll(r, kind, c)
      PROVE  Awaits(q)
  <2>. USE DEF Idle, RequestRecord, Pcs, Kinds
  <2>1. ASSUME NEW k \in Keys \cup {None}, NEW csr \in Csrs, ArriveNew(r, k, csr) PROVE Awaits(q)
    BY <2>1, ArrivesAlone DEF ArriveNew
  <2>2. ASSUME NEW a \in Authorizations \cup {None}, ArriveRenew(r, a) PROVE Awaits(q)
    BY <2>2, ArrivesAlone DEF ArriveRenew
  <2>3. ASSUME NEW kind \in PollKinds, NEW c \in Requests \cup {Root, None},
               ArrivePoll(r, kind, c)
        PROVE  Awaits(q)
    BY <2>3, ArrivesAlone DEF ArrivePoll
  <2>. QED
    BY <1>4, <2>1, <2>2, <2>3
<1>5. UNCHANGED <<request, restarts>> => Awaits(q)
  BY DEF Awaits
<1>6. ASSUME NEW r \in Requests, WorkerStep(r) PROVE UNCHANGED <<request, restarts>>
  BY <1>6 DEF WorkerStep, ReadCsr, Sign, Report, faults
<1>7. ChildDeath \/ (\E a \in Authorizations : Validate(a)) \/ (\E a \in Accounts : Deactivate(a))
        \/ Quiescent \/ UNCHANGED vars => UNCHANGED <<request, restarts>>
  BY DEF ChildDeath, Validate, Deactivate, Quiescent, vars, faults
<1>. QED
  BY ONLY [Next]_vars, <1>1, <1>2, <1>3, <1>4, <1>5, <1>6, <1>7 DEF Next

LEMMA WInvInit == Init => WInv
BY IssuanceAssumption DEF Init, WInv, Awaits, Idle, Kinds

(* Nobody waits for a worker that is not there.                              *)
THEOREM NobodyIsForgotten == Spec => []NeverForgotten
<1>1. IInv /\ WInv => NeverForgotten
  <2>. SUFFICES ASSUME IInv, WInv, NEW r \in Requests
                PROVE  /\ request[r].pc = "signing" => Active(r) \/ worker[r].pc = "done"
                       /\ request[r].kind \in {"new", "renew"} /\ request[r].answer = 202 =>
                            certificates[r].status = "valid" \/ Active(r) \/ restarts > 0
    BY DEF NeverForgotten
  <2>1. /\ Certified(r) /\ restarts \in Nat
        /\ worker[r].pc \in {"none", "queued", "sign", "stored", "done"}
    BY DEF IInv, TypeOK
  <2>2. Awaits(r) => Active(r) \/ (worker[r].pc = "done" /\ certificates[r].status = "valid")
    BY <2>1 DEF WInv, Active, Certified
  <2>. QED
    BY <2>1, <2>2 DEF Awaits
<1>. QED
  BY <1>1, WInvInit, WInvNext, Invariance, PTL DEF Spec

-----------------------------------------------------------------------------
(* Issuance implements Certification.                                        *)
CStep == [C!CertificationNext]_(C!certificationVars)

Valid == {a \in Authorizations : authorizations[a].status = "valid"}

LEMMA AreFunctions ==
  /\ Filed' = [a \in Authorizations |-> Filed'[a]] /\ Filed = [a \in Authorizations |-> Filed[a]]
  /\ OrderedFor' = [c \in Requests |-> OrderedFor'[c]] /\ OrderedFor = [c \in Requests |-> OrderedFor[c]]
  /\ Drafts' = [c \in Requests |-> Drafts'[c]] /\ Drafts = [c \in Requests |-> Drafts[c]]
  /\ Pems' = [c \in Requests |-> Pems'[c]] /\ Pems = [c \in Requests |-> Pems[c]]
  /\ Tellings' = [r \in Requests |-> Tellings'[r]] /\ Tellings = [r \in Requests |-> Tellings[r]]
BY DEF Filed, OrderedFor, Drafts, Pems, Tellings

(* What each variable of Certification depends on.                           *)
LEMMA SameMessages ==
  ASSUME \A q \in Requests : /\ request'[q].kind = request[q].kind
                             /\ request'[q].key = request[q].key
                             /\ request'[q].csr = request[q].csr
  PROVE  Messages' = Messages
BY DEF Messages

LEMMA SameTelling ==
  ASSUME NEW q \in Requests, request'[q].kind = request[q].kind,
         request'[q].target = request[q].target, request'[q].answer = request[q].answer,
         request'[q].body = request[q].body
  PROVE  Tellings'[q] = Tellings[q]
BY DEF Tellings, CertificateOf

LEMMA SameRecords ==
  /\ UNCHANGED authorizations => Filed' = Filed /\ Valid' = Valid
  /\ UNCHANGED certificates => OrderedFor' = OrderedFor /\ Pems' = Pems
  /\ UNCHANGED worker => Drafts' = Drafts
BY DEF Filed, Valid, OrderedFor, Pems, Drafts

(* What an unanswered request has told its client.                           *)
LEMMA NothingTold ==
  ASSUME NEW r \in Requests, request[r].answer \notin {200, 201} \/ request[r].body = Root
  PROVE  Tellings[r] = {}
BY DEF Tellings

LEMMA NothingToldNext ==
  ASSUME NEW r \in Requests, request'[r].answer \notin {200, 201} \/ request'[r].body = Root
  PROVE  Tellings'[r] = {}
BY DEF Tellings

(* A step that only takes a request on.                                      *)
LEMMA SameTellings ==
  ASSUME IInv, NEW r \in Requests, Keeps(r), request[r].pc # "answered",
         request'[r].answer \notin {200, 201} \/ request'[r].body = Root
  PROVE  Messages' = Messages /\ Tellings' = Tellings
<1>1. \A q \in Requests \ {r} : Tellings'[q] = Tellings[q]
  BY SameTelling DEF Keeps
<1>2. request[r].answer = None
  BY DEF IInv, Stage
<1>3. Tellings[r] = {} /\ Tellings'[r] = {}
  BY <1>2, NothingTold, NothingToldNext, IssuanceAssumption DEF Codes
<1>. QED
  BY <1>1, <1>3, AreFunctions, SameMessages DEF Keeps

LEMMA Unseen ==
  ASSUME Messages' = Messages, Tellings' = Tellings,
         UNCHANGED <<authorizations, certificates, worker, deaths>>
  PROVE  CStep
BY SameRecords DEF CStep, C!certificationVars, Valid

LEMMA AnswerStep ==
  ASSUME IInv, NEW r \in Requests, request[r].pc # "answered", NEW code \in Codes \ {200, 201},
         Answer(r, code)
  PROVE  Messages' = Messages /\ Tellings' = Tellings
<1>1. Keeps(r) /\ request'[r].answer = code
  BY RespondKeeps DEF IInv, Answer
<1>. QED
  BY <1>1, SameTellings

LEMMA GotoStep ==
  ASSUME IInv, NEW r \in Requests, request[r].pc # "answered", NEW pc \in Pcs, Goto(r, pc)
  PROVE  Messages' = Messages /\ Tellings' = Tellings
<1>1. Keeps(r) /\ request'[r].answer = None
  BY GotoKeeps DEF IInv, Stage
<1>. QED
  BY <1>1, SameTellings, IssuanceAssumption DEF Codes

LEMMA ReadsStep ==
  ASSUME IInv, NEW r \in Requests,
         \/ FindAccount(r) \/ FindAuthorization(r) \/ ReadAuthorization(r)
         \/ Finish(r) \/ ReadCertificate(r)
  PROVE  CStep
<1>. USE IssuanceAssumption
<1>1. /\ request[r].pc # "answered"
      /\ UNCHANGED <<authorizations, certificates, worker, deaths>>
  BY DEF FindAccount, FindAuthorization, ReadAuthorization, Finish, ReadCertificate, faults
<1>2. \/ \E code \in Codes \ {200, 201} : Answer(r, code)
      \/ Respond(r, 200, Root)
      \/ Goto(r, "der")
      \/ \E a \in Accounts : request' = [request EXCEPT ![r].pc = "find", ![r].account = a]
      \/ \E a \in Authorizations : \E pc \in {"store", "create"} :
           request' = [request EXCEPT ![r].pc = pc, ![r].authorization = a]
  <2>1. CASE FindAccount(r)
    BY <2>1 DEF FindAccount, Codes
  <2>2. CASE FindAuthorization(r)
    BY <2>2 DEF FindAuthorization, Matching, Codes
  <2>3. CASE ReadAuthorization(r)
    <3>1. request[r].target \in Authorizations \cup {None}
      BY <2>3 DEF IInv, Stage, ReadAuthorization
    <3>. QED
      BY <2>3, <3>1 DEF ReadAuthorization, Codes
  <2>4. CASE Finish(r)
    BY <2>4 DEF Finish, Codes
  <2>5. CASE ReadCertificate(r)
    BY <2>5 DEF ReadCertificate, Codes
  <2>. QED
    BY <2>1, <2>2, <2>3, <2>4, <2>5
<1>3. Messages' = Messages /\ Tellings' = Tellings
  <2>1. CASE \E code \in Codes \ {200, 201} : Answer(r, code)
    BY <1>1, <2>1, AnswerStep
  <2>2. CASE Respond(r, 200, Root)
    <3>1. Keeps(r) /\ request'[r].body = Root
      BY <2>2, RespondKeeps DEF IInv, Codes
    <3>. QED
      BY <1>1, <3>1, SameTellings
  <2>3. CASE Goto(r, "der")
    BY <1>1, <2>3, GotoStep DEF Pcs
  <2>4. ASSUME Keeps(r), request'[r].answer = request[r].answer
        PROVE  Messages' = Messages /\ Tellings' = Tellings
    <3>1. request'[r].answer = None
      BY <1>1, <2>4 DEF IInv, Stage
    <3>. QED
      BY <1>1, <2>4, <3>1, SameTellings DEF Codes
  <2>5. CASE \E a \in Accounts : request' = [request EXCEPT ![r].pc = "find", ![r].account = a]
    BY <2>4, <2>5, AccountKeeps DEF IInv
  <2>6. CASE \E a \in Authorizations : \E pc \in {"store", "create"} :
               request' = [request EXCEPT ![r].pc = pc, ![r].authorization = a]
    BY <2>4, <2>6, AuthorizationKeeps DEF IInv, Pcs
  <2>. QED
    BY <1>2, <2>1, <2>2, <2>3, <2>5, <2>6
<1>. QED
  BY <1>1, <1>3, Unseen

-----------------------------------------------------------------------------
(* The steps that Certification has too.                                     *)
LEMMA ArriveStep ==
  ASSUME IInv, NEW r \in Requests, NEW new \in RequestRecord, Arrive(r, new), new.answer = None
  PROVE  CStep
<1>. USE IssuanceAssumption
<1>1. /\ request[r] = Idle /\ request' = [request EXCEPT ![r] = new]
      /\ UNCHANGED <<authorizations, certificates, worker, deaths>>
  BY DEF IInv, Stage, Arrive, faults
<1>2. request'[r] = new /\ \A q \in Requests \ {r} : request'[q] = request[q]
  BY <1>1, Put DEF IInv
<1>3. Tellings' = Tellings
  <2>1. \A q \in Requests \ {r} : Tellings'[q] = Tellings[q]
    BY <1>2, SameTelling
  <2>2. Tellings[r] = {} /\ Tellings'[r] = {}
    BY <1>1, <1>2, NothingTold, NothingToldNext DEF Idle, Codes
  <2>3. \A q \in Requests : Tellings'[q] = Tellings[q]
    BY <2>1, <2>2
  <2>. QED
    BY <2>3, AreFunctions
<1>4. Messages' = Messages \/ Messages' = Messages \cup {<<new.key, new.csr>>}
  BY <1>1, <1>2 DEF Messages, Idle, Kinds
<1>5. CASE Messages' = Messages
  BY <1>1, <1>3, <1>5, Unseen
<1>6. CASE Messages' = Messages \cup {<<new.key, new.csr>>}
  <2>1. \E message \in Messages' : Messages' = Messages \cup {message}
    BY <1>6
  <2>2. C!Send
    BY <1>1, <1>3, <2>1, SameRecords DEF C!Send, Valid
  <2>. QED
    BY <2>2 DEF CStep, C!CertificationNext
<1>. QED
  BY <1>4, <1>5, <1>6

LEMMA StoreCsrStep == ASSUME IInv, NEW r \in Requests, StoreCsr(r) PROVE CStep
<1>. USE IssuanceAssumption
<1>1. /\ request[r].pc = "store" /\ Goto(r, "create")
      /\ UNCHANGED <<certificates, worker, deaths>>
  BY DEF StoreCsr, faults
<1>2. Messages' = Messages /\ Tellings' = Tellings
  BY <1>1, GotoStep DEF Pcs
<1>3. PICK a : a = request[r].authorization
  OBVIOUS
<1>4. PICK csr : csr = request[r].csr
  OBVIOUS
<1>5. /\ a \in Authorizations /\ authorizations[a].status = "valid" /\ Sent(a, csr)
      /\ authorizations' = [authorizations EXCEPT ![a].csr = csr]
  BY <1>1, <1>3, <1>4 DEF IInv, Stage, StoreCsr
<1>6. /\ authorizations'[a].csr = csr /\ authorizations'[a].status = "valid"
      /\ \A b \in Authorizations \ {a} : authorizations'[b] = authorizations[b]
  BY <1>5 DEF IInv, TypeOK
<1>7. Valid' = Valid
  BY <1>5, <1>6 DEF Valid
<1>8. Filed' = [Filed EXCEPT ![a] = {csr}]
  <2>1. Filed'[a] = {csr}
    BY <1>5, <1>6 DEF Filed, Sent
  <2>2. \A b \in Authorizations \ {a} : Filed'[b] = Filed[b]
    BY <1>6 DEF Filed
  <2>. QED
    BY <1>5, <2>1, <2>2, AreFunctions
<1>9. <<KidOf[AccountOf[a]], csr>> \in Messages
  BY <1>5 DEF Sent, Messages
<1>10. C!File(a)
  <2>1. a \in Valid /\ <<a, csr>> \in {f \in Authorizations \X Csrs : DomainsOf[f[2]] = {DomainOf[f[1]]}}
    BY <1>5 DEF Valid, Sent
  <2>. QED
    BY <1>1, <1>2, <1>5, <1>7, <1>8, <1>9, <2>1, SameRecords DEF C!File, Valid
<1>. QED
  BY <1>5, <1>10 DEF CStep, C!CertificationNext

LEMMA CreateStep == ASSUME IInv, NEW r \in Requests, Create(r) PROVE CStep
<1>. USE IssuanceAssumption
<1>1. PICK a : a = request[r].authorization
  OBVIOUS
<1>2. PICK made : made = [status |-> "pending", pem |-> None, authorization |-> a]
  OBVIOUS
<1>3. /\ request[r].pc = "create"
      /\ Answer(r, 202) \/ Goto(r, "signing")
      /\ certificates' = [certificates EXCEPT ![r] = made]
      /\ worker' = [worker EXCEPT ![r].pc = "queued"]
      /\ UNCHANGED <<authorizations, deaths>>
  BY <1>1, <1>2 DEF Create, faults
<1>4. Messages' = Messages /\ Tellings' = Tellings
  BY <1>3, GotoStep, AnswerStep DEF Pcs, Codes
<1>5. /\ a \in Authorizations /\ authorizations[a].csr # None
      /\ authorizations[a].status = "valid" /\ certificates[r].status = "none"
      /\ worker[r].pc = "none"
  <2>1. Stage(r) /\ Certified(r)
    BY DEF IInv
  <2>2. a \in Authorizations /\ authorizations[a].csr # None /\ certificates[r].status = "none"
    BY <1>1, <1>3, <2>1 DEF Stage
  <2>. QED
    BY <2>1, <2>2 DEF IInv, Holds, Certified
<1>6. /\ certificates'[r] = made /\ worker'[r].pc = "queued"
      /\ \A c \in Requests \ {r} : certificates'[c] = certificates[c] /\ worker'[c] = worker[c]
  BY <1>3 DEF IInv, TypeOK
<1>7. Drafts' = Drafts
  <2>1. \A c \in Requests : Drafts'[c] = Drafts[c]
    BY <1>5, <1>6 DEF Drafts
  <2>. QED
    BY <2>1, AreFunctions
<1>8. Pems' = Pems
  <2>1. made.status # "valid" /\ certificates[r].status # "valid"
    BY <1>2, <1>5
  <2>2. Pems'[r] = {} /\ Pems[r] = {}
    BY <1>6, <2>1 DEF Pems
  <2>3. \A c \in Requests \ {r} : Pems'[c] = Pems[c]
    BY <1>6 DEF Pems
  <2>4. \A c \in Requests : Pems'[c] = Pems[c]
    BY <2>2, <2>3
  <2>. QED
    BY <2>4, AreFunctions
<1>9. OrderedFor[r] = {} /\ OrderedFor' = [OrderedFor EXCEPT ![r] = {a}]
  <2>1. OrderedFor[r] = {} /\ OrderedFor'[r] = {a}
    BY <1>2, <1>5, <1>6 DEF OrderedFor
  <2>2. \A c \in Requests \ {r} : OrderedFor'[c] = OrderedFor[c]
    BY <1>6 DEF OrderedFor
  <2>. QED
    BY <2>1, <2>2, AreFunctions
<1>10. a \in Valid /\ Filed[a] # {}
  BY <1>5 DEF Valid, Filed
<1>11. C!Order(r)
  BY <1>3, <1>4, <1>7, <1>8, <1>9, <1>10, SameRecords DEF C!Order, Valid
<1>. QED
  BY <1>11 DEF CStep, C!CertificationNext

LEMMA GetDerStep == ASSUME IInv, NEW r \in Requests, GetDer(r) PROVE CStep
<1>. USE IssuanceAssumption
<1>1. PICK c : c = CertificateOf(r)
  OBVIOUS
<1>2. /\ request[r].pc = "der"
      /\ UNCHANGED <<authorizations, certificates, worker, deaths>>
  BY DEF GetDer, faults
<1>3. Stage(r) /\ \A q \in Requests : Certified(q)
  BY DEF IInv
<1>4. /\ c \in Requests /\ certificates[c].status = "valid" /\ request[r].answer = None
      /\ request[r].kind \in {"new", "renew"} => worker[r].pc = "done"
  BY <1>1, <1>2, <1>3 DEF Stage
<1>5. PICK pem : pem = certificates[c].pem
  OBVIOUS
<1>6. pem \in Csrs /\ pem # None /\ pem # Root
  BY <1>3, <1>4, <1>5 DEF Certified, Sent
<1>7. PICK code \in {200, 201} : Respond(r, code, pem)
  BY <1>1, <1>2, <1>5, <1>6 DEF GetDer
<1>8. Keeps(r) /\ request'[r].answer \in {200, 201} /\ request'[r].body = pem
  BY <1>6, <1>7, RespondKeeps DEF IInv, Codes
<1>9. Messages' = Messages
  BY <1>8, SameMessages DEF Keeps
<1>10. Tellings[r] = {} /\ Tellings' = [Tellings EXCEPT ![r] = {<<c, pem>>}]
  <2>1. \A q \in Requests \ {r} : Tellings'[q] = Tellings[q]
    BY <1>8, SameTelling DEF Keeps
  <2>2. Tellings[r] = {}
    BY <1>4, NothingTold DEF Codes
  <2>3. Tellings'[r] = {<<c, pem>>}
    BY <1>1, <1>6, <1>8 DEF Tellings, CertificateOf, Keeps
  <2>. QED
    BY <2>1, <2>2, <2>3, AreFunctions
<1>11. OrderedFor[r] # {} => r = c /\ Drafts[c] = {}
  <2>. SUFFICES ASSUME OrderedFor[r] # {} PROVE r = c /\ Drafts[c] = {}
    OBVIOUS
  <2>1. request[r].kind \in {"new", "renew"}
    BY <1>3 DEF OrderedFor, Certified
  <2>. QED
    BY <1>1, <1>4, <2>1 DEF CertificateOf, PollKinds, Drafts
<1>12. pem \in Pems[c]
  BY <1>4, <1>5 DEF Pems
<1>13. C!Tell(r, c)
  BY <1>2, <1>9, <1>10, <1>11, <1>12, SameRecords DEF C!Tell, Valid
<1>. QED
  BY <1>4, <1>13 DEF CStep, C!CertificationNext

-----------------------------------------------------------------------------
(* The steps of the workers and of the rest of the server.                   *)
LEMMA SameRequests == UNCHANGED request => Messages' = Messages /\ Tellings' = Tellings
BY DEF Messages, Tellings, CertificateOf

LEMMA ReadCsrStep == ASSUME IInv, NEW w \in Requests, ReadCsr(w) PROVE CStep
<1>. USE IssuanceAssumption
<1>1. PICK a : a = certificates[w].authorization
  OBVIOUS
<1>2. PICK csr : csr = authorizations[a].csr
  OBVIOUS
<1>3. /\ worker[w].pc = "queued" /\ worker' = [worker EXCEPT ![w] = [pc |-> "sign", csr |-> csr]]
      /\ UNCHANGED <<authorizations, certificates, request, deaths>>
  BY <1>1, <1>2 DEF ReadCsr, faults
<1>4. Certified(w) /\ Told(w) /\ deaths \in Nat
  BY DEF IInv, TypeOK
<1>5. /\ certificates[w].status # "none" /\ a \in Authorizations /\ csr # None
      /\ request[w].kind \in {"new", "renew"}
      /\ certificates[w].status = "valid" => deaths > 0
  BY <1>1, <1>2, <1>3, <1>4 DEF Certified
<1>6. Tellings[w] = {}
  BY <1>3, <1>4, <1>5, NothingTold DEF Told
<1>7. Drafts' = [Drafts EXCEPT ![w] = {csr}]
  <2>1. worker'[w].pc = "sign" /\ worker'[w].csr = csr /\ \A c \in Requests \ {w} : worker'[c] = worker[c]
    BY <1>3 DEF IInv, TypeOK
  <2>2. Drafts'[w] = {csr} /\ \A c \in Requests \ {w} : Drafts'[c] = Drafts[c]
    BY <2>1 DEF Drafts
  <2>. QED
    BY <2>2, AreFunctions
<1>8. a \in OrderedFor[w] /\ Filed[a] = {csr} /\ (Pems[w] # {} => deaths > 0)
  BY <1>1, <1>2, <1>5 DEF OrderedFor, Filed, Pems
<1>9. C!Draft(w)
  BY <1>3, <1>6, <1>7, <1>8, SameRecords, SameRequests DEF C!Draft, Valid
<1>. QED
  BY <1>9 DEF CStep, C!CertificationNext

LEMMA SignStep == ASSUME IInv, NEW w \in Requests, Sign(w) PROVE CStep
<1>. USE IssuanceAssumption
<1>1. PICK csr : csr = worker[w].csr
  OBVIOUS
<1>2. /\ worker[w].pc = "sign" /\ worker' = [worker EXCEPT ![w].pc = "stored"]
      /\ certificates' = [certificates EXCEPT ![w].status = "valid", ![w].pem = csr]
      /\ UNCHANGED <<authorizations, request, deaths>>
  BY <1>1 DEF Sign, faults
<1>3. /\ worker'[w].pc = "stored" /\ \A c \in Requests \ {w} : worker'[c] = worker[c]
      /\ certificates'[w].status = "valid" /\ certificates'[w].pem = csr
      /\ certificates'[w].authorization = certificates[w].authorization
      /\ \A c \in Requests \ {w} : certificates'[c] = certificates[c]
  BY <1>2 DEF IInv, TypeOK, CertificateRecord
<1>4. certificates[w].status # "none"
  BY <1>2 DEF IInv, Certified
<1>5. Drafts[w] = {csr} /\ Drafts' = [Drafts EXCEPT ![w] = {}]
  <2>1. /\ Drafts[w] = {csr} /\ Drafts'[w] = {}
        /\ \A c \in Requests \ {w} : Drafts'[c] = Drafts[c]
    BY <1>1, <1>2, <1>3 DEF Drafts
  <2>. QED
    BY <2>1, AreFunctions
<1>6. Pems' = [Pems EXCEPT ![w] = Drafts[w]]
  <2>1. Pems'[w] = {csr} /\ \A c \in Requests \ {w} : Pems'[c] = Pems[c]
    BY <1>3 DEF Pems
  <2>. QED
    BY <1>5, <2>1, AreFunctions
<1>7. OrderedFor' = OrderedFor
  <2>1. \A c \in Requests : OrderedFor'[c] = OrderedFor[c]
    BY <1>3, <1>4 DEF OrderedFor
  <2>. QED
    BY <2>1, AreFunctions
<1>8. C!Issue(w)
  BY <1>2, <1>5, <1>6, <1>7, SameRecords, SameRequests DEF C!Issue, Valid
<1>. QED
  BY <1>8 DEF CStep, C!CertificationNext

LEMMA ReportStep == ASSUME IInv, NEW w \in Requests, Report(w) PROVE CStep
<1>1. /\ worker[w].pc = "stored" /\ worker' = [worker EXCEPT ![w].pc = "done"]
      /\ UNCHANGED <<authorizations, certificates, request, deaths>>
  BY DEF Report, faults
<1>2. worker'[w].pc = "done" /\ \A c \in Requests \ {w} : worker'[c] = worker[c]
  BY <1>1 DEF IInv, TypeOK
<1>3. \A c \in Requests : Drafts'[c] = Drafts[c]
  BY <1>1, <1>2 DEF Drafts
<1>. QED
  BY <1>1, <1>3, AreFunctions, SameRecords, SameRequests DEF CStep, C!certificationVars, Valid

LEMMA LosesDrafts ==
  ASSUME Messages' = Messages, Tellings' = Tellings, UNCHANGED <<authorizations, certificates>>,
         deaths > 0 => deaths' > 0,
         \A w \in Requests : worker'[w] = worker[w] \/ worker'[w].pc # "sign"
  PROVE  CStep
<1>1. \A c \in Requests : Drafts'[c] \in {Drafts[c], {}}
  BY DEF Drafts
<1>2. C!Lose
  BY <1>1, SameRecords DEF C!Lose, Valid
<1>. QED
  BY <1>2 DEF CStep, C!CertificationNext

LEMMA ChildDeathStep == ASSUME IInv, ChildDeath PROVE CStep
<1>1. /\ UNCHANGED <<authorizations, certificates, request>> /\ deaths' = deaths + 1
      /\ \A w \in Requests : worker'[w] = worker[w] \/ worker'[w].pc # "sign"
  BY DEF ChildDeath
<1>2. deaths > 0 => deaths' > 0
  BY <1>1 DEF IInv, TypeOK
<1>. QED
  BY <1>1, <1>2, SameRequests, LosesDrafts

LEMMA RestartStep == ASSUME IInv, Restart PROVE CStep
<1>1. /\ UNCHANGED <<authorizations, certificates, deaths>>
      /\ \A w \in Requests : worker'[w] = worker[w] \/ worker'[w].pc # "sign"
  BY DEF Restart, NoWorker
<1>2. \A q \in Requests :
        /\ request'[q].kind = request[q].kind /\ request'[q].key = request[q].key
        /\ request'[q].csr = request[q].csr /\ request'[q].target = request[q].target
        /\ request'[q].answer = request[q].answer /\ request'[q].body = request[q].body
  <2>. SUFFICES ASSUME NEW q \in Requests
                PROVE  /\ request'[q].kind = request[q].kind /\ request'[q].key = request[q].key
                       /\ request'[q].csr = request[q].csr /\ request'[q].target = request[q].target
                       /\ request'[q].answer = request[q].answer /\ request'[q].body = request[q].body
    OBVIOUS
  <2>1. request[q] \in RequestRecord
    BY DEF IInv, TypeOK
  <2>2. request'[q] = [request[q] EXCEPT !.pc = "lost"] \/ request'[q] = request[q]
    BY DEF Restart
  <2>. QED
    BY ONLY <2>1, <2>2 DEF RequestRecord
<1>3. Messages' = Messages /\ Tellings' = Tellings
  BY <1>2, SameMessages, SameTelling, AreFunctions
<1>. QED
  BY <1>1, <1>3, LosesDrafts

LEMMA ValidateStep == ASSUME IInv, NEW a \in Authorizations, Validate(a) PROVE CStep
<1>1. /\ authorizations' = [authorizations EXCEPT ![a].status = "valid"]
      /\ UNCHANGED <<certificates, request, worker, deaths>>
  BY DEF Validate, faults
<1>2. /\ authorizations'[a].status = "valid" /\ authorizations'[a].csr = authorizations[a].csr
      /\ \A b \in Authorizations \ {a} : authorizations'[b] = authorizations[b]
  BY <1>1 DEF IInv, TypeOK
<1>3. Valid' = Valid \cup {a}
  BY <1>2 DEF Valid
<1>4. Filed' = Filed
  <2>1. \A b \in Authorizations : Filed'[b] = Filed[b]
    BY <1>2 DEF Filed
  <2>. QED
    BY <2>1, AreFunctions
<1>5. C!Authorize
  BY <1>1, <1>3, <1>4, SameRecords, SameRequests DEF C!Authorize, Valid
<1>. QED
  BY <1>5 DEF CStep, C!CertificationNext

LEMMA NextStep == ASSUME IInv, [Next]_vars PROVE CStep
<1>. USE DEF Idle, RequestRecord, Pcs, Kinds
<1>1. ASSUME NEW r \in Requests, RequestStep(r) PROVE CStep
  BY <1>1, ReadsStep, StoreCsrStep, CreateStep, GetDerStep DEF RequestStep
<1>2. ASSUME NEW r \in Requests, WorkerStep(r) PROVE CStep
  BY <1>2, ReadCsrStep, SignStep, ReportStep DEF WorkerStep
<1>3. ASSUME NEW r \in Requests, NEW k \in Keys \cup {None}, NEW csr \in Csrs, ArriveNew(r, k, csr)
      PROVE  CStep
  BY <1>3, ArriveStep DEF ArriveNew
<1>4. ASSUME NEW r \in Requests, NEW a \in Authorizations \cup {None}, ArriveRenew(r, a) PROVE CStep
  BY <1>4, ArriveStep DEF ArriveRenew
<1>5. ASSUME NEW r \in Requests, NEW kind \in PollKinds, NEW c \in Requests \cup {Root, None},
             ArrivePoll(r, kind, c)
      PROVE  CStep
  BY <1>5, ArriveStep DEF ArrivePoll
<1>6. ASSUME UNCHANGED <<authorizations, certificates, request, worker, deaths>> PROVE CStep
  BY <1>6, SameRequests, Unseen
<1>. QED
  BY <1>1, <1>2, <1>3, <1>4, <1>5, <1>6, ChildDeathStep, RestartStep, ValidateStep
     DEF Next, Quiescent, Deactivate, vars, faults

(* Issuance implements Certification: for any number of requests and         *)
(* workers, deferred or not, with any deaths and restarts.                   *)
THEOREM Certifies == Spec => CertificationKept
<1>1. Init => C!CertificationInit
  <2>. SUFFICES ASSUME Init PROVE C!CertificationInit
    OBVIOUS
  <2>1. \A q \in Requests :
          /\ request[q].kind = None /\ request[q].answer = None
          /\ certificates[q].status = "none" /\ worker[q].pc = "none"
    BY DEF Init, Idle, NoCertificate, NoWorker
  <2>2. \A a \in Authorizations : authorizations[a].csr = None /\ authorizations[a].status = "pending"
    BY DEF Init
  <2>3. /\ OrderedFor = [c \in Requests |-> {}] /\ Drafts = [c \in Requests |-> {}]
        /\ Pems = [c \in Requests |-> {}] /\ Tellings = [c \in Requests |-> {}]
    BY <2>1, IssuanceAssumption DEF OrderedFor, Drafts, Pems, Tellings, Codes
  <2>4. Messages = {} /\ Valid = {} /\ Filed = [a \in Authorizations |-> {}]
    BY <2>1, <2>2, IssuanceAssumption DEF Messages, Valid, Filed, Kinds
  <2>5. (deaths > 0) = FALSE
    BY DEF Init
  <2>. QED
    BY <2>3, <2>4, <2>5 DEF C!CertificationInit, C!Nothing, Valid
<1>2. IInv /\ [Next]_vars => [C!CertificationNext]_(C!certificationVars)
  BY NextStep DEF CStep
<1>. QED
  BY <1>1, <1>2, Invariance, PTL DEF Spec, CertificationKept, C!CertificationSpec
=============================================================================
