------------------------------ MODULE Lifecycle ------------------------------
(* A v1 server from the answer to a challenge to the certificate:            *)
(* ChallengeValidation and Issuance on the records of one storage.           *)
(*                                                                           *)
(* They share the accounts and the authorizations. An authorization has two  *)
(* attributes that change: its status, which the verification workers write, *)
(* and its csr, which new-cert writes and the sign worker reads. Each side   *)
(* updates the record while the other is at work with it. The server and its *)
(* restarts are one; the farms of the workers are their own, and so are the  *)
(* deaths in them.                                                           *)
EXTENDS ChallengeValidation

CONSTANTS
  CertRequests,  \* the requests for certificates
  DomainOf, Csrs, DomainsOf, Malformed, Modes, MaxDeaths, MaxRestarts, Root  \* as in Issuance

ASSUME LifecycleAssumption ==
  /\ Version = "v1"
  /\ DOMAIN DomainOf = Authorizations
  /\ DOMAIN DomainsOf = Csrs /\ Malformed \subseteq Csrs
  /\ \A c \in Csrs : IsFiniteSet(DomainsOf[c])
  /\ Modes \subseteq BOOLEAN /\ MaxDeaths \in Nat /\ MaxRestarts \in Nat
  /\ None \notin Accounts \cup Authorizations \cup CertRequests \cup Kids \cup Csrs \cup {Root}
  /\ None \notin {"new", "renew", "get", "accepted"} /\ None \notin {201, 422}
  /\ Root \notin CertRequests \cup Csrs

VARIABLES
  records,      \* the authorizations, of which validation knows the status alone
  deferred, certificates, before,  \* as in Issuance
  certRequest,  \* its requests
  signer,       \* its workers
  signDeaths    \* the deaths in the farm of these

certOnly == <<deferred, certificates, before, certRequest, signer, signDeaths>>
lifeVars == <<vars, records, certOnly>>

I == INSTANCE Issuance
       WITH Requests <- CertRequests, Keys <- Kids, authorizations <- records, request <- certRequest,
            worker <- signer, deaths <- signDeaths

(* A step of a response to a challenge, or of the worker it has started.     *)
Respond ==
  \/ \E r \in Requests, m \in Posts : Arrive(r, m.challenge, m.key, m.body)
  \/ \E r \in Requests : RequestStep(r) \/ WorkerStep(r)
  \/ \E r \in Requests : RequestCallFails(r) \/ WorkerCallFails(r)
  \/ \E type \in ChallengeTypes : ChildDeath(type)

(* Mutant of Verify: what the update does not name is not kept.              *)
StrippingVerify ==
  /\ Respond
  /\ records' = [a \in Authorizations |->
       IF \E w \in Requests : /\ worker[w].pc = "judge" /\ worker'[w].pc = "report"
                              /\ AuthorizationOf[worker[w].challenge] = a
       THEN [status |-> authorizations'[a], csr |-> None] ELSE records[a]]
  /\ UNCHANGED certOnly

(* What validation updates of an authorization is its status, and            *)
(* AuthorizationService.update keeps what is not named in its payload.       *)
Verify ==
  /\ Respond
  /\ records' = [a \in Authorizations |-> [records[a] EXCEPT !.status = authorizations'[a]]]
  /\ UNCHANGED certOnly

StatusesIn(rs) == [a \in Authorizations |-> rs[a].status]

(* A step of a request for a certificate, or of its sign worker. What it     *)
(* writes of the records is for Issuance to say.                             *)
Certify ==
  /\ server = "up"
  /\ \/ \E r \in CertRequests :
          \/ \E k \in Kids \cup {None}, csr \in Csrs : I!ArriveNew(r, k, csr)
          \/ \E a \in Authorizations \cup {None} : I!ArriveRenew(r, a)
          \/ \E kind \in I!PollKinds, c \in CertRequests \cup {Root, None} :
               I!ArrivePoll(r, kind, c)
          \/ I!RequestStep(r)
          \/ I!WorkerStep(r)
     \/ Engine = "mongodb" /\ I!ChildDeath
  /\ authorizations' = StatusesIn(records')
  /\ UNCHANGED <<challenges, request, worker, server, deaths, failures, history>>

(* One restart ends the requests and the workers of both.                    *)
RestartServer == Restart /\ I!Restart

DeactivateAccount(a) == Deactivate(a) /\ I!Deactivate(a)

Rest ==
  /\ Quiescent /\ UNCHANGED <<records, certOnly>>
  /\ server = "down" \/ I!Quiescent

LifeInit == Init /\ I!Init

LifeNext ==
  \/ Verify
  \/ Certify
  \/ RestartServer
  \/ \E a \in Accounts : DeactivateAccount(a)
  \/ Rest

LifeSpec == LifeInit /\ [][LifeNext]_lifeVars

-----------------------------------------------------------------------------
(* Whoever has shown the control of the domain is the one whose CSR is       *)
(* signed, as far as a kid tells who somebody is: a certificate names just   *)
(* the domain of an authorization, was made of a CSR that came signed with   *)
(* the kid of its account, and a key with that kid has answered one of its   *)
(* challenges and its peer has served that answer, whichever requests and    *)
(* workers have written the record meanwhile (sign-certificate.worker.js,    *)
(* verify-http-01.worker.js). The two keys may differ all the same.          *)
CertificateProved ==
  \A r \in CertRequests : certificates[r].status = "valid" =>
    \E c \in Challenges, q \in CertRequests :
      /\ AuthorizationOf[c] = certificates[r].authorization
      /\ proved[c] \cap OwnersKeys(c) # {}
      /\ DomainsOf[certificates[r].pem] = {DomainOf[AuthorizationOf[c]]}
      /\ certRequest[q].kind = "new" /\ certRequest[q].key = KidOf[Owner(c)]
      /\ certRequest[q].csr = certificates[r].pem

(* Neither side takes from the other what it has written of their record:    *)
(* on shared records validation is still what it is alone, although new-cert *)
(* updates the authorizations (new-certificate.handler.js), ...              *)
ValidationKept == Spec

(* ... and so is issuance, where all it knows of the workers that verify is  *)
(* that they make authorizations valid (verify-http-01.worker.js).           *)
IssuanceKept == I!Spec
=============================================================================
