--------------------- MODULE ChallengeValidationProofs ---------------------
(* Proofs about ChallengeValidation, for any accounts, authorizations,       *)
(* challenges and requests, both storage engines and both ACME flavours.     *)
EXTENDS ChallengeValidation, TLAPS

(* What accepting a request stores: processing is dropped on the way.        *)
LEMMA AcceptUpdate ==
  ASSUME NEW record \in ChallengeRecord, NEW q
  PROVE  ServiceUpdate(record, AcceptPayload(q)) =
           [status |-> "pending",
            keyAuthorization |-> KeyAuthorization(q.challenge, q.key),
            processing |-> record.processing]
BY DEF ServiceUpdate, AcceptPayload, ChallengeAttributes, UpdatableAttributes, ChallengeRecord

(* What a worker stores: its verdict, and nothing else.                      *)
LEMMA VerdictUpdate ==
  ASSUME NEW record \in ChallengeRecord, NEW verdict
  PROVE  ServiceUpdate(record, [processing |-> FALSE, status |-> verdict]) =
           [record EXCEPT !.status = verdict]
BY DEF ServiceUpdate, ChallengeAttributes, UpdatableAttributes, ChallengeRecord

(* Both updates keep the record well-formed.                                 *)
LEMMA AcceptTyped ==
  ASSUME NEW record \in ChallengeRecord, NEW q,
         q.challenge \in Challenges, q.key \in Keys
  PROVE  ServiceUpdate(record, AcceptPayload(q)) \in ChallengeRecord
<1>1. KeyAuthorization(q.challenge, q.key) \in Challenges \X Keys
  BY DEF KeyAuthorization
<1>2. record.processing \in BOOLEAN
  BY DEF ChallengeRecord
<1>. QED
  BY <1>1, <1>2, AcceptUpdate DEF ChallengeRecord

LEMMA VerdictTyped ==
  ASSUME NEW record \in ChallengeRecord, NEW verdict \in {"valid", "invalid"}
  PROVE  ServiceUpdate(record, [processing |-> FALSE, status |-> verdict]) \in ChallengeRecord
<1>1. ServiceUpdate(record, [processing |-> FALSE, status |-> verdict])
        = [record EXCEPT !.status = verdict]
  BY VerdictUpdate
<1>2. [record EXCEPT !.status = verdict] \in ChallengeRecord
  BY DEF ChallengeRecord
<1>. QED
  BY <1>1, <1>2

-----------------------------------------------------------------------------
(* What the actions that move one request and write no record leave alone.   *)
Untouched ==
  UNCHANGED <<accounts, authorizations, challenges, worker, faults, answered, proved>>

LEMMA InitIInv == Init => IInv
<1>. SUFFICES ASSUME Init PROVE IInv
  OBVIOUS
<1>1. TypeOK
  BY RecordsAssumption, RunAssumption
  DEF Init, TypeOK, NewChallenge, Idle, NoWorker, ChallengeRecord, RequestRecord, WorkerRecord
<1>2. StoredIsOwn /\ ValidIsProved
  BY DEF Init, StoredIsOwn, AnswersTo, ValidIsProved, NewChallenge, NoWorker
<1>3. RequestsChecked
  BY DEF Init, RequestsChecked, Checked, Idle, NoWorker
<1>4. WorkersLookForOwn
  BY DEF Init, WorkersLookForOwn, NoWorker
<1>5. LateIsRefused /\ NoLateVerification
  BY DEF Init, LateIsRefused, NoLateVerification
<1>6. AuthorizationEarned /\ ValidChallengeSettles
  BY DEF Init, AuthorizationEarned, ValidChallengeSettles, NewChallenge
<1>. QED
  BY <1>1, <1>2, <1>3, <1>4, <1>5, <1>6 DEF IInv

(* An action that changes only requests, and only some history of them,      *)
(* keeps the parts that do not mention requests.                             *)
LEMMA UntouchedParts ==
  ASSUME IInv, Untouched
  PROVE  /\ StoredIsOwn' /\ WorkersLookForOwn' /\ ValidIsProved'
         /\ AuthorizationEarned' /\ ValidChallengeSettles'
<1>1. StoredIsOwn' /\ WorkersLookForOwn' /\ ValidIsProved'
  BY DEF IInv, Untouched, StoredIsOwn, AnswersTo, OwnersKeys, Owner, WorkersLookForOwn,
         ValidIsProved
<1>2. AuthorizationEarned' /\ ValidChallengeSettles'
  BY DEF IInv, Untouched, faults, AuthorizationEarned, OwnersKeys, Owner,
         ValidChallengeSettles, Settles, MayRepeat
<1>. QED
  BY <1>1, <1>2

(* A request may move to any state that satisfies the parts about requests.  *)
LEMMA RequestMoves ==
  ASSUME IInv, Untouched,
         NEW r \in Requests, NEW q \in RequestRecord,
         request' = [request EXCEPT ![r] = q],
         late' \in SUBSET Requests, late' \ {r} = late \ {r},
         Checked(r, q),
         r \in late' => BoundToFail(q) /\ worker[r].pc = "none"
  PROVE  IInv'
<1>0. request \in [Requests -> RequestRecord]
  BY DEF IInv, TypeOK
<1>1. /\ request'[r] = q
      /\ \A s \in Requests \ {r} : request'[s] = request[s]
  BY <1>0
<1>2. TypeOK'
  <2>1. request' \in [Requests -> RequestRecord]
    BY <1>0
  <2>. QED
    BY <2>1 DEF IInv, TypeOK, Untouched, faults
<1>3. RequestsChecked'
  <2>. SUFFICES ASSUME NEW s \in Requests PROVE Checked(s, request[s])'
    BY DEF RequestsChecked
  <2>1. Checked(s, request'[s])
    BY <1>1 DEF IInv, RequestsChecked
  <2>. QED
    BY <2>1 DEF Checked, OwnersKeys, Owner, Untouched
<1>4. LateIsRefused'
  <2>. SUFFICES ASSUME NEW s \in late' PROVE BoundToFail(request[s])'
    BY DEF LateIsRefused
  <2>1. BoundToFail(request'[s])
    BY <1>1 DEF IInv, LateIsRefused, TypeOK
  <2>. QED
    BY <2>1 DEF BoundToFail, TooLate, Owner, Untouched
<1>5. NoLateVerification'
  <2>. SUFFICES ASSUME NEW s \in late'
                PROVE worker'[s].pc = "none" /\ request'[s].pc # "launch"
    BY DEF NoLateVerification
  <2>1. CASE s = r
    BY <2>1, <1>1 DEF BoundToFail, Untouched
  <2>2. CASE s # r
    BY <2>2, <1>1 DEF IInv, TypeOK, NoLateVerification, Untouched
  <2>. QED
    BY <2>1, <2>2
<1>. QED
  BY <1>2, <1>3, <1>4, <1>5, UntouchedParts DEF IInv

(* Where a request stands before it moves.                                   *)
LEMMA Standing ==
  ASSUME IInv, NEW r \in Requests
  PROVE  /\ request[r] \in RequestRecord
         /\ Checked(r, request[r])
         /\ r \in late => BoundToFail(request[r]) /\ worker[r].pc = "none"
BY DEF IInv, TypeOK, RequestsChecked, LateIsRefused, NoLateVerification

(* An answer is a move to a state of which nothing is asked.                 *)
LEMMA AnswerKeeps ==
  ASSUME IInv, Untouched, UNCHANGED late,
         NEW r \in Requests, NEW code \in Codes, Answer(r, code)
  PROVE  IInv'
<1>. DEFINE q == [Idle EXCEPT !.pc = "answered", !.answer = code]
<1>1. q \in RequestRecord
  BY DEF Idle, RequestRecord
<1>2. Checked(r, q) /\ BoundToFail(q)
  BY DEF Idle, Checked, BoundToFail
<1>3. request' = [request EXCEPT ![r] = q] /\ late' \in SUBSET Requests
  BY DEF Answer, IInv, TypeOK
<1>. HIDE DEF q
<1>. QED
  BY <1>1, <1>2, <1>3, RequestMoves, Standing

LEMMA ArriveKeeps ==
  ASSUME IInv, NEW r \in Requests, NEW c \in Challenges \cup {None},
         NEW k \in Keys \cup {None}, NEW b \in Bodies, Arrive(r, c, k, b)
  PROVE  IInv'
<1>. DEFINE q == [Idle EXCEPT !.pc = "challenge", !.challenge = c, !.key = k, !.body = b]
<1>1. Untouched /\ request' = [request EXCEPT ![r] = q]
  BY DEF Arrive, Untouched, store, faults
<1>2. q \in RequestRecord
  BY DEF Idle, RequestRecord
<1>3. Checked(r, q)
  BY Standing DEF Idle, Checked, Arrive
<1>4. late' \in SUBSET Requests /\ late' \ {r} = late \ {r}
  BY DEF Arrive, IInv, TypeOK
<1>5. r \in late' => BoundToFail(q) /\ worker[r].pc = "none"
  BY Standing DEF Arrive, Idle, BoundToFail, Checked
<1>. HIDE DEF q
<1>. QED
  BY <1>1, <1>2, <1>3, <1>4, <1>5, RequestMoves

LEMMA ReadChallengeKeeps ==
  ASSUME IInv, NEW r \in Requests, ReadChallenge(r)
  PROVE  IInv'
<1>. DEFINE c == request[r].challenge
            q == [request[r] EXCEPT !.pc = "authorization",
                                    !.challengeStatus = challenges[c].status]
<1>1. Untouched /\ UNCHANGED late
  BY DEF ReadChallenge, Untouched, store, faults, history
<1>2. CASE c \notin Challenges /\ Answer(r, 404)
  BY <1>1, <1>2, AnswerKeeps DEF Codes
<1>3. CASE c \in Challenges /\ request' = [request EXCEPT ![r] = q]
  <2>1. challenges[c].status \in {"pending", "processing", "valid", "invalid"}
    BY <1>3 DEF IInv, TypeOK, ChallengeRecord
  <2>2. q \in RequestRecord
    BY <1>3, <2>1, Standing DEF RequestRecord
  <2>3. Checked(r, q) /\ (r \in late => BoundToFail(q) /\ worker[r].pc = "none")
    BY <1>3, Standing DEF ReadChallenge, Checked, BoundToFail, RequestRecord
  <2>. HIDE DEF q
  <2>. QED
    BY <1>1, <1>3, <2>2, <2>3, RequestMoves DEF IInv, TypeOK
<1>. QED
  BY <1>2, <1>3 DEF ReadChallenge

(* A late request reads that the authorization is valid, unless it is the    *)
(* account that it comes too late for.                                       *)
LEMMA ReadAuthorizationKeeps ==
  ASSUME IInv, NEW r \in Requests, ReadAuthorization(r)
  PROVE  IInv'
<1>. DEFINE c == request[r].challenge
            q == [request[r] EXCEPT !.pc = "account",
                    !.authorizationStatus = authorizations[AuthorizationOf[c]]]
<1>1. Untouched /\ UNCHANGED late /\ request' = [request EXCEPT ![r] = q]
  BY DEF ReadAuthorization, Untouched, store, faults, history
<1>2. c \in Challenges
  BY Standing DEF ReadAuthorization, Checked
<1>3. authorizations[AuthorizationOf[c]] \in {"pending", "valid"}
  BY <1>2, RecordsAssumption DEF IInv, TypeOK
<1>4. q \in RequestRecord
  BY <1>3, Standing DEF RequestRecord
<1>5. Checked(r, q) /\ (r \in late => BoundToFail(q) /\ worker[r].pc = "none")
  BY <1>2, Standing DEF ReadAuthorization, Checked, BoundToFail, TooLate, RequestRecord
<1>. HIDE DEF q
<1>. QED
  BY <1>1, <1>4, <1>5, RequestMoves DEF IInv, TypeOK

(* The refusals are what a late request runs into, and what makes sure that  *)
(* the key is one of the owner's.                                            *)
LEMMA ReadAccountKeeps ==
  ASSUME IInv, NEW r \in Requests, ReadAccount(r)
  PROVE  IInv'
<1>. DEFINE q == [request[r] EXCEPT !.pc = "thumbprint"]
<1>1. Untouched /\ UNCHANGED late
  BY DEF ReadAccount, Untouched, store, faults, history
<1>2. CASE Refusal(request[r]) # None /\ Answer(r, Refusal(request[r]))
  <2>1. Refusal(request[r]) \in Codes
    BY <1>2 DEF Refusal, Codes
  <2>. QED
    BY <1>1, <1>2, <2>1, AnswerKeeps
<1>3. CASE Refusal(request[r]) = None /\ Goto(r, "thumbprint")
  <2>1. /\ request[r].key \in OwnersKeys(request[r].challenge)
        /\ accounts[Owner(request[r].challenge)] # "deactivated"
        /\ request[r].authorizationStatus = "pending"
    BY <1>3, RunAssumption DEF Refusal
  <2>2. q \in RequestRecord
    BY Standing DEF RequestRecord
  <2>3. r \notin late
    BY <2>1, Standing DEF ReadAccount, BoundToFail
  <2>4. Checked(r, q)
    BY <2>1, Standing DEF ReadAccount, Checked, RequestRecord
  <2>5. request' = [request EXCEPT ![r] = q]
    BY <1>3 DEF Goto
  <2>. HIDE DEF q
  <2>. QED
    BY <1>1, <2>2, <2>3, <2>4, <2>5, RequestMoves DEF IInv, TypeOK
<1>. QED
  BY <1>2, <1>3 DEF ReadAccount

LEMMA ProxyKeeps ==
  ASSUME IInv, NEW r \in Requests, Proxy(r)
  PROVE  IInv'
<1>1. Untouched /\ UNCHANGED late
  BY DEF Proxy, Untouched, store, faults, history
<1>2. PICK code \in Codes : Answer(r, code)
  BY DEF Proxy, Codes
<1>. QED
  BY <1>1, <1>2, AnswerKeeps

(* What is known of the answers to a challenge.                              *)
LEMMA Answers ==
  ASSUME IInv, NEW c \in Challenges
  PROVE  /\ answered[c] \in SUBSET Keys
         /\ answered[c] \subseteq OwnersKeys(c)
         /\ AnswersTo(c) \subseteq Challenges \X Keys
         /\ None \notin AnswersTo(c)
         /\ challenges[c] \in ChallengeRecord
         /\ challenges[c].keyAuthorization \in AnswersTo(c) \cup {None}
<1>1. answered[c] \in SUBSET Keys /\ challenges[c] \in ChallengeRecord
  BY DEF IInv, TypeOK
<1>2. AnswersTo(c) \subseteq Challenges \X Keys
  BY <1>1 DEF AnswersTo, KeyAuthorization
<1>3. None \notin AnswersTo(c)
  BY <1>2, RecordsAssumption
<1>. QED
  BY <1>1, <1>2, <1>3 DEF IInv, StoredIsOwn

(* Accepting writes over a challenge that may be anything by now: what is    *)
(* stored is "pending" with the answer, made with a key of the owner's kid.  *)
LEMMA AcceptKeeps ==
  ASSUME IInv, NEW r \in Requests, Accept(r)
  PROVE  IInv'
<1>. DEFINE c == request[r].challenge
            key == request[r].key
            new == ServiceUpdate(challenges[c], AcceptPayload(request[r]))
<1>1. /\ c \in Challenges
      /\ key \in OwnersKeys(c) /\ key \in Keys
      /\ r \notin late
      /\ worker[r].pc = "none"
  BY Standing DEF Accept, Checked, BoundToFail, OwnersKeys
<1>2. CASE ~BodyMatches(request[r]) /\ Answer(r, 401) /\ UNCHANGED <<challenges, answered>>
  BY <1>2, AnswerKeeps DEF Accept, Untouched, faults, Codes
<1>3. CASE /\ challenges' = [challenges EXCEPT ![c] = new]
           /\ Goto(r, "launch")
           /\ answered' = [answered EXCEPT ![c] = @ \cup {key}]
  <2>1. challenges \in [Challenges -> ChallengeRecord] /\ challenges[c] \in ChallengeRecord
    BY <1>1 DEF IInv, TypeOK
  <2>2. /\ new \in ChallengeRecord /\ new.status = "pending"
        /\ new.keyAuthorization = KeyAuthorization(c, key)
        /\ new.keyAuthorization # None
    <3>1. new = [status |-> "pending", keyAuthorization |-> KeyAuthorization(c, key),
                 processing |-> challenges[c].processing]
      BY <2>1, AcceptUpdate
    <3>2. new \in ChallengeRecord
      BY <1>1, <2>1, AcceptTyped
    <3>3. KeyAuthorization(c, key) # None
      BY <1>1, RecordsAssumption DEF KeyAuthorization
    <3>. QED
      BY <3>1, <3>2, <3>3
  <2>. HIDE DEF new
  <2>3. /\ challenges' \in [Challenges -> ChallengeRecord]
        /\ challenges'[c] = new
        /\ \A d \in Challenges \ {c} : challenges'[d] = challenges[d]
    BY <1>1, <1>3, <2>1, <2>2
  <2>4. UNCHANGED <<accounts, authorizations, worker, server, deaths, restarts, failures,
                    proved, late>>
    BY DEF Accept, faults
  <2>5. /\ request' \in [Requests -> RequestRecord]
        /\ request'[r] = [request[r] EXCEPT !.pc = "launch"]
        /\ \A s \in Requests \ {r} : request'[s] = request[s]
    <3>. DEFINE q == [request[r] EXCEPT !.pc = "launch"]
    <3>1. q \in RequestRecord
      BY Standing DEF RequestRecord
    <3>2. request' = [request EXCEPT ![r] = q]
      BY <1>3 DEF Goto
    <3>. HIDE DEF q
    <3>. QED
      BY <3>1, <3>2 DEF IInv, TypeOK, q
  <2>6. /\ answered' \in [Challenges -> SUBSET Keys]
        /\ answered'[c] = answered[c] \cup {key}
        /\ \A d \in Challenges \ {c} : answered'[d] = answered[d]
    BY <1>1, <1>3 DEF IInv, TypeOK
  <2>. HIDE DEF c, key
  <2>7. \A d \in Challenges : AnswersTo(d) \subseteq AnswersTo(d)'
    BY <2>6 DEF AnswersTo
  <2>8. TypeOK'
    BY <2>3, <2>4, <2>5, <2>6 DEF IInv, TypeOK
  <2>9. StoredIsOwn'
    <3>. SUFFICES ASSUME NEW d \in Challenges
                  PROVE  /\ answered'[d] \subseteq OwnersKeys(d)
                         /\ challenges'[d].keyAuthorization \in AnswersTo(d)' \cup {None}
      BY DEF StoredIsOwn, OwnersKeys, Owner
    <3>1. CASE d = c
      <4>1. KeyAuthorization(d, key) \in AnswersTo(d)'
        BY <3>1, <2>6 DEF AnswersTo
      <4>. QED
        BY <3>1, <4>1, <1>1, <2>2, <2>3, <2>6, Answers
    <3>2. CASE d # c
      BY <3>2, <2>3, <2>6, <2>7, Answers
    <3>. QED
      BY <3>1, <3>2
  <2>10. RequestsChecked'
    <3>. SUFFICES ASSUME NEW s \in Requests PROVE Checked(s, request[s])'
      BY DEF RequestsChecked
    <3>1. CASE s = r
      BY <3>1, <1>1, <2>2, <2>3, <2>4, <2>5, Standing DEF Checked, RequestRecord, c
    <3>2. CASE s # r
      BY <3>2, <1>1, <2>2, <2>3, <2>4, <2>5, Standing DEF Checked, OwnersKeys, Owner
    <3>. QED
      BY <3>1, <3>2
  <2>11. WorkersLookForOwn'
    <3>1. \A d \in Challenges : challenges[d].keyAuthorization # None =>
                                  challenges'[d].keyAuthorization # None
      BY <2>2, <2>3
    <3>. QED
      BY <2>4, <2>7, <3>1 DEF IInv, WorkersLookForOwn
  <2>12. ValidIsProved'
    BY <2>2, <2>3, <2>4, <2>6 DEF IInv, ValidIsProved
  <2>13. LateIsRefused' /\ NoLateVerification'
    BY <1>1, <2>4, <2>5
    DEF IInv, TypeOK, LateIsRefused, NoLateVerification, BoundToFail, TooLate, Owner
  <2>14. AuthorizationEarned'
    BY <2>4 DEF IInv, AuthorizationEarned, OwnersKeys, Owner
  <2>15. ValidChallengeSettles'
    BY <2>2, <2>3, <2>4 DEF IInv, ValidChallengeSettles, Settles, MayRepeat
  <2>. QED
    BY <2>8, <2>9, <2>10, <2>11, <2>12, <2>13, <2>14, <2>15 DEF IInv
<1>. QED
  BY <1>2, <1>3 DEF Accept

(* Launching gives the request its worker: it had none, so no witness of     *)
(* ValidChallengeSettles is overwritten.                                     *)
LEMMA LaunchKeeps ==
  ASSUME IInv, NEW r \in Requests, Launch(r)
  PROVE  IInv'
<1>. DEFINE c == request[r].challenge
            new == [pc |-> "queued", challenge |-> c, keyAuthorization |-> None, status |-> None]
<1>1. /\ c \in Challenges
      /\ challenges[c].keyAuthorization # None
      /\ r \notin late
      /\ worker[r].pc = "none"
  BY Standing DEF Launch, Checked, BoundToFail
<1>2. UNCHANGED <<accounts, authorizations, challenges, server, deaths, restarts, failures,
                  answered, proved, late>>
  BY DEF Launch, store, faults, history
<1>3. new \in WorkerRecord
  BY <1>1 DEF WorkerRecord
<1>4. /\ worker' \in [Requests -> WorkerRecord]
      /\ worker'[r] = new
      /\ \A w \in Requests \ {r} : worker'[w] = worker[w]
  BY <1>3 DEF Launch, IInv, TypeOK
<1>5. /\ request' \in [Requests -> RequestRecord]
      /\ \A s \in Requests \ {r} : request'[s] = request[s]
      /\ \/ request'[r] = [request[r] EXCEPT !.pc = "proxy"]
         \/ request'[r].pc = "answered"
  <2>1. request \in [Requests -> RequestRecord] /\ request[r] \in RequestRecord
    BY DEF IInv, TypeOK
  <2>2. CASE Goto(r, "proxy")
    BY <2>1, <2>2 DEF Goto, RequestRecord
  <2>3. CASE Answer(r, 200)
    <3>. DEFINE q == [Idle EXCEPT !.pc = "answered", !.answer = 200]
    <3>1. q \in RequestRecord /\ q.pc = "answered"
      BY DEF Idle, Codes, RequestRecord
    <3>2. request' = [request EXCEPT ![r] = q]
      BY <2>3 DEF Answer
    <3>. HIDE DEF q
    <3>. QED
      BY <2>1, <3>1, <3>2
  <2>. QED
    BY <2>2, <2>3 DEF Launch
<1>6. TypeOK'
  BY <1>2, <1>4, <1>5 DEF IInv, TypeOK
<1>7. StoredIsOwn' /\ AuthorizationEarned'
  BY <1>2 DEF IInv, StoredIsOwn, AnswersTo, AuthorizationEarned, OwnersKeys, Owner
<1>8. RequestsChecked'
  <2>. SUFFICES ASSUME NEW s \in Requests PROVE Checked(s, request[s])'
    BY DEF RequestsChecked
  <2>1. CASE s = r
    BY <2>1, <1>1, <1>2, <1>5, Standing DEF Checked, RequestRecord
  <2>2. CASE s # r
    BY <2>2, <1>2, <1>4, <1>5, Standing DEF Checked, OwnersKeys, Owner
  <2>. QED
    BY <2>1, <2>2
<1>9. WorkersLookForOwn'
  BY <1>1, <1>2, <1>4 DEF IInv, WorkersLookForOwn, AnswersTo
<1>10. ValidIsProved'
  BY <1>2, <1>4 DEF IInv, ValidIsProved
<1>11. LateIsRefused' /\ NoLateVerification'
  BY <1>1, <1>2, <1>4, <1>5
  DEF IInv, TypeOK, LateIsRefused, NoLateVerification, BoundToFail, TooLate, Owner
<1>12. ValidChallengeSettles'
  <2>. SUFFICES ASSUME restarts = 0, failures = 0, NEW d \in Challenges,
                       challenges[d].status = "valid", authorizations[AuthorizationOf[d]] # "valid"
                PROVE  \E v \in Requests : Settles(worker[v], d)'
    BY <1>2 DEF ValidChallengeSettles
  <2>1. PICK v \in Requests : Settles(worker[v], d)
    BY DEF IInv, ValidChallengeSettles
  <2>2. v # r
    BY <1>1, <2>1 DEF Settles
  <2>. QED
    BY <1>2, <1>4, <2>1, <2>2 DEF Settles, MayRepeat
<1>. QED
  BY <1>6, <1>7, <1>8, <1>9, <1>10, <1>11, <1>12 DEF IInv

-----------------------------------------------------------------------------
(* Workers.                                                                  *)

(* A worker may move to any state that looks for an answer, says "valid"     *)
(* only of what is proved, and settles what it was to settle.                *)
LEMMA WorkerMoves ==
  ASSUME IInv, NEW w \in Requests, NEW k \in WorkerRecord,
         UNCHANGED <<accounts, challenges, authorizations, request, server, deaths,
                     restarts, failures, answered, proved, late>>,
         worker' = [worker EXCEPT ![w] = k],
         worker[w].pc # "none", k.pc # "none", k.challenge = worker[w].challenge,
         k.pc = "probe" => k.keyAuthorization \in AnswersTo(k.challenge),
         k.pc = "judge" /\ k.status = "valid" => proved[k.challenge] # {},
         /\ challenges[k.challenge].status = "valid"
         /\ authorizations[AuthorizationOf[k.challenge]] # "valid"
         /\ Settles(worker[w], k.challenge)
         => Settles(k, k.challenge)
  PROVE  IInv'
<1>1. /\ worker' \in [Requests -> WorkerRecord]
      /\ worker'[w] = k
      /\ \A v \in Requests \ {w} : worker'[v] = worker[v]
  BY DEF IInv, TypeOK
<1>2. TypeOK'
  BY <1>1 DEF IInv, TypeOK
<1>3. StoredIsOwn' /\ AuthorizationEarned'
  BY DEF IInv, StoredIsOwn, AnswersTo, AuthorizationEarned, OwnersKeys, Owner
<1>4. RequestsChecked'
  <2>. SUFFICES ASSUME NEW s \in Requests PROVE Checked(s, request[s])'
    BY DEF RequestsChecked
  <2>. QED
    BY <1>1, Standing DEF Checked, OwnersKeys, Owner
<1>5. WorkersLookForOwn'
  BY <1>1 DEF IInv, WorkersLookForOwn, AnswersTo
<1>6. ValidIsProved'
  BY <1>1 DEF IInv, ValidIsProved
<1>7. LateIsRefused' /\ NoLateVerification'
  <2>1. w \notin late
    BY DEF IInv, NoLateVerification
  <2>. QED
    BY <1>1, <2>1
    DEF IInv, TypeOK, LateIsRefused, NoLateVerification, BoundToFail, TooLate, Owner
<1>8. ValidChallengeSettles'
  <2>. SUFFICES ASSUME restarts = 0, failures = 0, NEW d \in Challenges,
                       challenges[d].status = "valid", authorizations[AuthorizationOf[d]] # "valid"
                PROVE  \E v \in Requests : Settles(worker[v], d)'
    BY DEF ValidChallengeSettles
  <2>1. PICK v \in Requests : Settles(worker[v], d)
    BY DEF IInv, ValidChallengeSettles
  <2>2. Settles(worker'[v], d)
    <3>1. CASE v = w
      <4>1. k.challenge = d
        BY <2>1, <3>1 DEF Settles
      <4>. QED
        BY <1>1, <2>1, <3>1, <4>1
    <3>2. CASE v # w
      BY <1>1, <2>1, <3>2
    <3>. QED
      BY <3>1, <3>2
  <2>. QED
    BY <2>2 DEF Settles, MayRepeat
<1>. QED
  BY <1>2, <1>3, <1>4, <1>5, <1>6, <1>7, <1>8 DEF IInv

(* What is known of a worker that is not idle.                               *)
LEMMA Working ==
  ASSUME IInv, NEW w \in Requests, worker[w].pc # "none"
  PROVE  /\ worker[w] \in WorkerRecord
         /\ worker[w].challenge \in Challenges
         /\ challenges[worker[w].challenge] \in ChallengeRecord
         /\ challenges[worker[w].challenge].keyAuthorization # None
         /\ challenges[worker[w].challenge].keyAuthorization \in AnswersTo(worker[w].challenge)
         /\ worker[w].pc = "probe" =>
              worker[w].keyAuthorization \in AnswersTo(worker[w].challenge)
         /\ w \notin late
BY Answers DEF IInv, TypeOK, WorkersLookForOwn, NoLateVerification

LEMMA RunKeeps ==
  ASSUME IInv, NEW w \in Requests, Run(w)
  PROVE  IInv'
<1>. DEFINE k == [worker[w] EXCEPT !.pc = "probe",
                    !.keyAuthorization = challenges[worker[w].challenge].keyAuthorization]
<1>1. k \in WorkerRecord
  <2>1. /\ worker[w] \in WorkerRecord
        /\ challenges[worker[w].challenge].keyAuthorization \in (Challenges \X Keys) \cup {None}
    BY Working DEF Run, ChallengeRecord
  <2>. QED
    BY <2>1 DEF WorkerRecord
<1>2. /\ k.pc = "probe" /\ k.challenge = worker[w].challenge
      /\ k.keyAuthorization \in AnswersTo(k.challenge)
      /\ worker[w].pc = "queued"
  BY Working DEF Run, WorkerRecord
<1>3. worker' = [worker EXCEPT ![w] = k]
  BY DEF Run
<1>4. UNCHANGED <<accounts, challenges, authorizations, request, server, deaths,
                  restarts, failures, answered, proved, late>>
  BY DEF Run, store, faults, history
<1>. HIDE DEF k
<1>5. Settles(worker[w], k.challenge) => Settles(k, k.challenge)
  BY <1>2 DEF Settles
<1>. QED
  BY <1>1, <1>2, <1>3, <1>4, <1>5, WorkerMoves

(* MongoDB returns what is stored by then, which may be another worker's     *)
(* verdict: that one is proved as well.                                      *)
LEMMA RereadKeeps ==
  ASSUME IInv, NEW w \in Requests, Reread(w)
  PROVE  IInv'
<1>. DEFINE k == [worker[w] EXCEPT !.pc = "judge",
                    !.status = challenges[worker[w].challenge].status]
<1>1. k \in WorkerRecord
  <2>1. /\ worker[w] \in WorkerRecord
        /\ challenges[worker[w].challenge].status \in {"pending", "processing", "valid", "invalid"}
    BY Working DEF Reread, ChallengeRecord
  <2>. QED
    BY <2>1 DEF WorkerRecord
<1>2. /\ k.pc = "judge" /\ k.challenge = worker[w].challenge
      /\ k.status = challenges[k.challenge].status
      /\ k.challenge \in Challenges
      /\ worker[w].pc = "reread"
  BY Working DEF Reread, WorkerRecord
<1>3. worker' = [worker EXCEPT ![w] = k]
  BY DEF Reread
<1>4. UNCHANGED <<accounts, challenges, authorizations, request, server, deaths,
                  restarts, failures, answered, proved, late>>
  BY DEF Reread, store, faults, history
<1>. HIDE DEF k
<1>5. k.status = "valid" => proved[k.challenge] # {}
  BY <1>2 DEF IInv, ValidIsProved
<1>6. challenges[k.challenge].status = "valid" => Settles(k, k.challenge)
  BY <1>2 DEF Settles
<1>. QED
  BY <1>1, <1>2, <1>3, <1>4, <1>5, <1>6, WorkerMoves

(* A peer that is out of reach leaves everything as it was; if the challenge *)
(* is valid by then, this was not the first time that it was asked.          *)
LEMMA FetchFailsKeeps ==
  ASSUME IInv, NEW w \in Requests, FetchFails(w)
  PROVE  IInv'
<1>. DEFINE k == [worker[w] EXCEPT !.pc = "report", !.status = None]
<1>1. k \in WorkerRecord
  BY Working DEF FetchFails, WorkerRecord
<1>2. /\ k.pc = "report" /\ k.status = None /\ k.challenge = worker[w].challenge
      /\ worker[w].pc = "probe"
      /\ k.challenge \in Unreliable /\ TypeOf[k.challenge] = "http-01"
  BY Working DEF FetchFails, WorkerRecord
<1>3. worker' = [worker EXCEPT ![w] = k]
  BY DEF FetchFails
<1>4. UNCHANGED <<accounts, challenges, authorizations, request, server, deaths,
                  restarts, failures, answered, proved, late>>
  BY DEF FetchFails, store, faults, history
<1>. HIDE DEF k
<1>5. Settles(worker[w], k.challenge) => Settles(k, k.challenge)
  BY <1>2, RunAssumption DEF Settles
<1>. QED
  BY <1>1, <1>2, <1>3, <1>4, <1>5, WorkerMoves

LEMMA ReportKeeps ==
  ASSUME IInv, NEW w \in Requests, Report(w)
  PROVE  IInv'
<1>. DEFINE k == [worker[w] EXCEPT !.pc = IF worker[w].status = "valid" THEN "done" ELSE "failed"]
<1>1. k \in WorkerRecord
  BY Working DEF Report, WorkerRecord
<1>2. /\ k.pc = IF worker[w].status = "valid" THEN "done" ELSE "failed"
      /\ k.status = worker[w].status
      /\ k.challenge = worker[w].challenge /\ worker[w].pc = "report"
  BY Working DEF Report, WorkerRecord
<1>3. worker' = [worker EXCEPT ![w] = k]
  BY DEF Report
<1>4. UNCHANGED <<accounts, challenges, authorizations, request, server, deaths,
                  restarts, failures, answered, proved, late>>
  BY DEF Report, store, faults, history
<1>. HIDE DEF k
<1>5. Settles(worker[w], k.challenge) => Settles(k, k.challenge)
  BY <1>2 DEF Settles
<1>. QED
  BY <1>1, <1>2, <1>3, <1>4, <1>5, WorkerMoves

(* The verdict is "valid" only if the peer served what the worker looks for, *)
(* which is an answer: the challenge is proved.                              *)
LEMMA ProbeKeeps ==
  ASSUME IInv, NEW w \in Requests, NEW answer, Probe(w, answer)
  PROVE  IInv'
<1>. DEFINE c == worker[w].challenge
            verdict == Verdict(w, answer)
            new == ServiceUpdate(challenges[c], [processing |-> FALSE, status |-> verdict])
            k == [worker[w] EXCEPT !.pc = IF Engine = "mongodb" THEN "reread" ELSE "judge",
                                   !.status = verdict]
            found == {key \in answered[c] : answer = KeyAuthorization(c, key)}
<1>1. /\ c \in Challenges /\ challenges[c] \in ChallengeRecord
      /\ challenges[c].keyAuthorization # None
      /\ worker[w].keyAuthorization \in AnswersTo(c)
      /\ worker[w] \in WorkerRecord
      /\ w \notin late
  BY Working DEF Probe
<1>2. verdict \in {"valid", "invalid"} /\ (verdict = "valid" => found # {})
  BY <1>1 DEF Verdict, AnswersTo
<1>3. UNCHANGED <<accounts, authorizations, request, server, deaths, restarts, failures,
                  answered, late>>
  BY DEF Probe, faults
<1>4. /\ proved' \in [Challenges -> SUBSET Keys]
      /\ proved'[c] = proved[c] \cup found
      /\ \A d \in Challenges \ {c} : proved'[d] = proved[d]
      /\ found \subseteq answered[c]
  <2>1. found \subseteq answered[c] /\ answered[c] \in SUBSET Keys
    BY <1>1, Answers
  <2>2. proved' = [proved EXCEPT ![c] = @ \cup found]
    BY DEF Probe
  <2>. HIDE DEF found
  <2>. QED
    BY <1>1, <2>1, <2>2 DEF IInv, TypeOK
<1>5. /\ new \in ChallengeRecord /\ new.status = verdict
      /\ new.keyAuthorization = challenges[c].keyAuthorization
  <2>. HIDE DEF verdict
  <2>1. new = [challenges[c] EXCEPT !.status = verdict] /\ new \in ChallengeRecord
    BY <1>1, <1>2, VerdictUpdate, VerdictTyped
  <2>. QED
    BY <1>1, <2>1 DEF ChallengeRecord
<1>6. /\ k \in WorkerRecord /\ k.challenge = c /\ k.status = verdict
      /\ k.pc \in {"reread", "judge"}
  <2>. HIDE DEF verdict
  <2>. QED
    BY <1>1, <1>2 DEF WorkerRecord
<1>7. /\ challenges' = [challenges EXCEPT ![c] = new]
      /\ worker' = [worker EXCEPT ![w] = k]
      /\ worker[w].pc = "probe"
  BY DEF Probe
<1>. HIDE DEF new, k, verdict, found
<1>8. /\ challenges' \in [Challenges -> ChallengeRecord]
      /\ challenges'[c] = new
      /\ \A d \in Challenges \ {c} : challenges'[d] = challenges[d]
  BY <1>1, <1>5, <1>7 DEF IInv, TypeOK
<1>9. /\ worker' \in [Requests -> WorkerRecord]
      /\ worker'[w] = k
      /\ \A v \in Requests \ {w} : worker'[v] = worker[v]
  BY <1>6, <1>7 DEF IInv, TypeOK
<1>10. \A d \in Challenges : challenges'[d].keyAuthorization = challenges[d].keyAuthorization
  BY <1>1, <1>5, <1>8
<1>11. TypeOK'
  BY <1>3, <1>4, <1>8, <1>9 DEF IInv, TypeOK
<1>12. StoredIsOwn'
  BY <1>3, <1>10 DEF IInv, StoredIsOwn, AnswersTo, OwnersKeys, Owner
<1>13. RequestsChecked'
  <2>. SUFFICES ASSUME NEW s \in Requests PROVE Checked(s, request[s])'
    BY DEF RequestsChecked
  <2>1. worker[s].pc = "none" => worker'[s].pc = "none"
    BY <1>7, <1>9
  <2>. QED
    BY <1>3, <1>10, <2>1, Standing DEF Checked, OwnersKeys, Owner
<1>14. WorkersLookForOwn'
  BY <1>1, <1>3, <1>6, <1>9, <1>10 DEF IInv, WorkersLookForOwn, AnswersTo
<1>15. ValidIsProved'
  <2>1. \A d \in Challenges : proved'[d] \subseteq answered'[d]
    BY <1>3, <1>4 DEF IInv, ValidIsProved
  <2>2. \A d \in Challenges : proved[d] # {} => proved'[d] # {}
    BY <1>1, <1>4
  <2>3. verdict = "valid" => proved'[c] # {}
    BY <1>2, <1>4
  <2>4. \A d \in Challenges : challenges'[d].status = "valid" => proved'[d] # {}
    BY <1>5, <1>8, <2>2, <2>3 DEF IInv, ValidIsProved
  <2>5. ASSUME NEW v \in Requests, worker'[v].pc = "judge", worker'[v].status = "valid"
        PROVE  proved'[worker'[v].challenge] # {}
    <3>1. CASE v = w
      BY <3>1, <2>5, <1>6, <1>9, <2>3
    <3>2. CASE v # w
      <4>1. worker[v].challenge \in Challenges /\ proved[worker[v].challenge] # {}
        BY <3>2, <2>5, <1>9, Working DEF IInv, ValidIsProved
      <4>. QED
        BY <3>2, <4>1, <1>9, <2>2
    <3>. QED
      BY <3>1, <3>2
  <2>. QED
    BY <2>1, <2>4, <2>5 DEF ValidIsProved
<1>16. LateIsRefused' /\ NoLateVerification'
  BY <1>1, <1>3, <1>9
  DEF IInv, TypeOK, LateIsRefused, NoLateVerification, BoundToFail, TooLate, Owner
<1>17. AuthorizationEarned'
  <2>1. \A d \in Challenges : proved[d] \subseteq proved'[d]
    BY <1>1, <1>4
  <2>. QED
    BY <1>3, <2>1 DEF IInv, AuthorizationEarned, OwnersKeys, Owner
<1>18. ValidChallengeSettles'
  <2>. SUFFICES ASSUME restarts = 0, failures = 0, NEW d \in Challenges,
                       challenges'[d].status = "valid",
                       authorizations[AuthorizationOf[d]] # "valid"
                PROVE  \E v \in Requests : Settles(worker[v], d)'
    BY <1>3 DEF ValidChallengeSettles
  <2>1. CASE d = c
    BY <2>1, <1>5, <1>6, <1>8, <1>9 DEF Settles
  <2>2. CASE d # c
    <3>1. PICK v \in Requests : Settles(worker[v], d)
      BY <2>2, <1>8 DEF IInv, ValidChallengeSettles
    <3>2. v # w
      BY <2>2, <3>1 DEF Settles
    <3>. QED
      BY <1>3, <1>9, <3>1, <3>2 DEF Settles, MayRepeat
  <2>. QED
    BY <2>1, <2>2
<1>. QED
  BY <1>11, <1>12, <1>13, <1>14, <1>15, <1>16, <1>17, <1>18 DEF IInv

(* The authorization that becomes valid is the one of a challenge of which   *)
(* an answer, hence one with a key of the owner's kid, is proved.            *)
LEMMA JudgeKeeps ==
  ASSUME IInv, NEW w \in Requests, Judge(w)
  PROVE  IInv'
<1>. DEFINE c == worker[w].challenge
            z == AuthorizationOf[c]
            k == [worker[w] EXCEPT !.pc = "report"]
<1>1. /\ c \in Challenges /\ z \in Authorizations
      /\ worker[w] \in WorkerRecord /\ worker[w].pc = "judge" /\ w \notin late
  BY Working, RecordsAssumption DEF Judge
<1>2. UNCHANGED <<accounts, challenges, request, server, deaths, restarts, failures,
                  answered, proved, late>>
  BY DEF Judge, faults, history
<1>3. k \in WorkerRecord /\ k.pc = "report" /\ k.challenge = c /\ k.status = worker[w].status
  BY <1>1 DEF WorkerRecord
<1>4. worker' = [worker EXCEPT ![w] = k]
  BY DEF Judge
<1>. HIDE DEF k
<1>5. /\ worker' \in [Requests -> WorkerRecord]
      /\ worker'[w] = k
      /\ \A v \in Requests \ {w} : worker'[v] = worker[v]
  BY <1>3, <1>4 DEF IInv, TypeOK
<1>6. CASE /\ worker[w].status = "valid"
           /\ authorizations' = [authorizations EXCEPT ![z] = "valid"]
  <2>1. /\ authorizations' \in [Authorizations -> {"pending", "valid"}]
        /\ authorizations'[z] = "valid"
        /\ \A a \in Authorizations \ {z} : authorizations'[a] = authorizations[a]
    BY <1>1, <1>6 DEF IInv, TypeOK
  <2>2. TypeOK'
    BY <1>2, <1>5, <2>1 DEF IInv, TypeOK
  <2>3. StoredIsOwn'
    BY <1>2 DEF IInv, StoredIsOwn, AnswersTo, OwnersKeys, Owner
  <2>4. RequestsChecked'
    <3>. SUFFICES ASSUME NEW s \in Requests PROVE Checked(s, request[s])'
      BY DEF RequestsChecked
    <3>. QED
      BY <1>1, <1>2, <1>5, Standing DEF Checked, OwnersKeys, Owner
  <2>5. WorkersLookForOwn' /\ ValidIsProved'
    <3>1. \A v \in Requests : /\ worker'[v].challenge = worker[v].challenge
                             /\ \/ worker'[v] = worker[v]
                                \/ worker[v].pc # "none" /\ worker'[v].pc = "report"
      BY <1>1, <1>3, <1>5
    <3>2. WorkersLookForOwn'
      BY <1>2, <3>1 DEF IInv, WorkersLookForOwn, AnswersTo
    <3>3. ValidIsProved'
      BY <1>2, <3>1 DEF IInv, ValidIsProved
    <3>. QED
      BY <3>2, <3>3
  <2>6. LateIsRefused'
    <3>1. \A d \in Challenges : TooLate(d) => TooLate(d)'
      BY <1>2, <2>1, RecordsAssumption DEF TooLate, Owner
    <3>2. \A d : TooLate(d) => d \in Challenges
      BY DEF TooLate
    <3>. QED
      BY <1>2, <3>1, <3>2 DEF IInv, LateIsRefused, BoundToFail, Owner
  <2>7. NoLateVerification'
    BY <1>1, <1>2, <1>5 DEF IInv, TypeOK, NoLateVerification
  <2>8. AuthorizationEarned'
    <3>1. OwnersKeys(c) \cap proved[c] # {}
      <4>1. proved[c] # {} /\ proved[c] \subseteq answered[c]
        BY <1>1, <1>6 DEF IInv, ValidIsProved
      <4>. QED
        BY <1>1, <4>1, Answers
    <3>. QED
      BY <1>1, <1>2, <2>1, <3>1 DEF IInv, AuthorizationEarned, OwnersKeys, Owner
  <2>9. ValidChallengeSettles'
    <3>. SUFFICES ASSUME restarts = 0, failures = 0, NEW d \in Challenges,
                         challenges[d].status = "valid",
                         authorizations'[AuthorizationOf[d]] # "valid"
                  PROVE  \E v \in Requests : Settles(worker[v], d)'
      BY <1>2 DEF ValidChallengeSettles
    <3>1. AuthorizationOf[d] # z /\ authorizations[AuthorizationOf[d]] # "valid"
      BY <2>1, RecordsAssumption
    <3>2. PICK v \in Requests : Settles(worker[v], d)
      BY <3>1 DEF IInv, ValidChallengeSettles
    <3>3. v # w
      BY <3>1, <3>2 DEF Settles
    <3>. QED
      BY <1>2, <1>5, <3>2, <3>3 DEF Settles, MayRepeat
  <2>. QED
    BY <2>2, <2>3, <2>4, <2>5, <2>6, <2>7, <2>8, <2>9 DEF IInv
<1>7. CASE worker[w].status # "valid" /\ UNCHANGED authorizations
  <2>1. ~Settles(worker[w], c) \/ MayRepeat(c)
    BY <1>1, <1>7 DEF Settles
  <2>2. Settles(worker[w], c) => Settles(k, c)
    BY <1>1, <1>7 DEF Settles
  <2>. QED
    BY <1>1, <1>2, <1>3, <1>4, <1>7, <2>2, WorkerMoves
<1>. QED
  BY <1>6, <1>7 DEF Judge

-----------------------------------------------------------------------------
(* Crashes, failing calls, and the account that is deactivated meanwhile.    *)

(* Requests that are given up or refused and workers that start again or are *)
(* given up promise nothing.                                                 *)
LEMMA Stops ==
  ASSUME IInv,
         UNCHANGED <<accounts, authorizations, challenges, answered, proved, late>>,
         server' \in {"up", "down"},
         deaths' \in Nat, restarts' \in Nat, failures' \in Nat,
         request' \in [Requests -> RequestRecord],
         \A r \in Requests :
           \/ request'[r] = request[r]
           \/ request[r].pc # "idle" /\ request'[r].pc \in {"answered", "lost"},
         worker' \in [Requests -> WorkerRecord],
         \A w \in Requests :
           \/ worker'[w] = worker[w]
           \/ /\ worker[w].pc # "none" /\ worker'[w].challenge = worker[w].challenge
              /\ worker'[w].pc \in {"queued", "report", "failed"},
         ValidChallengeSettles'
  PROVE  IInv'
<1>1. TypeOK'
  BY DEF IInv, TypeOK
<1>2. StoredIsOwn' /\ AuthorizationEarned'
  BY DEF IInv, StoredIsOwn, AnswersTo, AuthorizationEarned, OwnersKeys, Owner
<1>3. RequestsChecked'
  <2>. SUFFICES ASSUME NEW s \in Requests PROVE Checked(s, request[s])'
    BY DEF RequestsChecked
  <2>. QED
    BY Standing DEF Checked, OwnersKeys, Owner
<1>4. WorkersLookForOwn'
  BY DEF IInv, WorkersLookForOwn, AnswersTo
<1>5. ValidIsProved'
  BY DEF IInv, ValidIsProved
<1>6. LateIsRefused'
  <2>. SUFFICES ASSUME NEW s \in late PROVE BoundToFail(request[s])'
    BY DEF LateIsRefused
  <2>1. s \in Requests /\ BoundToFail(request[s])
    BY DEF IInv, TypeOK, LateIsRefused
  <2>. QED
    BY <2>1 DEF BoundToFail, TooLate, Owner
<1>7. NoLateVerification'
  <2>. SUFFICES ASSUME NEW s \in late
                PROVE worker'[s].pc = "none" /\ request'[s].pc # "launch"
    BY DEF NoLateVerification
  <2>1. s \in Requests /\ worker[s].pc = "none" /\ request[s].pc # "launch"
    BY DEF IInv, TypeOK, NoLateVerification
  <2>. QED
    BY <2>1
<1>. QED
  BY <1>1, <1>2, <1>3, <1>4, <1>5, <1>6, <1>7 DEF IInv

(* What the farm does with the calls of a child that is dead.                *)
LEMMA QueuedAgainKeeps ==
  ASSUME IInv, NEW type \in ChallengeTypes, NEW calls \in SUBSET WorkersOf(type),
         QueuedAgain(calls),
         UNCHANGED <<accounts, authorizations, challenges, request, server, restarts,
                     failures, answered, proved, late>>,
         deaths' \in Nat, deaths' = deaths \/ deaths' > 0,
         \A c \in Challenges : TypeOf[c] = type => MayRepeat(c)'
  PROVE  IInv'
<1>1. ASSUME NEW w \in Requests
      PROVE  /\ worker'[w] \in WorkerRecord
             /\ w \notin calls => worker'[w] = worker[w]
             /\ w \in calls => /\ worker[w].pc # "none" /\ worker[w].challenge \in Challenges
                               /\ TypeOf[worker[w].challenge] = type
                               /\ worker'[w].challenge = worker[w].challenge
                               /\ worker'[w].pc = "queued"
  <2>1. worker[w] \in WorkerRecord
    BY DEF IInv, TypeOK
  <2>2. CASE w \in calls
    <3>1. worker'[w] = [worker[w] EXCEPT !.pc = "queued", !.keyAuthorization = None,
                                         !.status = None]
      BY <2>2 DEF QueuedAgain
    <3>2. worker[w].pc # "none" /\ TypeOf[worker[w].challenge] = type
      BY <2>2 DEF WorkersOf, Active
    <3>. QED
      BY <2>1, <2>2, <3>1, <3>2, Working DEF WorkerRecord
  <2>3. CASE w \notin calls
    BY <2>1, <2>3 DEF QueuedAgain
  <2>. QED
    BY <2>2, <2>3
<1>2. worker' \in [Requests -> WorkerRecord]
  BY <1>1 DEF QueuedAgain
<1>3. request' \in [Requests -> RequestRecord] /\ server' \in {"up", "down"}
      /\ restarts' \in Nat /\ failures' \in Nat
  BY DEF IInv, TypeOK
<1>4. ValidChallengeSettles'
  <2>. SUFFICES ASSUME restarts = 0, failures = 0, NEW d \in Challenges,
                       challenges[d].status = "valid", authorizations[AuthorizationOf[d]] # "valid"
                PROVE  \E v \in Requests : Settles(worker[v], d)'
    BY DEF ValidChallengeSettles
  <2>1. PICK v \in Requests : Settles(worker[v], d)
    BY DEF IInv, ValidChallengeSettles
  <2>2. CASE v \in calls
    <3>1. worker'[v].challenge = d /\ worker'[v].pc = "queued" /\ MayRepeat(d)'
      BY <1>1, <2>1, <2>2 DEF Settles
    <3>. QED
      BY <3>1 DEF Settles
  <2>3. CASE v \notin calls
    <3>1. MayRepeat(d) => MayRepeat(d)'
      BY DEF MayRepeat
    <3>2. worker'[v] = worker[v]
      BY <1>1, <2>3
    <3>. QED
      BY <2>1, <3>1, <3>2 DEF Settles
  <2>. QED
    BY <2>2, <2>3
<1>. QED
  BY <1>1, <1>2, <1>3, <1>4, Stops

(* A refused connection ends the server, or a child of the farm whose calls  *)
(* may be made again from now on as they might before.                       *)
LEMMA ConnectionErrorKeeps ==
  ASSUME IInv, NEW w \in Requests, ConnectionError(w)
  PROVE  IInv'
<1>1. UNCHANGED <<accounts, authorizations, challenges, request, deaths, restarts, failures,
                  answered, proved, late>>
  BY DEF ConnectionError, store, history
<1>2. CASE server' = "down" /\ UNCHANGED worker
  <2>1. ValidChallengeSettles'
    BY <1>1, <1>2 DEF IInv, ValidChallengeSettles, Settles, MayRepeat
  <2>. QED
    BY <1>1, <1>2, <2>1, Stops DEF IInv, TypeOK
<1>3. CASE /\ Engine = "mongodb"
           /\ \E calls \in SUBSET WorkersOf("tls-sni-01") : w \in calls /\ QueuedAgain(calls)
           /\ UNCHANGED server
  <2>1. worker[w].challenge \in Unreliable /\ TypeOf[worker[w].challenge] = "tls-sni-01"
    BY DEF ConnectionError
  <2>2. \A c \in Challenges : TypeOf[c] = "tls-sni-01" => MayRepeat(c)'
    BY <1>3, <2>1 DEF MayRepeat
  <2>3. deaths' \in Nat
    BY <1>1 DEF IInv, TypeOK
  <2>4. "tls-sni-01" \in ChallengeTypes
    BY DEF ChallengeTypes
  <2>. QED
    BY <1>1, <1>3, <2>2, <2>3, <2>4, QueuedAgainKeeps
<1>. QED
  BY <1>2, <1>3 DEF ConnectionError

LEMMA ChildDeathKeeps ==
  ASSUME IInv, NEW type \in ChallengeTypes, ChildDeath(type)
  PROVE  IInv'
<1>1. UNCHANGED <<accounts, authorizations, challenges, request, server, restarts, failures,
                  answered, proved, late>>
  BY DEF ChildDeath, store, history
<1>2. deaths' \in Nat /\ deaths' > 0
  BY DEF ChildDeath, IInv, TypeOK
<1>3. \A c \in Challenges : MayRepeat(c)'
  BY <1>2 DEF MayRepeat
<1>. QED
  BY <1>1, <1>2, <1>3, QueuedAgainKeeps DEF ChildDeath

LEMMA RequestCallFailsKeeps ==
  ASSUME IInv, NEW r \in Requests, RequestCallFails(r)
  PROVE  IInv'
<1>1. UNCHANGED <<accounts, authorizations, challenges, worker, server, deaths, restarts,
                  answered, proved, late>>
  BY DEF RequestCallFails, store, history
<1>2. failures' \in Nat /\ failures' # 0
  BY DEF RequestCallFails, IInv, TypeOK
<1>3. PICK code \in Codes : Answer(r, code) /\ request[r].pc # "idle"
  BY DEF RequestCallFails, Codes
<1>4. /\ request' \in [Requests -> RequestRecord]
      /\ request'[r].pc = "answered"
      /\ \A s \in Requests \ {r} : request'[s] = request[s]
  <2>. DEFINE q == [Idle EXCEPT !.pc = "answered", !.answer = code]
  <2>1. q \in RequestRecord /\ q.pc = "answered"
    BY DEF Idle, RequestRecord
  <2>2. request' = [request EXCEPT ![r] = q]
    BY <1>3 DEF Answer
  <2>. HIDE DEF q
  <2>. QED
    BY <2>1, <2>2 DEF IInv, TypeOK
<1>5. ValidChallengeSettles'
  BY <1>2 DEF ValidChallengeSettles
<1>. QED
  BY <1>1, <1>2, <1>3, <1>4, <1>5, Stops DEF IInv, TypeOK

LEMMA WorkerCallFailsKeeps ==
  ASSUME IInv, NEW w \in Requests, WorkerCallFails(w)
  PROVE  IInv'
<1>1. UNCHANGED <<accounts, authorizations, challenges, request, server, deaths, restarts,
                  answered, proved, late>>
  BY DEF WorkerCallFails, store, history
<1>2. failures' \in Nat /\ failures' # 0
  BY DEF WorkerCallFails, IInv, TypeOK
<1>3. worker[w].pc # "none"
  BY DEF WorkerCallFails
<1>4. /\ worker' \in [Requests -> WorkerRecord]
      /\ worker'[w].pc = "report" /\ worker'[w].challenge = worker[w].challenge
      /\ \A v \in Requests \ {w} : worker'[v] = worker[v]
  <2>. DEFINE k == [worker[w] EXCEPT !.pc = "report", !.status = None]
  <2>1. k \in WorkerRecord /\ k.pc = "report" /\ k.challenge = worker[w].challenge
    BY <1>3, Working DEF WorkerRecord
  <2>2. worker' = [worker EXCEPT ![w] = k]
    BY DEF WorkerCallFails
  <2>. HIDE DEF k
  <2>. QED
    BY <2>1, <2>2 DEF IInv, TypeOK
<1>5. ValidChallengeSettles'
  BY <1>2 DEF ValidChallengeSettles
<1>. QED
  BY <1>1, <1>2, <1>3, <1>4, <1>5, Stops DEF IInv, TypeOK

LEMMA RestartKeeps ==
  ASSUME IInv, Restart
  PROVE  IInv'
<1>1. UNCHANGED <<accounts, authorizations, challenges, server, deaths, failures,
                  answered, proved, late>>
  BY DEF Restart, store, history
<1>2. restarts' \in Nat /\ restarts' # 0
  BY DEF Restart, IInv, TypeOK
<1>3. ASSUME NEW r \in Requests
      PROVE  /\ request'[r] \in RequestRecord
             /\ \/ request'[r] = request[r]
                \/ request[r].pc # "idle" /\ request'[r].pc = "lost"
  <2>1. request[r] \in RequestRecord
    BY DEF IInv, TypeOK
  <2>2. [Idle EXCEPT !.pc = "lost"] \in RequestRecord /\ [Idle EXCEPT !.pc = "lost"].pc = "lost"
    BY DEF Idle, RequestRecord
  <2>. QED
    BY <2>1, <2>2 DEF Restart, Busy
<1>4. ASSUME NEW w \in Requests
      PROVE  /\ worker'[w] \in WorkerRecord
             /\ \/ worker'[w] = worker[w]
                \/ /\ worker[w].pc # "none" /\ worker'[w].challenge = worker[w].challenge
                   /\ worker'[w].pc = "failed"
  <2>1. worker[w] \in WorkerRecord
    BY DEF IInv, TypeOK
  <2>2. CASE Active(w)
    <3>1. worker'[w] = [worker[w] EXCEPT !.pc = "failed"]
      BY <2>2 DEF Restart
    <3>. QED
      BY <2>1, <2>2, <3>1 DEF Active, WorkerRecord
  <2>3. CASE ~Active(w)
    BY <2>1, <2>3 DEF Restart
  <2>. QED
    BY <2>2, <2>3
<1>5. request' \in [Requests -> RequestRecord]
  BY <1>3 DEF Restart
<1>6. worker' \in [Requests -> WorkerRecord]
  BY <1>4 DEF Restart
<1>7. ValidChallengeSettles'
  BY <1>2 DEF ValidChallengeSettles
<1>. QED
  BY <1>1, <1>2, <1>3, <1>4, <1>5, <1>6, <1>7, Stops DEF IInv, TypeOK

(* A deactivated account is never active again: what was too late stays so.  *)
LEMMA DeactivateKeeps ==
  ASSUME IInv, NEW a \in Accounts, Deactivate(a)
  PROVE  IInv'
<1>1. UNCHANGED <<authorizations, challenges, request, worker, server, deaths, restarts,
                  failures, answered, proved, late>>
  BY DEF Deactivate, faults, history
<1>2. /\ accounts' \in [Accounts -> {"valid", "deactivated"}]
      /\ \A o \in Accounts : accounts[o] = "deactivated" => accounts'[o] = "deactivated"
  BY DEF Deactivate, IInv, TypeOK
<1>3. TypeOK'
  BY <1>1, <1>2 DEF IInv, TypeOK
<1>4. StoredIsOwn' /\ WorkersLookForOwn' /\ ValidIsProved'
  BY <1>1 DEF IInv, StoredIsOwn, AnswersTo, OwnersKeys, Owner, WorkersLookForOwn, ValidIsProved
<1>5. RequestsChecked' /\ NoLateVerification'
  BY <1>1 DEF IInv, RequestsChecked, Checked, OwnersKeys, Owner, NoLateVerification
<1>6. LateIsRefused'
  <2>1. \A c \in Challenges : Owner(c) \in Accounts
    BY RecordsAssumption DEF Owner
  <2>. SUFFICES ASSUME NEW s \in late PROVE BoundToFail(request[s])'
    BY <1>1 DEF LateIsRefused
  <2>2. BoundToFail(request[s])
    BY DEF IInv, LateIsRefused
  <2>3. TooLate(request[s].challenge) => TooLate(request[s].challenge)'
    BY <1>1, <1>2, <2>1 DEF TooLate, Owner
  <2>4. request[s].pc = "account" => request[s].challenge \in Challenges
    BY <2>2 DEF BoundToFail, TooLate
  <2>. QED
    BY <1>1, <1>2, <2>1, <2>2, <2>3, <2>4 DEF BoundToFail, Owner
<1>7. AuthorizationEarned' /\ ValidChallengeSettles'
  BY <1>1 DEF IInv, AuthorizationEarned, OwnersKeys, Owner, ValidChallengeSettles, Settles,
              MayRepeat
<1>. QED
  BY <1>3, <1>4, <1>5, <1>6, <1>7 DEF IInv

LEMMA StutterKeeps ==
  ASSUME IInv, UNCHANGED vars
  PROVE  IInv'
<1>1. Untouched /\ UNCHANGED <<request, late>>
  BY DEF vars, Untouched, faults
<1>2. TypeOK'
  BY <1>1 DEF IInv, TypeOK, Untouched, faults
<1>3. RequestsChecked' /\ LateIsRefused' /\ NoLateVerification'
  BY <1>1 DEF IInv, Untouched, RequestsChecked, Checked, OwnersKeys, Owner, LateIsRefused,
              BoundToFail, TooLate, NoLateVerification
<1>. QED
  BY <1>1, <1>2, <1>3, UntouchedParts DEF IInv

-----------------------------------------------------------------------------
LEMMA NextKeeps == IInv /\ [Next]_vars => IInv'
<1>. SUFFICES ASSUME IInv, [Next]_vars PROVE IInv'
  OBVIOUS
<1>1. ASSUME NEW r \in Requests, NEW m \in Posts,
             Arrive(r, m.challenge, m.key, m.body)
      PROVE  IInv'
  <2>1. m.challenge \in Challenges \cup {None} /\ m.key \in Keys \cup {None} /\ m.body \in Bodies
    BY RecordsAssumption
  <2>. QED
    BY <1>1, <2>1, ArriveKeeps
<1>2. ASSUME NEW r \in Requests, RequestStep(r)
      PROVE  IInv'
  BY <1>2, ReadChallengeKeeps, ReadAuthorizationKeeps, ReadAccountKeeps, AcceptKeeps,
     LaunchKeeps, ProxyKeeps
  DEF RequestStep
<1>3. ASSUME NEW w \in Requests, WorkerStep(w)
      PROVE  IInv'
  BY <1>3, RunKeeps, ProbeKeeps, RereadKeeps, JudgeKeeps, FetchFailsKeeps,
     ConnectionErrorKeeps, ReportKeeps
  DEF WorkerStep
<1>4. ASSUME NEW r \in Requests, RequestCallFails(r) \/ WorkerCallFails(r)
      PROVE  IInv'
  BY <1>4, RequestCallFailsKeeps, WorkerCallFailsKeeps
<1>5. ASSUME NEW type \in ChallengeTypes, ChildDeath(type)
      PROVE  IInv'
  BY <1>5, ChildDeathKeeps
<1>6. CASE Restart
  BY <1>6, RestartKeeps
<1>7. ASSUME NEW a \in Accounts, Deactivate(a)
      PROVE  IInv'
  BY <1>7, DeactivateKeeps
<1>8. CASE Quiescent \/ UNCHANGED vars
  BY <1>8, StutterKeeps DEF Quiescent
<1>. QED
  BY <1>1, <1>2, <1>3, <1>4, <1>5, <1>6, <1>7, <1>8 DEF Next

(* The invariant everything else follows from.                               *)
THEOREM Invariance == Spec => []IInv
BY InitIInv, NextKeeps, PTL DEF Spec

(* Every record keeps the attributes its collection declares.                *)
THEOREM TypeCorrect == Spec => []TypeOK
<1>1. IInv => TypeOK
  BY DEF IInv
<1>. QED
  BY <1>1, Invariance, PTL

(* No authorization becomes valid unless one of its challenges was answered  *)
(* with a key that has the kid of its account, and its peer served the       *)
(* answer made with this key: whatever else clients name their keys, however *)
(* requests, workers, crashes, restarts and failing calls interleave.        *)
THEOREM EarnedAlways == Spec => []AuthorizationEarned
<1>1. IInv => AuthorizationEarned
  BY DEF IInv
<1>. QED
  BY <1>1, Invariance, PTL

(* A request that comes too late never starts a verification.                *)
THEOREM LateNeverVerified == Spec => []NoLateVerification
<1>1. IInv => NoLateVerification
  BY DEF IInv
<1>. QED
  BY <1>1, Invariance, PTL

(* While the server is not restarted and no call fails, a valid challenge is *)
(* never left without somebody who is about to make its authorization valid, *)
(* or to ask the peer once more, however often children of the farm die.     *)
THEOREM ValidSettles == Spec => []ValidChallengeSettles
<1>1. IInv => ValidChallengeSettles
  BY DEF IInv
<1>. QED
  BY <1>1, Invariance, PTL

-----------------------------------------------------------------------------
(* Validation implements the abstract promise.                               *)

LEMMA PromiseStart == Init => Promise!PromiseInit
BY DEF Init, Promise!PromiseInit

(* Steps that write neither authorizations nor what is answered or proved.   *)
LEMMA PromiseStutter ==
  ASSUME UNCHANGED <<authorizations, answered, proved>>
  PROVE  UNCHANGED Promise!promiseVars
BY DEF Promise!promiseVars

LEMMA AcceptPromise ==
  ASSUME IInv, NEW r \in Requests, Accept(r)
  PROVE  [Promise!PromiseNext]_Promise!promiseVars
<1>. DEFINE c == request[r].challenge
            k == request[r].key
<1>1. UNCHANGED <<authorizations, proved>>
  BY DEF Accept
<1>2. CASE UNCHANGED answered
  BY <1>1, <1>2, PromiseStutter
<1>3. CASE answered' = [answered EXCEPT ![c] = @ \cup {k}]
  <2>1. c \in Challenges /\ k \in OwnersKeys(c)
    BY Standing DEF Accept, Checked
  <2>2. Promise!AnswerChallenge(c, k)
    BY <1>1, <1>3 DEF Promise!AnswerChallenge
  <2>. HIDE DEF c, k
  <2>. QED
    BY <2>1, <2>2 DEF Promise!PromiseNext
<1>. QED
  BY <1>2, <1>3 DEF Accept

(* The peer serves one thing, hence the answer with one key if any.          *)
LEMMA ProbePromise ==
  ASSUME IInv, NEW w \in Requests, NEW answer, Probe(w, answer)
  PROVE  [Promise!PromiseNext]_Promise!promiseVars
<1>. DEFINE c == worker[w].challenge
            found == {k \in answered[c] : answer = KeyAuthorization(c, k)}
<1>1. c \in Challenges
  BY Working DEF Probe
<1>2. UNCHANGED <<authorizations, answered>> /\ proved' = [proved EXCEPT ![c] = @ \cup found]
  BY DEF Probe
<1>3. CASE found = {}
  <2>. HIDE DEF found
  <2>1. UNCHANGED proved
    BY <1>1, <1>2, <1>3 DEF IInv, TypeOK
  <2>. QED
    BY <1>2, <2>1, PromiseStutter
<1>4. CASE found # {}
  <2>1. PICK k \in answered[c] : found = {k}
    BY <1>4 DEF KeyAuthorization
  <2>. HIDE DEF found
  <2>2. Promise!Prove(c, k)
    BY <1>2, <2>1 DEF Promise!Prove
  <2>. HIDE DEF c
  <2>. QED
    BY <1>1, <2>1, <2>2 DEF Promise!PromiseNext
<1>. QED
  BY <1>3, <1>4

LEMMA JudgePromise ==
  ASSUME IInv, NEW w \in Requests, Judge(w)
  PROVE  [Promise!PromiseNext]_Promise!promiseVars
<1>. DEFINE c == worker[w].challenge
            z == AuthorizationOf[c]
<1>1. UNCHANGED <<answered, proved>>
  BY DEF Judge, history
<1>2. CASE UNCHANGED authorizations
  BY <1>1, <1>2, PromiseStutter
<1>3. CASE /\ worker[w].status = "valid"
           /\ authorizations' = [authorizations EXCEPT ![z] = "valid"]
  <2>1. c \in Challenges /\ z \in Authorizations
    BY Working, RecordsAssumption DEF Judge
  <2>2. proved[c] # {}
    BY <1>3 DEF Judge, IInv, ValidIsProved
  <2>3. Promise!Authorize(z)
    BY <1>1, <1>3, <2>1, <2>2 DEF Promise!Authorize
  <2>. QED
    BY <2>1, <2>3 DEF Promise!PromiseNext
<1>. QED
  BY <1>2, <1>3 DEF Judge

LEMMA NextPromise == IInv /\ [Next]_vars => [Promise!PromiseNext]_Promise!promiseVars
<1>. SUFFICES ASSUME IInv, [Next]_vars PROVE [Promise!PromiseNext]_Promise!promiseVars
  OBVIOUS
<1>1. ASSUME NEW r \in Requests, NEW m \in Posts,
             Arrive(r, m.challenge, m.key, m.body)
      PROVE  UNCHANGED Promise!promiseVars
  BY <1>1, PromiseStutter DEF Arrive, store
<1>2. ASSUME NEW r \in Requests, RequestStep(r), ~Accept(r)
      PROVE  UNCHANGED Promise!promiseVars
  BY <1>2, PromiseStutter
  DEF RequestStep, ReadChallenge, ReadAuthorization, ReadAccount, Launch, Proxy, store, history
<1>3. ASSUME NEW w \in Requests,
             Run(w) \/ Reread(w) \/ FetchFails(w) \/ ConnectionError(w) \/ Report(w)
      PROVE  UNCHANGED Promise!promiseVars
  BY <1>3, PromiseStutter DEF Run, Reread, FetchFails, ConnectionError, Report, store, history
<1>4. ASSUME NEW w \in Requests, WorkerStep(w)
      PROVE  [Promise!PromiseNext]_Promise!promiseVars
  BY <1>3, <1>4, ProbePromise, JudgePromise DEF WorkerStep
<1>5. ASSUME NEW r \in Requests, RequestCallFails(r) \/ WorkerCallFails(r)
      PROVE  UNCHANGED Promise!promiseVars
  BY <1>5, PromiseStutter DEF RequestCallFails, WorkerCallFails, store, history
<1>6. ASSUME NEW type \in ChallengeTypes, ChildDeath(type)
      PROVE  UNCHANGED Promise!promiseVars
  BY <1>6, PromiseStutter DEF ChildDeath, store, history
<1>7. CASE Restart
  BY <1>7, PromiseStutter DEF Restart, store, history
<1>8. ASSUME NEW a \in Accounts, Deactivate(a)
      PROVE  UNCHANGED Promise!promiseVars
  BY <1>8, PromiseStutter DEF Deactivate, history
<1>9. CASE Quiescent \/ UNCHANGED vars
  BY <1>9, PromiseStutter DEF Quiescent, vars, history
<1>. QED
  BY <1>1, <1>2, <1>4, <1>5, <1>6, <1>7, <1>8, <1>9, AcceptPromise DEF Next

(* The server implements the promise: an answer with a key of the owner's    *)
(* kid, the proof of this very answer, and then the authorization, in this   *)
(* order, and no authorization is taken back.                                *)
THEOREM Refinement == Spec => PromiseKept
BY PromiseStart, NextPromise, Invariance, PTL DEF Spec, PromiseKept, Promise!PromiseSpec

=============================================================================
