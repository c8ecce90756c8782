------------------------------ MODULE Accounts ------------------------------
(* Account registration: the new-account and update-account handlers, the    *)
(* account service and the keystore of the jose service.                     *)
(*                                                                           *)
(* Accounts are kept by the storage engine, the keys of their owners in the  *)
(* memory of the process. A request is verified with the key it carries or,  *)
(* when it names one by its kid, with the key of the keystore; if it is not  *)
(* there the request hangs. Only the creation of an account adds a key.      *)
(*                                                                           *)
(* Every read or write of a collection is a step. Account r is the one       *)
(* request r creates. The contact stands for the terms of service as well,   *)
(* which are written with it.                                                *)
EXTENDS Naturals, FiniteSets

CONSTANTS
  Requests,
  Keys,          \* by their kids: nothing else is compared; who names a kid has its key
  Contacts,      \* the contacts clients send
  Inputs,        \* the requests clients send, see Input
  Persistent,    \* the records outlive the process: MongoDB
  MaxRestarts,   \* bound on the restarts of the server
  None           \* the value null or undefined

(* A request for an account is signed with the key itself, or with its kid,  *)
(* or not at all. The flag is only-return-existing of a new account, and the *)
(* status "deactivated" of an update.                                        *)
Input ==
  [kind : {"new", "update"}, key : Keys \cup {None}, byKid : BOOLEAN,
   contact : Contacts \cup {None}, flag : BOOLEAN]

Codes == {200, 401, 403, 404, 500}

ASSUME AccountsAssumption ==
  /\ Inputs \subseteq Input
  /\ Persistent \in BOOLEAN /\ MaxRestarts \in Nat
  /\ None \notin Requests \cup Keys \cup Contacts \cup Codes

VARIABLES
  accounts,   \* the account each request created, if it did
  keystore,   \* the keys the process knows
  request,    \* control state and local copies of each request
  restarts,
  before      \* history: the requests that were over when one arrived

vars == <<accounts, keystore, request, restarts, before>>

NoAccount == [status |-> "none", contact |-> None, key |-> None]

(* Mutant of NewAccount: the contact is not among the attributes.            *)
BareAccount == [status |-> "valid", key |-> None]

(* AccountService.storageAttributes: what a new record is filled with.       *)
NewAccount == [status |-> "valid", contact |-> None, key |-> None]

Idle ==
  [pc |-> "idle", kind |-> None, key |-> None, byKid |-> FALSE, target |-> None,
   contact |-> None, flag |-> FALSE, answer |-> None, account |-> None]

Existing == {a \in Requests : accounts[a].status # "none"}

Over(r) == request[r].pc \in {"answered", "hanging", "lost"}
Busy(r) == request[r].pc # "idle" /\ ~Over(r)

Goto(r, pc) == request' = [request EXCEPT ![r].pc = pc]

Respond(r, code, a) ==
  request' = [request EXCEPT ![r].pc = "answered", ![r].answer = code, ![r].account = a]

Answer(r, code) == Respond(r, code, None)

-----------------------------------------------------------------------------
(* A request arrives: an update names an account there is, or none (None).   *)
Arrive(r, input, a) ==
  /\ request[r].pc = "idle"
  /\ request' = [request EXCEPT ![r] =
       [Idle EXCEPT !.pc = "verify", !.kind = input.kind, !.key = input.key,
                    !.byKid = input.byKid, !.target = a, !.contact = input.contact,
                    !.flag = input.flag]]
  /\ before' = [before EXCEPT ![r] = {q \in Requests : Over(q)}]
  /\ UNCHANGED <<accounts, keystore, restarts>>

(* JoseService.verify, and the filter that waits for it in vain.             *)
Verify(r) ==
  /\ request[r].pc = "verify"
  /\ IF request[r].byKid /\ request[r].key \notin keystore
     THEN Goto(r, "hanging")
     ELSE Goto(r, IF request[r].kind = "new" THEN "find" ELSE "read")
  /\ UNCHANGED <<accounts, keystore, restarts, before>>

-----------------------------------------------------------------------------
(* POST /new-account, /new-reg.                                              *)

(* Mutant of Find: deactivated accounts are not looked at.                   *)
ValidOnlyFind(r) ==
  LET found == {a \in Existing : accounts[a].key = request[r].key
                                 /\ accounts[a].status = "valid"} IN
  /\ request[r].pc = "find"
  /\ \/ request[r].key = None /\ Answer(r, 500)
     \/ request[r].key # None /\ found = {} /\ request[r].flag /\ Answer(r, 404)
     \/ request[r].key # None /\ found = {} /\ ~request[r].flag /\ Goto(r, "create")
     \/ request[r].key # None /\ \E a \in found : Respond(r, 200, a)
  /\ UNCHANGED <<accounts, keystore, restarts, before>>

(* The account with the key of the request is looked for. Without a key the  *)
(* handler throws. If two have the key, the engine returns either.           *)
Find(r) ==
  LET found == {a \in Existing : accounts[a].key = request[r].key} IN
  /\ request[r].pc = "find"
  /\ \/ request[r].key = None /\ Answer(r, 500)
     \/ request[r].key # None /\ found = {} /\ request[r].flag /\ Answer(r, 404)
     \/ request[r].key # None /\ found = {} /\ ~request[r].flag /\ Goto(r, "create")
     \/ /\ request[r].key # None
        /\ \E a \in found :
             Respond(r, IF accounts[a].status = "deactivated" THEN 403 ELSE 200, a)
  /\ UNCHANGED <<accounts, keystore, restarts, before>>

(* AccountService.create, in three steps: a record of default values, ...    *)
Create(r) ==
  /\ request[r].pc = "create"
  /\ accounts' = [accounts EXCEPT ![r] = NewAccount]
  /\ Goto(r, "fill")
  /\ UNCHANGED <<keystore, restarts, before>>

(* Mutant of Fill: the key is not added to the keystore.                     *)
KeylessFill(r) ==
  /\ request[r].pc = "fill"
  /\ accounts' = [accounts EXCEPT ![r].key = request[r].key,
       ![r].contact = IF request[r].contact = None THEN @ ELSE request[r].contact]
  /\ Respond(r, 200, r)
  /\ UNCHANGED <<keystore, restarts, before>>

(* ... its attributes, an undefined one leaving the default, ...             *)
Fill(r) ==
  /\ request[r].pc = "fill"
  /\ accounts' = [accounts EXCEPT ![r].key = request[r].key,
       ![r].contact = IF request[r].contact = None THEN @ ELSE request[r].contact]
  /\ Goto(r, "addKey")
  /\ UNCHANGED <<keystore, restarts, before>>

(* ... and the key, once the record is written and found by others.          *)
AddKey(r) ==
  /\ request[r].pc = "addKey"
  /\ keystore' = keystore \cup {request[r].key}
  /\ Respond(r, 200, r)
  /\ UNCHANGED <<accounts, restarts, before>>

-----------------------------------------------------------------------------
(* POST /accounts/:accound_id.                                               *)

(* Mutant of Refusal: an account that is deactivated is not refused.         *)
ForgivingRefusal(q) ==
  IF q.target \notin Existing THEN 404
  ELSE IF q.key = None THEN 500
  ELSE IF q.key # accounts[q.target].key THEN 401
  ELSE None

(* The code an update is refused with once the account is read, or None.     *)
Refusal(q) ==
  IF q.target \notin Existing THEN 404
  ELSE IF q.key = None THEN 500
  ELSE IF q.key # accounts[q.target].key THEN 401
  ELSE IF accounts[q.target].status = "deactivated" THEN 403
  ELSE None

Read(r) ==
  LET refusal == Refusal(request[r]) IN
  /\ request[r].pc = "read"
  /\ \/ refusal # None /\ Answer(r, refusal)
     \/ refusal = None /\ request[r].contact # None /\ Goto(r, "write")
     \/ refusal = None /\ request[r].contact = None /\ Goto(r, "status")
  /\ UNCHANGED <<accounts, keystore, restarts, before>>

(* Mutant of Write: the record is written back as it was read, "valid".      *)
StaleWrite(r) ==
  /\ request[r].pc = "write"
  /\ accounts' = [accounts EXCEPT ![request[r].target].contact = request[r].contact,
                                  ![request[r].target].status = "valid"]
  /\ Goto(r, "status")
  /\ UNCHANGED <<keystore, restarts, before>>

(* The contact is written over, whatever has become of the account.          *)
Write(r) ==
  /\ request[r].pc = "write"
  /\ accounts' = [accounts EXCEPT ![request[r].target].contact = request[r].contact]
  /\ Goto(r, "status")
  /\ UNCHANGED <<keystore, restarts, before>>

(* The second write: the account is deactivated if that is asked.            *)
Status(r) ==
  LET a == request[r].target IN
  /\ request[r].pc = "status"
  /\ accounts' = IF request[r].flag
                 THEN [accounts EXCEPT ![a].status = "deactivated"] ELSE accounts
  /\ Respond(r, 200, a)
  /\ UNCHANGED <<keystore, restarts, before>>

RequestStep(r) ==
  \/ Verify(r)
  \/ Find(r)
  \/ Create(r)
  \/ Fill(r)
  \/ AddKey(r)
  \/ Read(r)
  \/ Write(r)
  \/ Status(r)

-----------------------------------------------------------------------------
(* The process restarts with an empty keystore. The accounts are still there *)
(* in MongoDB; the internal database loses them with the process.            *)
Restart ==
  /\ restarts < MaxRestarts
  /\ restarts' = restarts + 1
  /\ keystore' = {}
  /\ accounts' = IF Persistent THEN accounts ELSE [r \in Requests |-> NoAccount]
  /\ request' = [r \in Requests |->
       IF Busy(r) THEN [request[r] EXCEPT !.pc = "lost"] ELSE request[r]]
  /\ UNCHANGED before

Quiescent == (\A r \in Requests : Over(r)) /\ UNCHANGED vars

Init ==
  /\ accounts = [r \in Requests |-> NoAccount]
  /\ keystore = {}
  /\ request = [r \in Requests |-> Idle]
  /\ restarts = 0
  /\ before = [r \in Requests |-> {}]

Next ==
  \/ \E r \in Requests, input \in Inputs :
       \E a \in IF input.kind = "update" THEN Existing \cup {None} ELSE {None} :
         Arrive(r, input, a)
  \/ \E r \in Requests : RequestStep(r)
  \/ Restart
  \/ Quiescent

Spec == Init /\ [][Next]_vars

-----------------------------------------------------------------------------
AccountRecord ==
  [status : {"none", "valid", "deactivated"}, contact : Contacts \cup {None},
   key : Keys \cup {None}]

RequestRecord ==
  [pc : {"idle", "verify", "find", "create", "fill", "addKey", "read", "write", "status",
         "answered", "hanging", "lost"},
   kind : {"new", "update", None},
   key : Keys \cup {None},
   byKid : BOOLEAN,
   target : Requests \cup {None},
   contact : Contacts \cup {None},
   flag : BOOLEAN,
   answer : Codes \cup {None},
   account : Requests \cup {None}]

(* The attributes of the records and the local copies have their types.      *)
TypeOK ==
  /\ accounts \in [Requests -> AccountRecord]
  /\ keystore \subseteq Keys
  /\ request \in [Requests -> RequestRecord]
  /\ restarts \in Nat
  /\ before \in [Requests -> SUBSET Requests]

(* No key gets a second account, not even after it was deactivated, unless   *)
(* two requests for it overlapped: the find and the insert are apart.        *)
OneAccountPerKey ==
  \A r, q \in Existing :
    r # q /\ accounts[r].key # None /\ accounts[r].key = accounts[q].key =>
      q \notin before[r] /\ r \notin before[q]

(* A request that is signed with the kid of an account is verified, if the   *)
(* request that created the account was answered before and the server has   *)
(* not restarted since. (Answered means the creating request: one that found *)
(* the account is answered while the key is still on its way.)               *)
KnownKeyIsVerified ==
  restarts = 0 => \A r \in Requests : request[r].pc = "hanging" =>
    ~ \E q \in before[r] \cap Existing :
        accounts[q].key = request[r].key /\ request[q].answer = 200

(* A deactivated account stays so, although updates that read it before it   *)
(* was deactivated still write over it; only a process that keeps nothing    *)
(* forgets it.                                                               *)
StaysDeactivated ==
  [][\A a \in Requests :
       accounts[a].status = "deactivated" =>
         accounts'[a].status = "deactivated" \/ (~Persistent /\ restarts' # restarts)]_vars

(* The request q was answered to have deactivated account a.                 *)
Deactivated(q, a) == q.target = a /\ q.flag /\ q.answer = 200

(* And its contact changes only by an update that was on its way when it was *)
(* deactivated, not by one that arrived after the deactivation was answered. *)
DeactivatedIsFrozen ==
  [][\A a \in Requests :
       accounts[a].status = "deactivated" /\ accounts'[a].contact # accounts[a].contact =>
         \/ ~Persistent /\ restarts' # restarts
         \/ \E r \in Requests :
              /\ request[r].pc = "write" /\ request[r].target = a
              /\ \A q \in before[r] : ~Deactivated(request[q], a)]_vars

-----------------------------------------------------------------------------
(* What makes the properties above inductive, part by part.                  *)

(* How far the account of a request is, and what one past a check has passed. *)
Stage(r, q) ==
  /\ q.pc \in {"idle", "verify", "find", "create", "hanging", "read", "write", "status"} =>
       accounts[r] = NoAccount
  /\ q.pc = "fill" => accounts[r] = NewAccount
  /\ q.pc = "addKey" => accounts[r].status # "none"
  /\ q.pc \in {"addKey", "answered"} /\ accounts[r].status # "none" =>
       accounts[r].key = q.key
  /\ accounts[r].status = "none" => accounts[r].key = None
  /\ accounts[r].key \in {None, q.key}
  /\ q.pc \in {"find", "create", "fill", "addKey"} => q.kind = "new"
  /\ q.kind = "new" => q.target = None
  /\ q.pc \in {"create", "fill", "addKey"} \/ (q.pc = "answered" /\ accounts[r].status # "none") =>
       q.key # None
  /\ q.pc \in {"write", "status"} =>
       q.key # None /\ q.target \in Existing /\ accounts[q.target].key = q.key
  /\ q.pc # "answered" => q.answer = None

Stages == \A r \in Requests : Stage(r, request[r])

BeforeIsOver == \A r \in Requests : \A q \in before[r] : Over(q)

(* The creator of an account is over only when its key is there.             *)
Keyed ==
  restarts = 0 => \A q \in Requests :
    Over(q) /\ accounts[q].key # None => accounts[q].key \in keystore

(* Whoever creates an account has seen that none before it had the key.      *)
NoEarlierAccount ==
  \A r \in Requests : request[r].pc \in {"create", "fill"} \/ accounts[r].key # None =>
    \A q \in before[r] : accounts[q].key # request[r].key

(* An answered deactivation has been done, unless the account is lost; and   *)
(* whoever is about to write has read the account when it was valid.         *)
AnsweredIsDone ==
  \A q, a \in Requests :
    Deactivated(request[q], a) =>
      \/ accounts[a].status = "deactivated"
      \/ accounts[a].status = "none" /\ Over(a)

WritesAreFresh ==
  \A r \in Requests : request[r].pc = "write" =>
    \A q \in before[r] : ~Deactivated(request[q], request[r].target)

IInv ==
  /\ TypeOK
  /\ Stages
  /\ BeforeIsOver
  /\ Keyed
  /\ NoEarlierAccount
  /\ AnsweredIsDone
  /\ WritesAreFresh
  /\ KnownKeyIsVerified

=============================================================================
