--------------------------- MODULE AccountsProofs ---------------------------
(* Proofs about Accounts, for any requests, keys, contacts and inputs,       *)
(* whether the records outlive the process or not.                           *)
EXTENDS Accounts, TLAPS

-----------------------------------------------------------------------------
(* What a step does to the requests: r is the only one it changes, and of r  *)
(* only the control state and the answer.                                    *)
Moves(r, pc, answer) ==
  /\ request' \in [Requests -> RequestRecord]
  /\ \A q \in Requests \ {r} : request'[q] = request[q]
  /\ request'[r].pc = pc /\ request'[r].answer = answer
  /\ request'[r].kind = request[r].kind /\ request'[r].key = request[r].key
  /\ request'[r].target = request[r].target /\ request'[r].flag = request[r].flag

Pcs == {"verify", "find", "create", "fill", "addKey", "read", "write", "status",
        "answered", "hanging"}

LEMMA GotoMoves ==
  ASSUME TypeOK, NEW r \in Requests, NEW pc \in Pcs, Goto(r, pc)
  PROVE  Moves(r, pc, request[r].answer)
BY DEF TypeOK, RequestRecord, Pcs, Goto, Moves

LEMMA RespondMoves ==
  ASSUME TypeOK, NEW r \in Requests, NEW code \in Codes, NEW a \in Requests \cup {None},
         Respond(r, code, a)
  PROVE  Moves(r, "answered", code)
<1>. DEFINE new == [request[r] EXCEPT !.pc = "answered", !.answer = code, !.account = a]
<1>1. request[r] \in RequestRecord
  BY DEF TypeOK
<1>2. /\ new \in RequestRecord /\ new.pc = "answered" /\ new.answer = code
      /\ new.kind = request[r].kind /\ new.key = request[r].key
      /\ new.target = request[r].target /\ new.flag = request[r].flag
  BY <1>1 DEF RequestRecord
<1>3. request' = [request EXCEPT ![r] = new]
  BY DEF TypeOK, Respond
<1>. HIDE DEF new
<1>. QED
  BY <1>2, <1>3 DEF TypeOK, Moves

LEMMA InitInv == Init => IInv
<1>. SUFFICES ASSUME Init PROVE IInv
  OBVIOUS
<1>. USE AccountsAssumption DEF Init
<1>1. TypeOK
  BY DEF TypeOK, AccountRecord, RequestRecord, NoAccount, Idle
<1>2. Stages
  BY DEF Stages, Stage, NoAccount, Idle
<1>3. Keyed /\ NoEarlierAccount
  BY DEF Keyed, NoEarlierAccount, NoAccount, Idle
<1>4. AnsweredIsDone
  BY DEF AnsweredIsDone, Deactivated, NoAccount, Idle, Codes
<1>5. BeforeIsOver /\ WritesAreFresh /\ KnownKeyIsVerified
  BY DEF BeforeIsOver, WritesAreFresh, KnownKeyIsVerified, Idle
<1>. QED
  BY <1>1, <1>2, <1>3, <1>4, <1>5 DEF IInv

-----------------------------------------------------------------------------
(* The steps of a request that change no record and no key.                  *)
LEMMA OnlyRequestMoves ==
  ASSUME IInv, NEW r \in Requests, NEW pc \in Pcs \ {"fill", "addKey"},
         NEW answer \in Codes \cup {None}, Moves(r, pc, answer),
         UNCHANGED <<accounts, keystore, restarts, before>>,
         request[r].pc \in {"verify", "find", "read"},
         pc # "answered" => answer = None,
         pc = "answered" /\ answer = 200 => request[r].kind = "new",
         pc \in {"find", "create"} => request[r].kind = "new",
         pc = "create" => /\ request[r].key # None
                          /\ \A q \in before[r] : accounts[q].key # request[r].key,
         pc \in {"write", "status"} =>
           /\ request[r].key # None /\ request[r].target \in Existing
           /\ accounts[request[r].target].key = request[r].key,
         pc = "write" => accounts[request[r].target].status = "valid",
         pc = "hanging" => request[r].key \notin keystore
  PROVE  IInv'
<1>. USE AccountsAssumption DEF Moves
<1>1. TypeOK'
  BY DEF IInv, TypeOK
<1>2. Stages'
  <2>. SUFFICES ASSUME NEW q \in Requests PROVE Stage(q, request[q])'
    BY DEF Stages
  <2>1. Stage(q, request[q]) /\ Existing' = Existing
    BY DEF IInv, Stages, Existing
  <2>2. CASE q = r
    BY <2>1, <2>2 DEF Stage, Pcs, NoAccount
  <2>3. CASE q # r
    BY <2>1, <2>3 DEF Stage
  <2>. QED
    BY <2>2, <2>3
<1>3. ~Over(r) /\ \A q \in Requests : r \notin before[q]
  BY DEF IInv, BeforeIsOver, Over
<1>4. BeforeIsOver' /\ \A q \in Requests : \A p \in before[q] : request'[p] = request[p]
  BY <1>3 DEF IInv, TypeOK, BeforeIsOver, Over
<1>5. \A q \in Requests : accounts[q].key # None => request'[q].key = request[q].key
  OBVIOUS
<1>6. accounts[r] = NoAccount
  BY DEF IInv, Stages, Stage
<1>7. Keyed'
  BY <1>6 DEF IInv, Keyed, Over, NoAccount
<1>8. NoEarlierAccount'
  BY <1>4, <1>6 DEF IInv, NoEarlierAccount, NoAccount
<1>9. AnsweredIsDone'
  <2>. SUFFICES ASSUME NEW q \in Requests, NEW a \in Requests, Deactivated(request[q], a)'
                PROVE  \/ accounts[a].status = "deactivated"
                       \/ accounts[a].status = "none" /\ Over(a)'
    BY DEF AnsweredIsDone
  <2>1. q # r
    BY <1>2 DEF Stages, Stage, Deactivated, Codes, IInv
  <2>. QED
    BY <2>1, <1>3 DEF IInv, AnsweredIsDone, Deactivated, Over
<1>10. WritesAreFresh'
  <2>. SUFFICES ASSUME NEW q \in Requests, request'[q].pc = "write",
                       NEW p \in before[q]
                PROVE  ~Deactivated(request[p], request[q].target)
    BY <1>4 DEF WritesAreFresh, Deactivated
  <2>1. CASE q = r
    BY <2>1 DEF IInv, TypeOK, AnsweredIsDone, Deactivated, Existing
  <2>2. CASE q # r
    BY <2>2 DEF IInv, WritesAreFresh
  <2>. QED
    BY <2>1, <2>2
<1>11. KnownKeyIsVerified'
  <2>. SUFFICES ASSUME restarts = 0, NEW q \in Requests, request'[q].pc = "hanging",
                       NEW p \in before[q] \cap Existing,
                       accounts[p].key = request[q].key, request[p].answer = 200
                PROVE  FALSE
    BY <1>4 DEF KnownKeyIsVerified, Existing
  <2>1. CASE q = r
    <3>1. Over(p) /\ p \in Requests
      BY DEF IInv, TypeOK, BeforeIsOver
    <3>2. accounts[p].key # None
      BY <3>1 DEF IInv, Stages, Stage, Existing, Codes
    <3>. QED
      BY <2>1, <3>1, <3>2 DEF IInv, Keyed
  <2>2. CASE q # r
    BY <2>2 DEF IInv, KnownKeyIsVerified
  <2>. QED
    BY <2>1, <2>2
<1>. QED
  BY <1>1, <1>2, <1>4, <1>7, <1>8, <1>9, <1>10, <1>11 DEF IInv

LEMMA VerifyInv == ASSUME IInv, NEW r \in Requests, Verify(r) PROVE IInv'
<1>1. TypeOK /\ request[r].answer = None /\ request[r].kind \in {"new", "update", None}
  BY AccountsAssumption DEF Verify, IInv, TypeOK, RequestRecord, Stages, Stage
<1>2. CASE request[r].byKid /\ request[r].key \notin keystore
  <2>1. Moves(r, "hanging", None)
    BY <1>1, <1>2, GotoMoves DEF Verify, Pcs
  <2>. QED
    BY <1>2, <2>1, OnlyRequestMoves DEF Verify, Pcs
<1>3. CASE ~(request[r].byKid /\ request[r].key \notin keystore) /\ request[r].kind = "new"
  <2>1. Moves(r, "find", None)
    BY <1>1, <1>3, GotoMoves DEF Verify, Pcs
  <2>. QED
    BY <1>3, <2>1, OnlyRequestMoves DEF Verify, Pcs
<1>4. CASE ~(request[r].byKid /\ request[r].key \notin keystore) /\ request[r].kind # "new"
  <2>1. Moves(r, "read", None)
    BY <1>1, <1>4, GotoMoves DEF Verify, Pcs
  <2>. QED
    BY <1>4, <2>1, OnlyRequestMoves DEF Verify, Pcs
<1>. QED
  BY <1>2, <1>3, <1>4

LEMMA FindInv == ASSUME IInv, NEW r \in Requests, Find(r) PROVE IInv'
<1>. DEFINE found == {a \in Existing : accounts[a].key = request[r].key}
<1>1. TypeOK /\ request[r].answer = None /\ request[r].kind = "new" /\ found \subseteq Requests
  BY DEF Find, IInv, Stages, Stage, Existing
<1>2. CASE \E code \in Codes, a \in Requests \cup {None} : Respond(r, code, a)
  <2>1. PICK code \in Codes : Moves(r, "answered", code)
    BY <1>1, <1>2, RespondMoves
  <2>. QED
    BY <1>1, <2>1, OnlyRequestMoves DEF Find, Pcs
<1>3. CASE request[r].key # None /\ found = {} /\ Goto(r, "create")
  <2>1. Moves(r, "create", None)
    BY <1>1, <1>3, GotoMoves DEF Pcs
  <2>2. \A q \in before[r] : accounts[q].key # request[r].key
    BY <1>3 DEF IInv, TypeOK, Stages, Stage, Existing
  <2>. QED
    BY <1>1, <1>3, <2>1, <2>2, OnlyRequestMoves DEF Find, Pcs
<1>. QED
  BY <1>1, <1>2, <1>3 DEF Find, Answer, Codes

LEMMA ReadInv == ASSUME IInv, NEW r \in Requests, Read(r) PROVE IInv'
<1>1. TypeOK /\ request[r].answer = None /\ UNCHANGED <<accounts, keystore, restarts, before>>
      /\ request[r].pc = "read"
  BY DEF Read, IInv, Stages, Stage
<1>2. CASE Refusal(request[r]) # None /\ Answer(r, Refusal(request[r]))
  <2>1. Refusal(request[r]) \in Codes \ {200}
    BY <1>2 DEF Refusal, Codes
  <2>2. Moves(r, "answered", Refusal(request[r]))
    BY <1>1, <1>2, <2>1, RespondMoves DEF Answer
  <2>. QED
    BY <1>1, <2>1, <2>2, OnlyRequestMoves DEF Pcs
<1>3. CASE Refusal(request[r]) = None /\ \E pc \in {"write", "status"} : Goto(r, pc)
  <2>1. PICK pc \in {"write", "status"} : Moves(r, pc, None)
    BY <1>1, <1>3, GotoMoves DEF Pcs
  <2>2. /\ request[r].key # None /\ request[r].target \in Existing
        /\ accounts[request[r].target].key = request[r].key
        /\ accounts[request[r].target].status # "deactivated"
    BY <1>3, AccountsAssumption DEF Refusal, Codes
  <2>3. accounts[request[r].target].status = "valid"
    BY <1>1, <2>2 DEF Existing, TypeOK, AccountRecord
  <2>. QED
    BY <1>1, <2>1, <2>2, <2>3, OnlyRequestMoves DEF Pcs
<1>. QED
  BY <1>2, <1>3 DEF Read

-----------------------------------------------------------------------------
(* The two writes of an update: the key of the account stays, and its status *)
(* only becomes "deactivated".                                               *)
LEMMA UpdateMoves ==
  ASSUME IInv, NEW r \in Requests, NEW pc \in {"status", "answered"},
         NEW answer \in {None, 200}, Moves(r, pc, answer),
         request[r].pc \in {"write", "status"},
         UNCHANGED <<keystore, restarts, before>>,
         accounts' \in [Requests -> AccountRecord],
         \A a \in Requests \ {request[r].target} : accounts'[a] = accounts[a],
         accounts'[request[r].target].key = accounts[request[r].target].key,
         accounts'[request[r].target].status
           \in {accounts[request[r].target].status, "deactivated"},
         pc = "status" => answer = None,
         pc = "answered" /\ request[r].flag => accounts'[request[r].target].status = "deactivated"
  PROVE  IInv'
<1>. USE AccountsAssumption DEF Moves
<1>. DEFINE t == request[r].target
<1>1. TypeOK'
  BY DEF IInv, TypeOK
<1>2. /\ t \in Requests /\ accounts[t].status # "none" /\ accounts[t].key # None
      /\ accounts[r] = NoAccount /\ r # t /\ accounts'[r] = accounts[r]
      /\ request[t].pc \in {"addKey", "answered", "lost"} /\ request'[t] = request[t]
  BY DEF IInv, TypeOK, RequestRecord, Stages, Stage, Existing, NoAccount, NewAccount
<1>3. \A a \in Requests : /\ accounts'[a].key = accounts[a].key
                          /\ accounts'[a].status = "none" <=> accounts[a].status = "none"
  BY <1>2
<1>4. Existing' = Existing
  BY <1>3 DEF Existing
<1>5. Stages'
  <2>. SUFFICES ASSUME NEW q \in Requests PROVE Stage(q, request[q])'
    BY DEF Stages
  <2>1. Stage(q, request[q])
    BY DEF IInv, Stages
  <2>2. CASE q = r
    <3>1. Stage(r, request[r])
      BY DEF IInv, Stages
    <3>. QED
      BY <3>1, <2>2, <1>2, <1>3, <1>4 DEF Stage, NoAccount
  <2>3. CASE q = t
    <3>1. /\ request'[q] = request[q] /\ accounts'[q].key = accounts[q].key
          /\ accounts'[q].status # "none" /\ accounts[q].status # "none"
          /\ request[q].pc \in {"addKey", "answered", "lost"}
      BY <2>3, <1>2, <1>3
    <3>. QED
      BY ONLY <3>1, <2>1 DEF Stage, NoAccount
  <2>4. CASE q # r /\ q # t
    <3>1. request'[q] = request[q] /\ accounts'[q] = accounts[q]
      BY <2>4
    <3>2. \A a \in Existing : accounts'[a].key = accounts[a].key
      BY <1>3 DEF Existing
    <3>. QED
      BY ONLY <3>1, <3>2, <2>1, <1>4 DEF Stage
  <2>. QED
    BY <2>2, <2>3, <2>4
<1>6. ~Over(r) /\ \A q \in Requests : r \notin before[q]
  BY DEF IInv, BeforeIsOver, Over
<1>7. BeforeIsOver' /\ \A q \in Requests : \A p \in before[q] : request'[p] = request[p]
  BY <1>6 DEF IInv, TypeOK, BeforeIsOver, Over
<1>8. Keyed'
  BY <1>2, <1>3 DEF IInv, Keyed, Over, NoAccount
<1>9. NoEarlierAccount'
  BY <1>1, <1>2, <1>3, <1>7 DEF IInv, TypeOK, NoEarlierAccount, NoAccount
<1>10. AnsweredIsDone'
  <2>. SUFFICES ASSUME NEW q \in Requests, NEW a \in Requests, Deactivated(request[q], a)'
                PROVE  \/ accounts'[a].status = "deactivated"
                       \/ accounts'[a].status = "none" /\ Over(a)'
    BY DEF AnsweredIsDone
  <2>1. CASE q = r
    BY <2>1, <1>2 DEF Deactivated, Codes
  <2>2. CASE q # r
    <3>1. \/ accounts[a].status = "deactivated"
          \/ accounts[a].status = "none" /\ Over(a)
      BY <2>2 DEF IInv, AnsweredIsDone, Deactivated
    <3>. QED
      BY <3>1, <1>2, <1>6 DEF Over
  <2>. QED
    BY <2>1, <2>2
<1>11. WritesAreFresh'
  BY <1>7 DEF IInv, WritesAreFresh, Deactivated
<1>12. KnownKeyIsVerified'
  <2>. SUFFICES ASSUME restarts = 0, NEW q \in Requests, request'[q].pc = "hanging",
                       NEW p \in before[q] \cap Existing,
                       accounts[p].key = request[q].key, request[p].answer = 200
                PROVE  FALSE
    BY <1>3, <1>4, <1>7 DEF KnownKeyIsVerified, Existing
  <2>1. q # r
    OBVIOUS
  <2>. QED
    BY <2>1 DEF IInv, KnownKeyIsVerified
<1>. QED
  BY <1>1, <1>5, <1>7, <1>8, <1>9, <1>10, <1>11, <1>12 DEF IInv

LEMMA WriteInv == ASSUME IInv, NEW r \in Requests, Write(r) PROVE IInv'
<1>. DEFINE t == request[r].target
            new == [accounts[t] EXCEPT !.contact = request[r].contact]
<1>1. /\ TypeOK /\ request[r].answer = None /\ request[r].contact \in Contacts \cup {None}
      /\ t \in Requests /\ accounts[t] \in AccountRecord
  BY DEF Write, IInv, TypeOK, RequestRecord, Stages, Stage, Existing
<1>2. new \in AccountRecord /\ new.key = accounts[t].key /\ new.status = accounts[t].status
  BY <1>1, request[r].contact \in Contacts \cup {None} DEF AccountRecord, Write, TypeOK
<1>3. accounts' = [accounts EXCEPT ![t] = new]
  BY <1>1 DEF Write, TypeOK
<1>. HIDE DEF new
<1>4. /\ accounts' \in [Requests -> AccountRecord] /\ accounts'[t] = new
      /\ \A a \in Requests \ {t} : accounts'[a] = accounts[a]
  BY <1>1, <1>2, <1>3 DEF TypeOK
<1>5. Moves(r, "status", None)
  BY <1>1, GotoMoves DEF Write, Pcs
<1>. QED
  BY <1>2, <1>4, <1>5, UpdateMoves DEF Write

LEMMA StatusInv == ASSUME IInv, NEW r \in Requests, Status(r) PROVE IInv'
<1>. DEFINE t == request[r].target
            new == IF request[r].flag THEN [accounts[t] EXCEPT !.status = "deactivated"]
                   ELSE accounts[t]
<1>1. TypeOK /\ t \in Requests /\ accounts[t] \in AccountRecord
  BY DEF Status, IInv, TypeOK, RequestRecord, Stages, Stage, Existing
<1>2. /\ new \in AccountRecord /\ new.key = accounts[t].key
      /\ new.status \in {accounts[t].status, "deactivated"}
      /\ request[r].flag => new.status = "deactivated"
  BY <1>1 DEF AccountRecord
<1>3. accounts' = [accounts EXCEPT ![t] = new]
  BY <1>1 DEF Status, TypeOK
<1>. HIDE DEF new
<1>4. /\ accounts' \in [Requests -> AccountRecord] /\ accounts'[t] = new
      /\ \A a \in Requests \ {t} : accounts'[a] = accounts[a]
  BY <1>1, <1>2, <1>3 DEF TypeOK
<1>5. Moves(r, "answered", 200)
  BY <1>1, RespondMoves DEF Status, Codes
<1>. QED
  BY <1>2, <1>4, <1>5, UpdateMoves DEF Status

-----------------------------------------------------------------------------
(* The three steps of the creation of an account.                            *)
LEMMA CreationMoves ==
  ASSUME IInv, NEW r \in Requests, NEW pc \in {"fill", "addKey", "answered"},
         NEW answer, Moves(r, pc, answer),
         request[r].pc \in {"create", "fill", "addKey"},
         UNCHANGED <<restarts, before>>,
         keystore \subseteq keystore', keystore' \subseteq Keys,
         accounts' \in [Requests -> AccountRecord],
         \A a \in Requests \ {r} : accounts'[a] = accounts[a],
         accounts[r].status \in {"none", accounts'[r].status},
         accounts[r].key \in {None, accounts'[r].key},
         Stage(r, request[r])',
         pc = "answered" => accounts'[r].key \in keystore'
  PROVE  IInv'
<1>. USE AccountsAssumption DEF Moves
<1>1. TypeOK'
  BY DEF IInv, TypeOK
<1>2. Stage(r, request[r]) /\ ~Over(r) /\ \A q \in Requests : r \notin before[q]
  BY DEF IInv, Stages, BeforeIsOver, Over
<1>3. BeforeIsOver' /\ \A q \in Requests : \A p \in before[q] :
                         request'[p] = request[p] /\ accounts'[p] = accounts[p]
  BY <1>2 DEF IInv, TypeOK, BeforeIsOver, Over
<1>4. Existing \subseteq Existing'
  BY DEF Existing
<1>5. \A a \in Requests : accounts[a].key # None => accounts'[a].key = accounts[a].key
  OBVIOUS
<1>6. Stages'
  <2>. SUFFICES ASSUME NEW q \in Requests, q # r PROVE Stage(q, request[q])'
    BY DEF Stages
  <2>1. Stage(q, request[q]) /\ request'[q] = request[q] /\ accounts'[q] = accounts[q]
    BY DEF IInv, Stages
  <2>2. request[q].pc \in {"write", "status"} =>
          /\ request[q].target \in Existing'
          /\ accounts'[request[q].target].key = request[q].key
    BY <2>1, <1>4, <1>5 DEF Stage, Existing
  <2>. QED
    BY ONLY <2>1, <2>2 DEF Stage
<1>7. Keyed'
  <2>. SUFFICES ASSUME restarts = 0, NEW q \in Requests, Over(q)', accounts'[q].key # None
                PROVE  accounts'[q].key \in keystore'
    BY DEF Keyed
  <2>1. CASE q = r
    BY <2>1 DEF Over
  <2>2. CASE q # r
    BY <2>2 DEF IInv, Keyed, Over
  <2>. QED
    BY <2>1, <2>2
<1>8. NoEarlierAccount'
  <2>. SUFFICES ASSUME NEW q \in Requests, NEW p \in before[q],
                       request'[q].pc \in {"create", "fill"} \/ accounts'[q].key # None
                PROVE  accounts[p].key # request[q].key
    BY <1>3 DEF NoEarlierAccount
  <2>1. CASE q = r
    BY <2>1, <1>2 DEF IInv, NoEarlierAccount, Stage
  <2>2. CASE q # r
    BY <2>2 DEF IInv, NoEarlierAccount
  <2>. QED
    BY <2>1, <2>2
<1>9. AnsweredIsDone'
  <2>. SUFFICES ASSUME NEW q \in Requests, NEW a \in Requests, Deactivated(request[q], a)'
                PROVE  \/ accounts'[a].status = "deactivated"
                       \/ accounts'[a].status = "none" /\ Over(a)'
    BY DEF AnsweredIsDone
  <2>1. q # r
    BY <1>2 DEF Stage, Deactivated
  <2>2. \/ accounts[a].status = "deactivated"
        \/ accounts[a].status = "none" /\ Over(a)
    BY <2>1 DEF IInv, AnsweredIsDone, Deactivated
  <2>3. CASE a = r
    BY <2>2, <2>3, <1>2
  <2>4. CASE a # r
    BY <2>2, <2>4 DEF Over
  <2>. QED
    BY <2>3, <2>4
<1>10. WritesAreFresh'
  BY <1>3 DEF IInv, WritesAreFresh, Deactivated
<1>11. KnownKeyIsVerified'
  BY <1>3 DEF IInv, KnownKeyIsVerified, Existing
<1>. QED
  BY <1>1, <1>3, <1>6, <1>7, <1>8, <1>9, <1>10, <1>11 DEF IInv

LEMMA CreateInv == ASSUME IInv, NEW r \in Requests, Create(r) PROVE IInv'
<1>1. TypeOK /\ Stage(r, request[r]) /\ request[r].pc = "create"
  BY DEF IInv, Stages, Create
<1>2. Moves(r, "fill", request[r].answer)
  BY <1>1, GotoMoves DEF Create, Pcs
<1>3. /\ accounts' \in [Requests -> AccountRecord] /\ accounts'[r] = NewAccount
      /\ \A a \in Requests \ {r} : accounts'[a] = accounts[a]
  BY <1>1 DEF Create, TypeOK, AccountRecord, NewAccount
<1>4. Stage(r, request[r])'
  BY <1>1, <1>2, <1>3 DEF Stage, Moves, NewAccount
<1>. QED
  BY <1>1, <1>2, <1>3, <1>4, CreationMoves DEF Create, IInv, TypeOK, Stage, NoAccount

LEMMA FillInv == ASSUME IInv, NEW r \in Requests, Fill(r) PROVE IInv'
<1>. DEFINE c == IF request[r].contact = None THEN accounts[r].contact ELSE request[r].contact
            new == [accounts[r] EXCEPT !.key = request[r].key, !.contact = c]
<1>1. TypeOK /\ Stage(r, request[r]) /\ request[r].pc = "fill"
  BY DEF IInv, Stages, Fill
<1>2. Moves(r, "addKey", request[r].answer)
  BY <1>1, GotoMoves DEF Fill, Pcs
<1>3. new \in AccountRecord /\ new.key = request[r].key /\ new.status = accounts[r].status
  <2>1. /\ accounts[r] \in AccountRecord /\ request[r].key \in Keys \cup {None}
        /\ request[r].contact \in Contacts \cup {None}
    BY <1>1 DEF TypeOK, RequestRecord
  <2>2. c \in Contacts \cup {None}
    BY <2>1 DEF AccountRecord
  <2>. HIDE DEF c
  <2>. QED
    BY <2>1, <2>2 DEF AccountRecord
<1>4. accounts' = [accounts EXCEPT ![r] = new]
  BY <1>1 DEF Fill, TypeOK, AccountRecord
<1>. HIDE DEF new
<1>5. /\ accounts' \in [Requests -> AccountRecord] /\ accounts'[r] = new
      /\ \A a \in Requests \ {r} : accounts'[a] = accounts[a]
  BY <1>1, <1>3, <1>4 DEF TypeOK
<1>6. accounts[r].status = "valid" /\ accounts[r].key = None
  BY <1>1 DEF Stage, NewAccount
<1>7. Stage(r, request[r])'
  BY <1>1, <1>2, <1>3, <1>5, <1>6 DEF Stage, Moves
<1>. QED
  BY <1>1, <1>2, <1>3, <1>5, <1>6, <1>7, CreationMoves DEF Fill, TypeOK

LEMMA AddKeyInv == ASSUME IInv, NEW r \in Requests, AddKey(r) PROVE IInv'
<1>1. TypeOK /\ Stage(r, request[r]) /\ request[r].pc = "addKey"
  BY DEF IInv, Stages, AddKey
<1>2. Moves(r, "answered", 200)
  BY <1>1, RespondMoves DEF AddKey, Codes
<1>3. accounts[r].key = request[r].key /\ request[r].key \in Keys
  BY <1>1 DEF Stage, TypeOK, RequestRecord
<1>4. Stage(r, request[r])'
  BY <1>1, <1>2, <1>3 DEF Stage, Moves, AddKey
<1>. QED
  BY <1>1, <1>2, <1>3, <1>4, CreationMoves DEF AddKey, TypeOK

-----------------------------------------------------------------------------
LEMMA ArriveInv ==
  ASSUME IInv, NEW r \in Requests, NEW input \in Inputs,
         NEW a \in (IF input.kind = "update" THEN Existing \cup {None} ELSE {None}),
         Arrive(r, input, a)
  PROVE  IInv'
<1>. USE AccountsAssumption
<1>. DEFINE new == [Idle EXCEPT !.pc = "verify", !.kind = input.kind, !.key = input.key,
                      !.byKid = input.byKid, !.target = a, !.contact = input.contact,
                      !.flag = input.flag]
<1>1. /\ TypeOK /\ accounts[r] = NoAccount /\ ~Over(r) /\ request[r].pc = "idle"
      /\ \A q \in Requests : r \notin before[q]
  BY DEF Arrive, IInv, Stages, Stage, BeforeIsOver, Over
<1>2. /\ new \in RequestRecord /\ new.pc = "verify" /\ new.answer = None
      /\ new.kind = "new" => new.target = None
  <2>1. input \in Input /\ a \in Requests \cup {None}
    BY DEF Existing
  <2>2. input.kind \in {"new", "update"} /\ input.key \in Keys \cup {None}
        /\ input.byKid \in BOOLEAN /\ input.contact \in Contacts \cup {None}
        /\ input.flag \in BOOLEAN
    BY <2>1 DEF Input
  <2>3. input.kind = "new" => a = None
    BY <2>2
  <2>. QED
    BY <2>1, <2>2, <2>3 DEF RequestRecord, Idle
<1>3. request' = [request EXCEPT ![r] = new]
  BY DEF Arrive
<1>. HIDE DEF new
<1>4. /\ request' \in [Requests -> RequestRecord] /\ request'[r] = new
      /\ \A q \in Requests \ {r} : request'[q] = request[q]
  BY <1>1, <1>2, <1>3 DEF TypeOK
<1>5. /\ before' \in [Requests -> SUBSET Requests]
      /\ before'[r] = {q \in Requests : Over(q)}
      /\ \A q \in Requests \ {r} : before'[q] = before[q]
      /\ UNCHANGED <<accounts, keystore, restarts>>
  BY <1>1 DEF Arrive, TypeOK
<1>6. TypeOK'
  BY <1>1, <1>4, <1>5 DEF TypeOK
<1>7. Stages'
  <2>. SUFFICES ASSUME NEW q \in Requests PROVE Stage(q, request[q])'
    BY DEF Stages
  <2>1. Stage(q, request[q]) /\ Existing' = Existing
    BY <1>5 DEF IInv, Stages, Existing
  <2>2. CASE q = r
    BY <2>1, <2>2, <1>1, <1>2, <1>4, <1>5 DEF Stage, NoAccount
  <2>3. CASE q # r
    BY <2>1, <2>3, <1>4, <1>5 DEF Stage
  <2>. QED
    BY <2>2, <2>3
<1>8. /\ \A q \in Requests : Over(q)' <=> Over(q)
      /\ \A q \in Requests : \A p \in before'[q] :
           p \in Requests /\ Over(p) /\ request'[p] = request[p]
  BY <1>1, <1>2, <1>4, <1>5 DEF IInv, TypeOK, BeforeIsOver, Over
<1>9. BeforeIsOver' /\ Keyed'
  BY <1>5, <1>8 DEF IInv, BeforeIsOver, Keyed, Over
<1>10. NoEarlierAccount'
  BY <1>1, <1>2, <1>4, <1>5 DEF IInv, NoEarlierAccount, NoAccount
<1>11. AnsweredIsDone'
  <2>. SUFFICES ASSUME NEW q \in Requests, NEW b \in Requests, Deactivated(request[q], b)'
                PROVE  \/ accounts[b].status = "deactivated"
                       \/ accounts[b].status = "none" /\ Over(b)
    BY <1>5, <1>8 DEF AnsweredIsDone
  <2>1. q # r
    BY <1>2, <1>4 DEF Deactivated, Codes
  <2>. QED
    BY <2>1, <1>4 DEF IInv, AnsweredIsDone, Deactivated
<1>12. WritesAreFresh'
  BY <1>2, <1>4, <1>5, <1>8 DEF IInv, WritesAreFresh, Deactivated
<1>13. KnownKeyIsVerified'
  BY <1>2, <1>4, <1>5, <1>8 DEF IInv, KnownKeyIsVerified, Existing
<1>. QED
  BY <1>6, <1>7, <1>9, <1>10, <1>11, <1>12, <1>13 DEF IInv

LEMMA RestartInv == ASSUME IInv, Restart PROVE IInv'
<1>. USE AccountsAssumption
<1>1. /\ request' \in [Requests -> RequestRecord]
      /\ \A q \in Requests :
           /\ request'[q].key = request[q].key /\ request'[q].kind = request[q].kind
           /\ request'[q].target = request[q].target /\ request'[q].flag = request[q].flag
           /\ request'[q].answer = request[q].answer
           /\ request'[q].pc = IF Busy(q) THEN "lost" ELSE request[q].pc
  <2>1. \A q \in Requests : request[q] \in RequestRecord
    BY DEF IInv, TypeOK
  <2>2. \A q \in Requests : /\ [request[q] EXCEPT !.pc = "lost"] \in RequestRecord
                            /\ [request[q] EXCEPT !.pc = "lost"].pc = "lost"
    BY <2>1 DEF RequestRecord
  <2>3. \A q \in Requests : request'[q] = IF Busy(q) THEN [request[q] EXCEPT !.pc = "lost"]
                                          ELSE request[q]
    BY DEF Restart
  <2>4. request' \in [Requests -> RequestRecord]
    BY <2>1, <2>2 DEF Restart
  <2>5. \A q \in Requests :
           /\ request'[q].key = request[q].key /\ request'[q].kind = request[q].kind
           /\ request'[q].target = request[q].target /\ request'[q].flag = request[q].flag
           /\ request'[q].answer = request[q].answer
    BY <2>1, <2>3 DEF RequestRecord
  <2>. QED
    BY <2>2, <2>3, <2>4, <2>5
<1>2. /\ restarts' \in Nat /\ restarts' # 0 /\ before' = before /\ keystore' = {}
      /\ accounts' = accounts \/ accounts' = [q \in Requests |-> NoAccount]
  BY DEF Restart, IInv, TypeOK
<1>3. TypeOK'
  BY <1>1, <1>2 DEF IInv, TypeOK, AccountRecord, NoAccount
<1>4. \A q \in Requests : /\ Over(q) => request'[q].pc = request[q].pc
                          /\ request'[q].pc \in {"idle", "answered", "hanging", "lost"}
                          /\ request'[q].pc \in {"idle", "answered", "hanging"} =>
                               request'[q].pc = request[q].pc
                          /\ Over(q) => Over(q)'
                          /\ request[q].pc # "idle" => Over(q)'
  BY <1>1 DEF Over, Busy
<1>5. Stages'
  <2>. SUFFICES ASSUME NEW q \in Requests PROVE Stage(q, request[q])'
    BY DEF Stages
  <2>1. Stage(q, request[q])
    BY DEF IInv, Stages
  <2>2. request'[q].pc # "answered" => request'[q].answer = None
    BY <2>1, <1>1, <1>4 DEF Stage, Busy, Over
  <2>3. CASE accounts' = accounts
    BY <2>1, <2>2, <2>3, <1>1, <1>4 DEF Stage
  <2>4. CASE accounts' = [p \in Requests |-> NoAccount]
    BY <2>1, <2>2, <2>4, <1>1, <1>4 DEF Stage, NoAccount
  <2>. QED
    BY <2>3, <2>4, <1>2
<1>6. BeforeIsOver' /\ Keyed' /\ KnownKeyIsVerified'
  BY <1>2, <1>4 DEF IInv, TypeOK, BeforeIsOver, Keyed, KnownKeyIsVerified
<1>7. NoEarlierAccount'
  <2>. SUFFICES ASSUME NEW q \in Requests, NEW p \in before[q], accounts'[q].key # None
                PROVE  accounts'[p].key # request[q].key
    BY <1>1, <1>2, <1>4 DEF NoEarlierAccount
  <2>1. accounts' = accounts
    BY <1>2 DEF NoAccount
  <2>. QED
    BY <2>1 DEF IInv, NoEarlierAccount
<1>8. AnsweredIsDone'
  <2>. SUFFICES ASSUME NEW q \in Requests, NEW a \in Requests, Deactivated(request[q], a)
                PROVE  \/ accounts'[a].status = "deactivated"
                       \/ accounts'[a].status = "none" /\ Over(a)'
    BY <1>1 DEF AnsweredIsDone, Deactivated
  <2>1. \/ accounts[a].status = "deactivated"
        \/ accounts[a].status = "none" /\ Over(a)
    BY DEF IInv, AnsweredIsDone
  <2>2. Over(a)'
    BY <2>1, <1>4 DEF IInv, Stages, Stage, NoAccount
  <2>. QED
    BY <2>1, <2>2, <1>2 DEF NoAccount
<1>9. WritesAreFresh'
  BY <1>4 DEF WritesAreFresh
<1>. QED
  BY <1>3, <1>5, <1>6, <1>7, <1>8, <1>9 DEF IInv

LEMMA StutterInv == ASSUME IInv, UNCHANGED vars PROVE IInv'
BY DEF vars, IInv, TypeOK, Stages, Stage, Existing, BeforeIsOver, Over, Keyed,
       NoEarlierAccount, AnsweredIsDone, Deactivated, WritesAreFresh, KnownKeyIsVerified

LEMMA NextInv == IInv /\ [Next]_vars => IInv'
<1>. SUFFICES ASSUME IInv, [Next]_vars PROVE IInv'
  OBVIOUS
<1>1. CASE \E r \in Requests, input \in Inputs :
             \E a \in IF input.kind = "update" THEN Existing \cup {None} ELSE {None} :
               Arrive(r, input, a)
  BY <1>1, ArriveInv
<1>2. CASE \E r \in Requests : RequestStep(r)
  BY <1>2, VerifyInv, FindInv, CreateInv, FillInv, AddKeyInv, ReadInv, WriteInv, StatusInv
     DEF RequestStep
<1>3. CASE Restart
  BY <1>3, RestartInv
<1>4. CASE Quiescent \/ UNCHANGED vars
  BY <1>4, StutterInv DEF Quiescent
<1>. QED
  BY <1>1, <1>2, <1>3, <1>4 DEF Next

THEOREM Invariance == Spec => []IInv
BY InitInv, NextInv, PTL DEF Spec

-----------------------------------------------------------------------------
(* The records of the accounts, the keystore and the local copies of the     *)
(* handlers always have their types.                                         *)
THEOREM TypeCorrect == Spec => []TypeOK
<1>1. IInv => TypeOK
  BY DEF IInv
<1>. QED
  BY <1>1, Invariance, PTL

(* Two requests of which one was over before the other arrived never create  *)
(* an account for the same key, whatever happened to the first account.      *)
THEOREM OneAccount == Spec => []OneAccountPerKey
<1>1. IInv => OneAccountPerKey
  BY DEF IInv, Stages, Stage, NoEarlierAccount, OneAccountPerKey, Existing
<1>. QED
  BY <1>1, Invariance, PTL

(* Before the first restart, no request hangs that is signed with the kid of *)
(* an account whose creation was answered before it arrived.                 *)
THEOREM KnownKey == Spec => []KnownKeyIsVerified
<1>1. IInv => KnownKeyIsVerified
  BY DEF IInv
<1>. QED
  BY <1>1, Invariance, PTL

-----------------------------------------------------------------------------
(* What a step does to an account that is deactivated.                       *)
StaysSo(a) ==
  accounts[a].status = "deactivated" =>
    accounts'[a].status = "deactivated" \/ (~Persistent /\ restarts' # restarts)

StaysFrozen(a) ==
  accounts[a].status = "deactivated" /\ accounts'[a].contact # accounts[a].contact =>
    \/ ~Persistent /\ restarts' # restarts
    \/ \E r \in Requests :
         /\ request[r].pc = "write" /\ request[r].target = a
         /\ \A q \in before[r] : ~Deactivated(request[q], a)

LEMMA DeactivatedStep ==
  ASSUME IInv, [Next]_vars, NEW a \in Requests
  PROVE  StaysSo(a) /\ StaysFrozen(a)
<1>. USE DEF StaysSo, StaysFrozen
<1>1. CASE UNCHANGED accounts
  BY <1>1
<1>2. ASSUME NEW r \in Requests, Create(r) \/ Fill(r)
      PROVE  StaysSo(a) /\ StaysFrozen(a)
  <2>1. accounts[r].status # "deactivated"
    BY <1>2 DEF Create, Fill, IInv, Stages, Stage, NoAccount, NewAccount
  <2>2. a # r => accounts'[a] = accounts[a]
    BY <1>2 DEF Create, Fill, IInv, TypeOK
  <2>. QED
    BY <2>1, <2>2
<1>3. ASSUME NEW r \in Requests, Write(r)
      PROVE  StaysSo(a) /\ StaysFrozen(a)
  <2>1. CASE a = request[r].target
    <3>1. accounts[a] \in AccountRecord
      BY DEF IInv, TypeOK
    <3>2. accounts'[a].status = accounts[a].status
      BY <1>3, <2>1, <3>1 DEF Write, IInv, TypeOK, AccountRecord
    <3>. QED
      BY <1>3, <2>1, <3>2 DEF Write, IInv, WritesAreFresh
  <2>2. CASE a # request[r].target
    <3>1. accounts'[a] = accounts[a]
      BY <1>3, <2>2 DEF Write, IInv, TypeOK
    <3>. QED
      BY <3>1
  <2>. QED
    BY <2>1, <2>2
<1>4. ASSUME NEW r \in Requests, Status(r)
      PROVE  StaysSo(a) /\ StaysFrozen(a)
  <2>1. accounts[a] \in AccountRecord
    BY DEF IInv, TypeOK
  <2>2. \/ accounts'[a] = accounts[a]
        \/ accounts'[a] = [accounts[a] EXCEPT !.status = "deactivated"]
    BY <1>4 DEF Status, IInv, TypeOK
  <2>. QED
    BY <2>1, <2>2 DEF AccountRecord
<1>5. CASE Restart
  BY <1>5 DEF Restart, IInv, TypeOK
<1>. QED
  BY <1>1, <1>2, <1>3, <1>4, <1>5
     DEF Next, RequestStep, Arrive, Verify, Find, AddKey, Read, Quiescent, vars

(* No step of the server makes a deactivated account valid again, only the   *)
(* end of a process that keeps nothing.                                      *)
THEOREM Deactivation == Spec => StaysDeactivated
<1>1. IInv /\ [Next]_vars =>
        [\A a \in Requests :
           accounts[a].status = "deactivated" =>
             accounts'[a].status = "deactivated" \/ (~Persistent /\ restarts' # restarts)]_vars
  BY DeactivatedStep DEF StaysSo
<1>. QED
  BY <1>1, Invariance, PTL DEF Spec, StaysDeactivated

(* The contact of a deactivated account is only changed by an update that no *)
(* answered deactivation of it preceded.                                     *)
THEOREM Frozen == Spec => DeactivatedIsFrozen
<1>1. IInv /\ [Next]_vars =>
        [\A a \in Requests :
           accounts[a].status = "deactivated" /\ accounts'[a].contact # accounts[a].contact =>
             \/ ~Persistent /\ restarts' # restarts
             \/ \E r \in Requests :
                  /\ request[r].pc = "write" /\ request[r].target = a
                  /\ \A q \in before[r] : ~Deactivated(request[q], a)]_vars
  BY DeactivatedStep DEF StaysFrozen
<1>. QED
  BY <1>1, Invariance, PTL DEF Spec, DeactivatedIsFrozen

=============================================================================
