---------------------------- MODULE StorageProofs ----------------------------
(* Proofs about Storage, for any callers, ids, attributes and updates.       *)
EXTENDS Storage, TLAPS

-----------------------------------------------------------------------------
(* The inductive invariant.                                                  *)
Pcs == {"idle", "called", "found", "set", "done"}
IdOperations == {"get", "create", "update", "remove"}

CallRecord ==
  [pc : Pcs, op : Operations \cup {None}, id : Ids \cup {None},
   payload : Payloads \cup {None}, read : Record \cup {None},
   outcome : {"resolved", "rejected", None},
   result : (SUBSET Record) \cup Record \cup {None}]

(* What a call has established at each of its points.                        *)
Stage(c) ==
  LET k == call[c] IN
  /\ k.pc # "idle" =>
       /\ k.op \in Operations
       /\ k.op \in IdOperations => k.id \in Ids
       /\ k.op \in {"find", "filter", "update"} => k.payload \in Payloads
  /\ k.op # "filter" => k.result \in Record \cup {None}
  /\ k.op = "filter" => k.result \in (SUBSET Record) \cup {None}
  /\ since[c] # {} => k.pc # "idle" /\ k.op \in IdOperations
  /\ k.pc \in {"idle", "called", "found"} => c \notin effective
  /\ k.pc = "found" =>
       /\ k.op \in {"update", "remove"} /\ k.read \in Record
       /\ store[k.id] # None \/ Removed(k.id)
  /\ k.pc = "set" =>
       /\ k.op = "update" /\ store[k.id] \in since[c]
       /\ c \in effective \/ Removed(k.id)
  /\ k.pc # "done" => k.outcome = None

(* What the outcome of a call tells.                                         *)
Told(c) ==
  LET k == call[c] IN
  /\ k.outcome = "resolved" =>
       /\ k.op \in {"get", "create", "update"} => k.result \in since[c]
       /\ k.op = "create" => c \in effective
       /\ k.op = "update" => c \in effective \/ IsEmpty(k.payload) \/ Removed(k.id)
  /\ k.outcome = "rejected" =>
       c \notin effective \/ (engine = "internaldb" /\ k.op = "update")

Typed ==
  /\ engine \in {"internaldb", "mongodb"}
  /\ store \in [Ids -> Record \cup {None}]
  /\ call \in [Callers -> CallRecord]
  /\ effective \subseteq Callers
  /\ since \in [Callers -> SUBSET (Record \cup {None})]

IInv == Typed /\ \A c \in Callers : Stage(c) /\ Told(c)

-----------------------------------------------------------------------------
(* Records.                                                                  *)
LEMMA DefaultIsRecord == Default \in Record
BY StorageAssumption DEF Record

LEMMA NoneIsNoRecord == None \notin Record
BY StorageAssumption DEF Record

LEMMA DeclaredIsRecord ==
  ASSUME NEW payload \in Payloads
  PROVE  Declared(payload) \in Record
<1>. DEFINE S == DOMAIN payload \cap Attributes
<1>1. Declared(payload) \in [S -> Values]
  BY StorageAssumption DEF Declared
<1>. QED
  BY <1>1 DEF Record

LEMMA MergedIsRecord ==
  ASSUME NEW record \in Record, NEW payload \in Payloads
  PROVE  Merged(record, payload) \in Record
<1>1. PICK S \in SUBSET Attributes : record \in [S -> Values]
  BY DEF Record
<1>. DEFINE T == S \cup (DOMAIN payload \cap Attributes)
<1>2. Merged(record, payload) \in [T -> Values]
  BY <1>1, StorageAssumption DEF Merged
<1>. QED
  BY <1>2 DEF Record

(* Writing the declared attributes is all there is to an update.             *)
LEMMA MergedDeclared ==
  ASSUME NEW record \in Record, NEW payload \in Payloads
  PROVE  Merged(record, payload) = Promised!Merged(record, Declared(payload))
<1>1. DOMAIN record \subseteq Attributes
  BY DEF Record
<1>2. DOMAIN Declared(payload) = DOMAIN payload \cap Attributes
  BY DEF Declared
<1>. QED
  BY <1>1, <1>2 DEF Merged, Declared, Promised!Merged

-----------------------------------------------------------------------------
(* What a step does to the call of c, and to the calls of others.            *)
Moves(c) ==
  /\ call' \in [Callers -> CallRecord]
  /\ \A d \in Callers \ {c} : call'[d] = call[d]
  /\ call'[c].op = call[c].op /\ call'[c].id = call[c].id
  /\ call'[c].payload = call[c].payload

LEMMA EndMoves ==
  ASSUME Typed, NEW c \in Callers, NEW outcome \in {"resolved", "rejected"},
         NEW result \in (SUBSET Record) \cup Record \cup {None},
         End(c, outcome, result)
  PROVE  /\ Moves(c) /\ call'[c].pc = "done"
         /\ call'[c].outcome = outcome /\ call'[c].result = result
<1>. DEFINE new == [call[c] EXCEPT !.pc = "done", !.outcome = outcome, !.result = result]
<1>1. call[c] \in CallRecord
  BY DEF Typed
<1>2. "done" \in Pcs
  BY DEF Pcs
<1>3. new \in CallRecord
  BY ONLY <1>1, <1>2, outcome \in {"resolved", "rejected"},
     result \in (SUBSET Record) \cup Record \cup {None} DEF CallRecord
<1>4. /\ new.pc = "done" /\ new.outcome = outcome /\ new.result = result
      /\ new.op = call[c].op /\ new.id = call[c].id /\ new.payload = call[c].payload
  BY ONLY <1>1, <1>3 DEF CallRecord
<1>5. call' = [call EXCEPT ![c] = new]
  BY DEF End, Typed
<1>. HIDE DEF new
<1>6. /\ call' \in [Callers -> CallRecord] /\ call'[c] = new
      /\ \A d \in Callers \ {c} : call'[d] = call[d]
  BY ONLY <1>3, <1>5, Typed, c \in Callers DEF Typed
<1>. QED
  BY ONLY <1>4, <1>6 DEF Moves

LEMMA FoundMoves ==
  ASSUME Typed, NEW c \in Callers, NEW read \in Record,
         call' = [call EXCEPT ![c].pc = "found", ![c].read = read]
  PROVE  /\ Moves(c) /\ call'[c].pc = "found" /\ call'[c].read = read
         /\ call'[c].outcome = call[c].outcome /\ call'[c].result = call[c].result
<1>. DEFINE new == [call[c] EXCEPT !.pc = "found", !.read = read]
<1>1. call[c] \in CallRecord /\ "found" \in Pcs
  BY DEF Typed, Pcs
<1>2. new \in CallRecord
  BY ONLY <1>1, read \in Record DEF CallRecord
<1>3. /\ new.pc = "found" /\ new.outcome = call[c].outcome /\ new.result = call[c].result
      /\ new.op = call[c].op /\ new.id = call[c].id /\ new.payload = call[c].payload
      /\ new.read = read
  BY ONLY <1>1, <1>2 DEF CallRecord
<1>4. call' = [call EXCEPT ![c] = new]
  BY DEF Typed
<1>. HIDE DEF new
<1>5. /\ call' \in [Callers -> CallRecord] /\ call'[c] = new
      /\ \A d \in Callers \ {c} : call'[d] = call[d]
  BY ONLY <1>2, <1>4, Typed, c \in Callers DEF Typed
<1>. QED
  BY ONLY <1>3, <1>5 DEF Moves

LEMMA SetMoves ==
  ASSUME Typed, NEW c \in Callers, call' = [call EXCEPT ![c].pc = "set"]
  PROVE  /\ Moves(c) /\ call'[c].pc = "set"
         /\ call'[c].outcome = call[c].outcome /\ call'[c].result = call[c].result
<1>. DEFINE new == [call[c] EXCEPT !.pc = "set"]
<1>1. call[c] \in CallRecord /\ "set" \in Pcs
  BY DEF Typed, Pcs
<1>2. new \in CallRecord
  BY ONLY <1>1 DEF CallRecord
<1>3. /\ new.pc = "set" /\ new.outcome = call[c].outcome /\ new.result = call[c].result
      /\ new.op = call[c].op /\ new.id = call[c].id /\ new.payload = call[c].payload
  BY ONLY <1>1, <1>2 DEF CallRecord
<1>4. call' = [call EXCEPT ![c] = new]
  BY DEF Typed
<1>. HIDE DEF new
<1>5. /\ call' \in [Callers -> CallRecord] /\ call'[c] = new
      /\ \A d \in Callers \ {c} : call'[d] = call[d]
  BY ONLY <1>2, <1>4, Typed, c \in Callers DEF Typed
<1>. QED
  BY ONLY <1>3, <1>5 DEF Moves

-----------------------------------------------------------------------------
(* What a step of c leaves to the others: what was removed stays so, what    *)
(* was seen stays seen, and who still looks sees what is there.              *)
Leaves(c) ==
  /\ Moves(c) /\ engine' = engine
  /\ store' \in [Ids -> Record \cup {None}]
  /\ effective \subseteq effective' /\ effective' \subseteq effective \cup {c}
  /\ \A i \in Ids : store[i] # None => store'[i] # None \/ Removed(i)'
  /\ since' \in [Callers -> SUBSET (Record \cup {None})]
  /\ \A d \in Callers : since[d] \subseteq since'[d]
  /\ \A d \in Callers \ {c} : since[d] = {} => since'[d] = {}
  /\ \A d \in Callers \ {c} :
       call[d].pc = "set" => store'[call[d].id] \in since'[d]

LEMMA RemovedStays ==
  ASSUME IInv, NEW c \in Callers, Moves(c), effective \subseteq effective',
         NEW i \in Ids, Removed(i)
  PROVE  Removed(i)'
<1>1. PICK d \in Callers : call[d].op = "remove" /\ call[d].id = i /\ d \in effective
  BY DEF Removed
<1>2. call'[d].op = "remove" /\ call'[d].id = i /\ d \in effective'
  BY <1>1 DEF Moves
<1>. QED
  BY <1>2 DEF Removed

LEMMA LeavesInv ==
  ASSUME IInv, NEW c \in Callers, Leaves(c), Stage(c)', Told(c)'
  PROVE  IInv'
<1>1. Typed'
  BY DEF Leaves, Moves, Typed, IInv
<1>2. ASSUME NEW d \in Callers \ {c} PROVE Stage(d)' /\ Told(d)'
  <2>1. /\ Stage(d) /\ Told(d) /\ call'[d] = call[d]
        /\ d \in effective' <=> d \in effective
        /\ since[d] \subseteq since'[d] /\ (since[d] = {} => since'[d] = {})
        /\ call[d].pc = "set" => store'[call[d].id] \in since'[d]
        /\ engine' = engine
    BY DEF IInv, Leaves, Moves
  <2>2. call[d].op \in IdOperations /\ call[d].pc # "idle" => call[d].id \in Ids
    BY <2>1 DEF Stage
  <2>3. call[d].id \in Ids /\ Removed(call[d].id) => Removed(call[d].id)'
    <3>1. PICK i : i = call[d].id
      OBVIOUS
    <3>2. i \in Ids /\ Removed(i) => Removed(i)'
      BY RemovedStays DEF Leaves
    <3>3. Removed(i)' => Removed(call[d].id)'
      BY <2>1, <3>1 DEF Removed
    <3>. QED
      BY <3>1, <3>2, <3>3 DEF Removed
  <2>4. call[d].id \in Ids /\ store[call[d].id] # None
          => store'[call[d].id] # None \/ Removed(call[d].id)'
    <3>1. PICK i : i = call[d].id
      OBVIOUS
    <3>2. i \in Ids /\ store[i] # None => store'[i] # None \/ Removed(i)'
      BY DEF Leaves
    <3>3. Removed(i)' => Removed(call[d].id)'
      BY <2>1, <3>1 DEF Removed
    <3>. QED
      BY <3>1, <3>2, <3>3
  <2>5. Stage(d)'
    BY ONLY <2>1, <2>2, <2>3, <2>4 DEF Stage, IdOperations
  <2>6. Told(d)'
    <3>1. call[d].outcome # None => call[d].pc = "done"
      BY <2>1 DEF Stage
    <3>2. call[d].pc # "idle" /\ call[d].op = "update" => call[d].id \in Ids
      BY <2>2 DEF IdOperations
    <3>. QED
      BY <2>1, <2>3, <3>1, <3>2, StorageAssumption DEF Told
  <2>. QED
    BY <2>5, <2>6
<1>. QED
  BY <1>1, <1>2 DEF IInv

-----------------------------------------------------------------------------
(* Observe adds to what was seen, and all that still look see the change.    *)
LEMMA Observed ==
  ASSUME IInv, NEW c \in Callers, call[c].id \in Ids, Observe(c),
         store' \in [Ids -> Record \cup {None}]
  PROVE  /\ since' \in [Callers -> SUBSET (Record \cup {None})]
         /\ since'[c] = since[c] \cup {store'[call[c].id]}
         /\ \A d \in Callers : since[d] \subseteq since'[d]
         /\ \A d \in Callers \ {c} : since[d] = {} => since'[d] = {}
         /\ \A d \in Callers :
              call[d].pc = "set" => store'[call[d].id] \in since'[d]
<1>1. \A d \in Callers :
        since'[d] = IF d = c \/ (since[d] # {} /\ call[d].pc # "done")
                    THEN since[d] \cup {store'[call[d].id]} ELSE since[d]
  BY DEF Observe
<1>2. ASSUME NEW d \in Callers PROVE /\ since[d] # {} => call[d].id \in Ids
                                     /\ call[d].pc = "set" => since[d] # {}
  BY DEF IInv, Stage
<1>3. ASSUME NEW d \in Callers PROVE since'[d] \in SUBSET (Record \cup {None})
  <2>1. since[d] \in SUBSET (Record \cup {None})
    BY DEF IInv, Typed
  <2>2. d = c \/ since[d] # {} => store'[call[d].id] \in Record \cup {None}
    BY <1>2
  <2>. QED
    BY ONLY <1>1, <2>1, <2>2, d \in Callers
<1>4. since' \in [Callers -> SUBSET (Record \cup {None})]
  BY <1>3 DEF Observe
<1>. QED
  BY <1>1, <1>2, <1>4

(* A step that changes no record.                                            *)
LEMMA QuietLeaves ==
  ASSUME IInv, NEW c \in Callers, Moves(c), UNCHANGED <<engine, store, effective>>,
         since' = since \/ (Observe(c) /\ call[c].id \in Ids)
  PROVE  Leaves(c)
<1>1. \A d \in Callers : call[d].pc = "set" => store[call[d].id] \in since[d]
  BY DEF IInv, Stage
<1>2. CASE since' = since
  BY <1>1, <1>2 DEF IInv, Typed, Leaves
<1>3. CASE Observe(c) /\ call[c].id \in Ids
  <2>1. store' \in [Ids -> Record \cup {None}]
    BY DEF IInv, Typed
  <2>. QED
    BY <1>3, <2>1, Observed DEF Leaves
<1>. QED
  BY <1>2, <1>3

(* A step that writes a record, or removes one.                              *)
LEMMA WriteLeaves ==
  ASSUME IInv, NEW c \in Callers, Moves(c), call[c].id \in Ids,
         NEW record \in Record \cup {None}, record = None => call[c].op = "remove",
         Write(c, record), Observe(c), engine' = engine
  PROVE  /\ Leaves(c) /\ store'[call[c].id] = record /\ effective' = effective \cup {c}
<1>. DEFINE id == call[c].id
<1>1. /\ store' \in [Ids -> Record \cup {None}] /\ store'[id] = record
      /\ \A i \in Ids \ {id} : store'[i] = store[i]
      /\ effective' = effective \cup {c}
  BY DEF IInv, Typed, Write
<1>2. ASSUME NEW i \in Ids, store[i] # None PROVE store'[i] # None \/ Removed(i)'
  <2>1. CASE i = id /\ record = None
    <3>1. call'[c].op = "remove" /\ call'[c].id = i /\ c \in effective'
      BY <2>1, <1>1 DEF Moves
    <3>. QED
      BY <3>1 DEF Removed
  <2>2. CASE i # id \/ record # None
    BY <1>1, <1>2, <2>2
  <2>. QED
    BY <2>1, <2>2
<1>3. /\ since' \in [Callers -> SUBSET (Record \cup {None})]
      /\ \A d \in Callers : since[d] \subseteq since'[d]
      /\ \A d \in Callers \ {c} : since[d] = {} => since'[d] = {}
      /\ \A d \in Callers : call[d].pc = "set" => store'[call[d].id] \in since'[d]
  BY <1>1, Observed
<1>. QED
  BY <1>1, <1>2, <1>3 DEF Leaves

-----------------------------------------------------------------------------
(* One lemma for each step.                                                  *)
LEMMA InvokeInv ==
  ASSUME IInv, NEW c \in Callers, NEW op \in Operations, NEW id \in Ids \cup {None},
         NEW payload \in Payloads \cup {None}, Invoke(c, op, id, payload),
         op \in IdOperations => id \in Ids,
         op \in {"find", "filter", "update"} => payload \in Payloads
  PROVE  IInv'
<1>. DEFINE new == [Idle EXCEPT !.pc = "called", !.op = op, !.id = id, !.payload = payload]
<1>1. /\ new \in CallRecord /\ new.pc = "called" /\ new.op = op /\ new.id = id
      /\ new.payload = payload /\ new.outcome = None /\ new.result = None
  BY DEF Idle, CallRecord, Pcs
<1>2. /\ call[c].pc = "idle" /\ call' = [call EXCEPT ![c] = new]
      /\ UNCHANGED <<engine, store, effective, since>>
  BY DEF Invoke
<1>. HIDE DEF new
<1>3. /\ call' \in [Callers -> CallRecord] /\ call'[c] = new
      /\ \A d \in Callers \ {c} : call'[d] = call[d]
  BY <1>1, <1>2 DEF IInv, Typed
<1>4. c \notin effective /\ since[c] = {}
  BY <1>2 DEF IInv, Stage
<1>5. \A i : Removed(i) => Removed(i)'
  BY <1>2, <1>3, <1>4 DEF Removed, IInv, Typed
<1>6. ASSUME NEW d \in Callers PROVE Stage(d)' /\ Told(d)'
  <2>1. CASE d = c
    BY <2>1, <1>1, <1>2, <1>3, <1>4, StorageAssumption DEF Stage, Told
  <2>2. CASE d # c
    <3>1. Stage(d) /\ Told(d) /\ call'[d] = call[d]
      BY <2>2, <1>3 DEF IInv
    <3>2. \A i : (i = call[d].id /\ Removed(i)) => Removed(call[d].id)'
      BY <1>5, <3>1 DEF Removed
    <3>. QED
      BY <3>1, <3>2, <1>2 DEF Stage, Told
  <2>. QED
    BY <2>1, <2>2
<1>. QED
  BY <1>2, <1>3, <1>6 DEF IInv, Typed

(* A call that ends without having changed a record.                         *)
LEMMA QuietEnd ==
  ASSUME IInv, NEW c \in Callers, NEW outcome \in {"resolved", "rejected"},
         NEW result, End(c, outcome, result), call[c].pc \notin {"idle", "done"},
         IF call[c].op = "filter" THEN result \in SUBSET Record
                                  ELSE result \in Record \cup {None},
         UNCHANGED <<engine, store, effective>>,
         since' = since \/ (Observe(c) /\ call[c].op \in IdOperations),
         Told(c)'
  PROVE  IInv'
<1>1. /\ Moves(c) /\ call'[c].pc = "done" /\ call'[c].outcome = outcome
      /\ call'[c].result = result
  BY EndMoves DEF IInv
<1>2. Stage(c) /\ (call[c].op \in IdOperations => call[c].id \in Ids)
  BY DEF IInv, Stage
<1>3. Leaves(c)
  BY <1>1, <1>2, QuietLeaves
<1>4. since' = since \/ call[c].op \in IdOperations
  OBVIOUS
<1>5. Stage(c)'
  BY ONLY <1>1, <1>2, <1>4, IF call[c].op = "filter" THEN result \in SUBSET Record
                                  ELSE result \in Record \cup {None},
     call[c].pc \notin {"idle", "done"} DEF Stage, Moves
<1>. QED
  BY <1>3, <1>5, LeavesInv

LEMMA QueryInv == ASSUME IInv, NEW c \in Callers, Find(c) \/ Filter(c) PROVE IInv'
<1>1. call[c].pc = "called" /\ UNCHANGED <<engine, store, effective, since>>
  BY DEF Find, Filter, Called
<1>2. \A i \in Ids : store[i] \in Record \cup {None}
  BY DEF IInv, Typed
<1>3. ASSUME NEW result, End(c, "resolved", result), call[c].op \in {"find", "filter"},
             IF call[c].op = "filter" THEN result \in SUBSET Record
                                      ELSE result \in Record \cup {None}
      PROVE  IInv'
  <2>1. /\ Moves(c) /\ call'[c].outcome = "resolved"
    BY <1>3, EndMoves DEF IInv
  <2>2. Told(c)'
    BY <1>3, <2>1 DEF Told, Moves
  <2>. QED
    BY <1>1, <1>3, <2>2, QuietEnd
<1>4. CASE Find(c)
  BY <1>2, <1>3, <1>4 DEF Find, Called, Matching
<1>5. CASE Filter(c)
  <2>1. {store[id] : id \in Matching(call[c].payload)} \in SUBSET Record
    BY <1>2 DEF Matching
  <2>. QED
    BY <1>3, <1>5, <2>1 DEF Filter, Called
<1>. QED
  BY <1>4, <1>5

LEMMA GetInv == ASSUME IInv, NEW c \in Callers, Get(c) PROVE IInv'
<1>. DEFINE record == store[call[c].id]
            outcome == IF record = None THEN "rejected" ELSE "resolved"
<1>1. /\ call[c].pc = "called" /\ call[c].op = "get" /\ End(c, outcome, record)
      /\ Observe(c) /\ UNCHANGED <<engine, store, effective>>
  BY DEF Get, Called
<1>2. call[c].id \in Ids /\ record \in Record \cup {None} /\ c \notin effective
  BY <1>1 DEF IInv, Typed, Stage, IdOperations
<1>3. /\ Moves(c) /\ call'[c].outcome = outcome /\ call'[c].result = record
  BY <1>1, <1>2, EndMoves DEF IInv
<1>4. record \in since'[c]
  BY <1>1, <1>2, Observed DEF IInv, Typed
<1>5. Told(c)'
  BY <1>1, <1>2, <1>3, <1>4 DEF Told, Moves
<1>. QED
  BY <1>1, <1>2, <1>5, QuietEnd DEF IdOperations

(* A call that ends with a write, and one that has written but not ended.    *)
LEMMA WriteEnd ==
  ASSUME IInv, NEW c \in Callers, NEW outcome \in {"resolved", "rejected"},
         NEW result \in Record \cup {None}, End(c, outcome, result),
         call[c].pc \notin {"idle", "done"}, call[c].op \in IdOperations,
         NEW record \in Record \cup {None}, record = None => call[c].op = "remove",
         Write(c, record), Observe(c), engine' = engine,
         outcome = "resolved" /\ call[c].op # "remove" => result = record,
         outcome = "rejected" => engine = "internaldb" /\ call[c].op = "update"
  PROVE  IInv'
<1>1. /\ Moves(c) /\ call'[c].pc = "done" /\ call'[c].outcome = outcome
      /\ call'[c].result = result
  BY EndMoves DEF IInv
<1>2. Stage(c) /\ call[c].id \in Ids
  BY DEF IInv, Stage
<1>3. /\ Leaves(c) /\ store'[call[c].id] = record /\ effective' = effective \cup {c}
  BY <1>1, <1>2, WriteLeaves
<1>4. record \in since'[c]
  BY <1>2, <1>3, Observed DEF Leaves
<1>5. /\ call[c].op \in IdOperations /\ call[c].pc \notin {"idle", "done"}
      /\ result \in Record \cup {None} /\ outcome \in {"resolved", "rejected"}
      /\ outcome = "resolved" /\ call[c].op # "remove" => result = record
      /\ outcome = "rejected" => engine = "internaldb" /\ call[c].op = "update"
      /\ engine' = engine
  OBVIOUS
<1>6. Stage(c)'
  BY ONLY <1>1, <1>2, <1>5 DEF Stage, Moves, IdOperations
<1>7. Told(c)'
  BY ONLY <1>1, <1>3, <1>4, <1>5 DEF Told, Moves, IdOperations
<1>. QED
  BY <1>3, <1>6, <1>7, LeavesInv

LEMMA CreateInv == ASSUME IInv, NEW c \in Callers, Create(c) PROVE IInv'
<1>1. /\ call[c].pc = "called" /\ call[c].op = "create"
      /\ Observe(c) /\ UNCHANGED engine /\ c \notin effective
  BY DEF Create, Called, IInv, Stage
<1>2. CASE End(c, "rejected", None) /\ UNCHANGED <<store, effective>>
  <2>1. Moves(c) /\ call'[c].outcome = "rejected"
    BY <1>2, EndMoves DEF IInv
  <2>2. Told(c)'
    BY <1>1, <1>2, <2>1 DEF Told, Moves
  <2>. QED
    BY <1>1, <1>2, <2>2, QuietEnd DEF IdOperations
<1>3. CASE Write(c, Default) /\ End(c, "resolved", Default)
  <2>1. Default \in Record /\ Default # None
    BY DefaultIsRecord, NoneIsNoRecord
  <2>. QED
    BY <1>1, <1>3, <2>1, WriteEnd DEF IdOperations
<1>. QED
  BY <1>2, <1>3 DEF Create

LEMMA InternalUpdateInv == ASSUME IInv, NEW c \in Callers, InternalUpdate(c) PROVE IInv'
<1>. DEFINE record == store[call[c].id]
            payload == call[c].payload
            new == IF record = None THEN Declared(payload) ELSE Merged(record, payload)
<1>1. /\ call[c].pc = "called" /\ call[c].op = "update" /\ engine = "internaldb"
      /\ Observe(c) /\ UNCHANGED engine /\ c \notin effective
      /\ call[c].id \in Ids /\ payload \in Payloads /\ record \in Record \cup {None}
  BY DEF InternalUpdate, Called, IInv, Stage, Typed, IdOperations
<1>2. CASE IsEmpty(payload)
  <2>. DEFINE outcome == IF record = None THEN "rejected" ELSE "resolved"
  <2>1. UNCHANGED <<store, effective>> /\ store' = store
    BY <1>2 DEF InternalUpdate
  <2>2. End(c, outcome, record)
    BY <2>1 DEF InternalUpdate
  <2>3. Moves(c) /\ call'[c].outcome = outcome /\ call'[c].result = record
    BY <1>1, <2>2, EndMoves DEF IInv
  <2>4. record \in since'[c]
    BY <1>1, <2>1, Observed DEF IInv, Typed
  <2>5. Told(c)'
    BY <1>1, <1>2, <2>1, <2>3, <2>4 DEF Told, Moves
  <2>. QED
    BY <1>1, <2>1, <2>2, <2>5, QuietEnd DEF IdOperations
<1>3. CASE ~IsEmpty(payload)
  <2>1. Write(c, new)
    BY <1>3 DEF InternalUpdate
  <2>2. new \in Record /\ new # None
    BY <1>1, DeclaredIsRecord, MergedIsRecord, NoneIsNoRecord
  <2>3. store'[call[c].id] = new
    BY <1>1, <2>1 DEF Write, IInv, Typed
  <2>4. End(c, "rejected", None) \/ End(c, "resolved", new)
    BY <2>3 DEF InternalUpdate
  <2>. HIDE DEF new
  <2>. QED
    BY <1>1, <2>1, <2>2, <2>4, WriteEnd DEF IdOperations
<1>. QED
  BY <1>2, <1>3

(* A remove that resolves, whether it has deleted anything or not.           *)
LEMMA RemoveInv ==
  ASSUME IInv, NEW c \in Callers, call[c].pc \in {"called", "found"}, call[c].op = "remove",
         NEW result \in Record \cup {None}, End(c, "resolved", result),
         UNCHANGED <<store, effective>> \/ Write(c, None),
         UNCHANGED engine, Observe(c)
  PROVE  IInv'
<1>1. CASE UNCHANGED <<store, effective>>
  <2>1. Moves(c) /\ call'[c].outcome = "resolved"
    BY EndMoves DEF IInv
  <2>2. Told(c)'
    BY <2>1 DEF Told, Moves
  <2>. QED
    BY <1>1, <2>2, QuietEnd DEF IdOperations
<1>2. CASE Write(c, None)
  BY <1>2, WriteEnd DEF IdOperations
<1>. QED
  BY <1>1, <1>2

LEMMA InternalRemoveInv == ASSUME IInv, NEW c \in Callers, InternalRemove(c) PROVE IInv'
<1>1. /\ call[c].pc = "called" /\ call[c].op = "remove" /\ Observe(c) /\ UNCHANGED engine
      /\ c \notin effective /\ store[call[c].id] \in Record \cup {None}
  BY DEF InternalRemove, Called, IInv, Stage, Typed, IdOperations
<1>2. CASE End(c, "rejected", None) /\ UNCHANGED <<store, effective>>
  <2>1. Moves(c) /\ call'[c].outcome = "rejected"
    BY <1>2, EndMoves DEF IInv
  <2>2. Told(c)'
    BY <1>1, <1>2, <2>1 DEF Told, Moves
  <2>. QED
    BY <1>1, <1>2, <2>2, QuietEnd DEF IdOperations
<1>3. CASE Write(c, None) /\ End(c, "resolved", store[call[c].id])
  BY <1>1, <1>3, RemoveInv
<1>. QED
  BY <1>2, <1>3 DEF InternalRemove

LEMMA MongoFindInv == ASSUME IInv, NEW c \in Callers, MongoFind(c) PROVE IInv'
<1>. DEFINE record == store[call[c].id]
<1>1. /\ call[c].pc = "called" /\ call[c].op \in {"update", "remove"}
      /\ UNCHANGED <<engine, store, effective>> /\ c \notin effective
      /\ call[c].id \in Ids /\ record \in Record \cup {None}
      /\ call[c] \in CallRecord
  BY DEF MongoFind, Called, IInv, Stage, Typed, IdOperations
<1>2. CASE End(c, "rejected", None)
  <2>1. Moves(c) /\ call'[c].outcome = "rejected" /\ call'[c].pc = "done"
    BY <1>2, EndMoves DEF IInv
  <2>2. Told(c)' /\ Observe(c)
    BY <1>1, <2>1 DEF Told, Moves, MongoFind
  <2>. QED
    BY <1>1, <1>2, <2>2, QuietEnd DEF IdOperations
<1>3. CASE record # None /\ IsEmpty(call[c].payload) /\ End(c, "resolved", record)
  <2>1. /\ Moves(c) /\ call'[c].outcome = "resolved" /\ call'[c].pc = "done"
        /\ call'[c].result = record
    BY <1>1, <1>3, EndMoves DEF IInv
  <2>2. Observe(c)
    BY <2>1 DEF MongoFind
  <2>3. record \in since'[c]
    BY <1>1, <2>2, Observed DEF IInv, Typed
  <2>4. Told(c)'
    BY <1>1, <1>3, <2>1, <2>3 DEF Told, Moves
  <2>. QED
    BY <1>1, <1>3, <2>2, <2>4, QuietEnd DEF IdOperations
<1>4. CASE record # None /\ call' = [call EXCEPT ![c].pc = "found", ![c].read = record]
  <2>1. /\ Moves(c) /\ call'[c].pc = "found" /\ call'[c].read = record
        /\ call'[c].outcome = call[c].outcome /\ call'[c].result = call[c].result
    BY <1>1, <1>4, FoundMoves DEF IInv
  <2>2. UNCHANGED since
    BY <2>1 DEF MongoFind
  <2>3. Leaves(c)
    BY <1>1, <2>1, <2>2, QuietLeaves
  <2>4. Stage(c) /\ call[c].outcome = None
    BY <1>1 DEF IInv, Stage
  <2>5. Stage(c)'
    BY ONLY <1>1, <1>4, <2>1, <2>2, <2>4 DEF Stage, Moves, IdOperations
  <2>6. Told(c)'
    BY <2>1, <2>4, StorageAssumption DEF Told
  <2>. QED
    BY <2>3, <2>5, <2>6, LeavesInv
<1>. QED
  BY <1>2, <1>3, <1>4 DEF MongoFind

LEMMA MongoSetInv == ASSUME IInv, NEW c \in Callers, MongoSet(c) PROVE IInv'
<1>. DEFINE id == call[c].id
            record == store[id]
            new == Merged(record, call[c].payload)
<1>1. /\ call[c].pc = "found" /\ call[c].op = "update" /\ Stage(c)
      /\ call' = [call EXCEPT ![c].pc = "set"] /\ Observe(c) /\ UNCHANGED engine
      /\ id \in Ids /\ call[c].payload \in Payloads /\ record \in Record \cup {None}
      /\ call[c].outcome = None
  BY DEF MongoSet, Found, IInv, Stage, Typed, IdOperations
<1>2. /\ Moves(c) /\ call'[c].pc = "set"
      /\ call'[c].outcome = None /\ call'[c].result = call[c].result
  BY <1>1, SetMoves DEF IInv
<1>3. Leaves(c) /\ (c \in effective' \/ Removed(id)')
  <2>1. CASE record = None
    <3>1. UNCHANGED <<store, effective>>
      BY <2>1 DEF MongoSet
    <3>2. PICK i \in Ids : i = id
      BY <1>1
    <3>3. Removed(i)'
      BY <1>1, <1>2, <2>1, <3>1, <3>2, RemovedStays DEF Stage
    <3>4. Removed(id)'
      BY <3>2, <3>3, <1>2 DEF Removed, Moves
    <3>. QED
      BY <1>1, <1>2, <3>1, <3>4, QuietLeaves
  <2>2. CASE record # None
    <3>1. Write(c, new)
      BY <2>2 DEF MongoSet
    <3>2. new \in Record /\ new # None
      BY <1>1, <2>2, MergedIsRecord, NoneIsNoRecord
    <3>. HIDE DEF new
    <3>. QED
      BY <1>1, <1>2, <3>1, <3>2, WriteLeaves
  <2>. QED
    BY <2>1, <2>2
<1>4. store'[id] \in since'[c]
  BY <1>1, <1>3, Observed DEF Leaves
<1>5. Stage(c)'
  BY ONLY <1>1, <1>2, <1>3, <1>4 DEF Stage, Moves, IdOperations, Removed
<1>6. Told(c)'
  BY <1>2, StorageAssumption DEF Told
<1>. QED
  BY <1>3, <1>5, <1>6, LeavesInv

LEMMA MongoRereadInv == ASSUME IInv, NEW c \in Callers, MongoReread(c) PROVE IInv'
<1>. DEFINE id == call[c].id
<1>1. /\ call[c].pc = "set" /\ call[c].op = "update" /\ End(c, "resolved", store[id])
      /\ UNCHANGED <<engine, store, effective, since>> /\ id \in Ids
      /\ store[id] \in since[c] /\ (c \in effective \/ Removed(id))
      /\ store[id] \in Record \cup {None}
  BY DEF MongoReread, IInv, Stage, Typed, IdOperations
<1>2. Moves(c) /\ call'[c].outcome = "resolved" /\ call'[c].result = store[id]
  BY <1>1, EndMoves DEF IInv
<1>3. c \in effective' \/ Removed(call[c].id)'
  <2>1. PICK i \in Ids : i = id
    BY <1>1
  <2>2. Removed(i) => Removed(i)'
    BY <1>1, <1>2, RemovedStays
  <2>. QED
    BY <1>1, <1>2, <2>1, <2>2 DEF Removed, Moves
<1>4. Told(c)'
  BY <1>1, <1>2, <1>3 DEF Told, Moves, Removed
<1>. QED
  BY <1>1, <1>4, QuietEnd

LEMMA MongoDeleteInv == ASSUME IInv, NEW c \in Callers, MongoDelete(c) PROVE IInv'
<1>1. /\ call[c].pc = "found" /\ call[c].op = "remove" /\ End(c, "resolved", call[c].read)
      /\ Observe(c) /\ UNCHANGED engine /\ call[c].read \in Record
  BY DEF MongoDelete, Found, IInv, Stage
<1>2. UNCHANGED <<store, effective>> \/ Write(c, None)
  BY DEF MongoDelete
<1>. QED
  BY <1>1, <1>2, RemoveInv

-----------------------------------------------------------------------------
LEMMA InitInv == Init => IInv
<1>. SUFFICES ASSUME Init PROVE IInv
  OBVIOUS
<1>. USE StorageAssumption DEF Init
<1>1. Idle \in CallRecord
  BY DEF Idle, CallRecord, Pcs
<1>2. Typed
  BY <1>1 DEF Typed
<1>3. \A c \in Callers : Stage(c) /\ Told(c)
  BY DEF Stage, Told, Idle
<1>. QED
  BY <1>2, <1>3 DEF IInv

LEMMA StutterInv == ASSUME IInv, UNCHANGED vars PROVE IInv'
BY DEF vars, IInv, Typed, Stage, Told, Removed

LEMMA NextInv == ASSUME IInv, [Next]_vars PROVE IInv'
<1>1. ASSUME NEW c \in Callers, Query(c) PROVE IInv'
  BY <1>1, InvokeInv DEF Query, Operations, IdOperations
<1>2. ASSUME NEW c \in Callers, ById(c) PROVE IInv'
  BY <1>2, InvokeInv DEF ById, Operations, IdOperations
<1>3. ASSUME NEW c \in Callers, Step(c) PROVE IInv'
  BY <1>3, QueryInv, GetInv, CreateInv, InternalUpdateInv, InternalRemoveInv,
     MongoFindInv, MongoSetInv, MongoRereadInv, MongoDeleteInv DEF Step
<1>. QED
  BY <1>1, <1>2, <1>3, StutterInv DEF Next

LEMMA Invariance == Spec => []IInv
BY InitInv, NextInv, PTL DEF Spec

(* Records never hold an attribute that is not declared, and every result is *)
(* a record, or a set of records.                                            *)
THEOREM TypeCorrect == Spec => []TypeOK
<1>1. IInv => TypeOK
  <2>. SUFFICES ASSUME IInv PROVE TypeOK
    OBVIOUS
  <2>1. ASSUME NEW c \in Callers
        PROVE  /\ call[c].pc \in {"idle", "called", "found", "set", "done"}
               /\ call[c].op \in Operations \cup {None}
               /\ call[c].id \in Ids \cup {None}
               /\ call[c].payload \in Payloads \cup {None}
               /\ call[c].read \in Record \cup {None}
               /\ call[c].outcome \in {"resolved", "rejected", None}
    BY DEF IInv, Typed, CallRecord, Pcs
  <2>2. ASSUME NEW c \in Callers
        PROVE  call[c].result \in
                 IF call[c].op = "filter" THEN (SUBSET Record) \cup {None}
                                          ELSE Record \cup {None}
    BY DEF IInv, Stage
  <2>. QED
    BY <2>1, <2>2 DEF IInv, Typed, TypeOK
<1>. QED
  BY <1>1, Invariance, PTL

(* No call that reads, creates or updates resolves with a record older than  *)
(* its own effect, however many callers write between the three calls of an  *)
(* update on MongoDB.                                                        *)
THEOREM ResultsAreCurrent == Spec => []ResultIsCurrent
<1>1. IInv => ResultIsCurrent
  BY DEF IInv, Told, ResultIsCurrent
<1>. QED
  BY <1>1, Invariance, PTL

(* A caller that is told of success has changed the record, unless there was *)
(* nothing to change or it was removed meanwhile; one that is told of failure *)
(* has not, except by an update on the internal database.                    *)
THEOREM OutcomesTell == Spec => []OutcomeTellsEffect
<1>1. IInv => OutcomeTellsEffect
  BY DEF IInv, Told, OutcomeTellsEffect
<1>. QED
  BY <1>1, Invariance, PTL

-----------------------------------------------------------------------------
(* Both engines implement Collection.                                        *)
PromisedVars == <<engine = "internaldb", store, effective>>

LEMMA PromisedStart == Init => Promised!Init
BY DEF Init, Promised!Init

LEMMA Unseen ==
  ASSUME UNCHANGED <<engine, store, effective>>
  PROVE  UNCHANGED PromisedVars
BY DEF PromisedVars

(* Every step that writes is a step of Collection.                           *)
LEMMA PromisedWrite ==
  ASSUME IInv, NEW c \in Callers, call[c].id \in Ids, c \notin effective, UNCHANGED engine,
         NEW record, Write(c, record),
         \/ store[call[c].id] = None /\ record = Default
         \/ store[call[c].id] # None /\ record = None
         \/ /\ call[c].payload \in Payloads
            /\ \/ /\ store[call[c].id] # None
                  /\ record = Merged(store[call[c].id], call[c].payload)
               \/ /\ store[call[c].id] = None /\ engine = "internaldb"
                  /\ record = Declared(call[c].payload)
  PROVE  Promised!Next
<1>1. PICK id \in Ids : id = call[c].id
  OBVIOUS
<1>2. Promised!Change(c, id, record)
  BY <1>1 DEF Write, Promised!Change
<1>3. CASE store[id] = None /\ record = Default
  BY <1>1, <1>2, <1>3 DEF Promised!Insert, Promised!Next
<1>4. CASE store[id] # None /\ record = None
  BY <1>1, <1>2, <1>4 DEF Promised!Delete, Promised!Next
<1>5. CASE /\ call[c].payload \in Payloads /\ store[id] # None
           /\ record = Merged(store[id], call[c].payload)
  <2>1. PICK payload \in Payloads : payload = call[c].payload
    BY <1>5
  <2>2. store[id] \in Record
    BY <1>5 DEF IInv, Typed
  <2>3. record = Promised!Merged(store[id], Declared(payload))
    BY <1>5, <2>1, <2>2, MergedDeclared
  <2>4. Promised!Write(c, id, Declared(payload))
    BY <1>2, <1>5, <2>3 DEF Promised!Write
  <2>. QED
    BY <1>1, <2>4 DEF Promised!Next
<1>6. CASE /\ call[c].payload \in Payloads /\ store[id] = None /\ engine = "internaldb"
           /\ record = Declared(call[c].payload)
  <2>1. PICK payload \in Payloads : payload = call[c].payload
    BY <1>6
  <2>2. Promised!Stray(c, id, Declared(payload))
    BY <1>2, <1>6, <2>1 DEF Promised!Stray
  <2>. QED
    BY <1>1, <2>2 DEF Promised!Next
<1>. QED
  BY <1>1, <1>3, <1>4, <1>5, <1>6

LEMMA PromisedNext ==
  ASSUME IInv, [Next]_vars
  PROVE  [Promised!Next]_PromisedVars
<1>1. CASE UNCHANGED <<engine, store, effective>>
  BY <1>1, Unseen
<1>2. ASSUME NEW c \in Callers, Create(c) \/ InternalUpdate(c) \/ InternalRemove(c)
                                  \/ MongoSet(c) \/ MongoDelete(c),
             ~UNCHANGED <<engine, store, effective>>
      PROVE  Promised!Next
  <2>1. /\ c \notin effective /\ call[c].id \in Ids /\ UNCHANGED engine
        /\ call[c].op = "update" => call[c].payload \in Payloads
    <3>1. /\ call[c].pc \in {"called", "found"} /\ UNCHANGED engine
          /\ call[c].op \in {"create", "update", "remove"}
      <4>1. Create(c) \/ InternalUpdate(c) \/ InternalRemove(c) =>
              /\ call[c].pc = "called" /\ UNCHANGED engine
              /\ call[c].op \in {"create", "update", "remove"}
        BY DEF Create, InternalUpdate, InternalRemove, Called
      <4>2. MongoSet(c) \/ MongoDelete(c) =>
              /\ call[c].pc = "found" /\ UNCHANGED engine
              /\ call[c].op \in {"update", "remove"}
        BY DEF MongoSet, MongoDelete, Found
      <4>. QED
        BY ONLY <1>2, <4>1, <4>2
    <3>2. Stage(c)
      BY DEF IInv
    <3>. QED
      BY ONLY <3>1, <3>2 DEF Stage, IdOperations
  <2>2. CASE Create(c)
    BY <1>2, <2>1, <2>2, PromisedWrite DEF Create
  <2>3. CASE InternalUpdate(c)
    BY <1>2, <2>1, <2>3, PromisedWrite DEF InternalUpdate, Called
  <2>4. CASE InternalRemove(c)
    BY <1>2, <2>1, <2>4, PromisedWrite DEF InternalRemove
  <2>5. CASE MongoSet(c)
    BY <1>2, <2>1, <2>5, PromisedWrite DEF MongoSet, Found
  <2>6. CASE MongoDelete(c)
    BY <1>2, <2>1, <2>6, PromisedWrite DEF MongoDelete
  <2>. QED
    BY <1>2, <2>2, <2>3, <2>4, <2>5, <2>6
<1>3. CASE UNCHANGED vars
  BY <1>1, <1>3 DEF vars
<1>4. ASSUME NEW c \in Callers, Query(c) \/ ById(c) PROVE UNCHANGED <<engine, store, effective>>
  BY <1>4 DEF Query, ById, Invoke
<1>5. ASSUME NEW c \in Callers, Find(c) \/ Filter(c) \/ Get(c) \/ MongoFind(c) \/ MongoReread(c)
      PROVE  UNCHANGED <<engine, store, effective>>
  BY <1>5 DEF Find, Filter, Get, MongoFind, MongoReread
<1>. QED
  BY <1>1, <1>2, <1>3, <1>4, <1>5 DEF Next, Step

(* Neither engine loses an attribute another caller wrote, creates a record  *)
(* twice or has a call take effect twice: every history is one of Collection. *)
THEOREM Refinement == Spec => CollectionKept
BY PromisedStart, PromisedNext, Invariance, PTL
   DEF Spec, CollectionKept, Promised!Spec, PromisedVars
=============================================================================
