------------------------------ MODULE Storage -------------------------------
(* The two storage engines: one collection, and callers in the server and in *)
(* the workers.                                                              *)
(*                                                                           *)
(* Every call on the internal database is one step. On MongoDB an update is  *)
(* three calls to the database (find, set, find) and a remove two, between   *)
(* which other callers come. `engine` is chosen once.                        *)
(*                                                                           *)
(* A call may be for any id, also to update one that has no record or to     *)
(* remove one, as the tests do. The services only update records they have   *)
(* created or read, and remove none.                                         *)
EXTENDS Naturals

CONSTANTS
  Callers, Ids,
  Attributes,   \* the attributes the collection declares
  Values,
  Default,      \* the default value of each attribute
  Payloads,     \* the updates: functions from attributes, declared or not
  None          \* null: no record

ASSUME StorageAssumption ==
  /\ Default \in [Attributes -> Values]
  /\ \A payload \in Payloads : \A a \in DOMAIN payload : payload[a] \in Values
  /\ None \notin UNION {[S -> Values] : S \in SUBSET Attributes}
  /\ None \notin {"resolved", "rejected"}

VARIABLES
  engine,
  store,       \* the record of each id, or None
  call,        \* each caller's call: where it is, and what came of it
  effective,   \* history: the callers whose call has changed a record
  since        \* history: what was stored under the id since the call took effect

vars == <<engine, store, call, effective, since>>

(* A record may lack attributes: see InternalUpdate.                         *)
Record == UNION {[S -> Values] : S \in SUBSET Attributes}

Operations == {"find", "filter", "get", "create", "update", "remove"}

Idle == [pc |-> "idle", op |-> None, id |-> None, payload |-> None, read |-> None,
         outcome |-> None, result |-> None]

(* The attributes of a payload that the collection declares.                 *)
Declared(payload) == [a \in DOMAIN payload \cap Attributes |-> payload[a]]
IsEmpty(payload) == DOMAIN Declared(payload) = {}

(* Mutant of Merged: attributes that are not declared are kept as well.      *)
AnyMerged(record, payload) ==
  [a \in DOMAIN record \cup DOMAIN payload |->
     IF a \in DOMAIN payload THEN payload[a] ELSE record[a]]

(* record with the declared attributes of payload written over its own.      *)
Merged(record, payload) ==
  [a \in DOMAIN record \cup (DOMAIN payload \cap Attributes) |->
     IF a \in DOMAIN payload THEN payload[a] ELSE record[a]]

(* The ids whose record has the values of a query.                           *)
Matching(query) ==
  {id \in Ids :
     /\ store[id] # None
     /\ \A a \in DOMAIN query : a \in DOMAIN store[id] /\ store[id][a] = query[a]}

End(c, outcome, result) ==
  call' = [call EXCEPT ![c].pc = "done", ![c].outcome = outcome, ![c].result = result]

(* What the call sees or leaves under its id, and every change to it since.  *)
Observe(c) ==
  since' = [d \in Callers |->
    IF d = c \/ (since[d] # {} /\ call[d].pc # "done")
    THEN since[d] \cup {store'[call[d].id]} ELSE since[d]]

Write(c, record) ==
  /\ store' = [store EXCEPT ![call[c].id] = record]
  /\ effective' = effective \cup {c}

Invoke(c, op, id, payload) ==
  /\ call[c].pc = "idle"
  /\ call' = [call EXCEPT ![c] =
       [Idle EXCEPT !.pc = "called", !.op = op, !.id = id, !.payload = payload]]
  /\ UNCHANGED <<engine, store, effective, since>>

Called(c, op) == call[c].pc = "called" /\ call[c].op = op

-----------------------------------------------------------------------------
(* What the engines do alike: find, filter, get and create.                  *)

(* find resolves with a record that matches, or with null.                   *)
Find(c) ==
  LET found == Matching(call[c].payload) IN
  /\ Called(c, "find")
  /\ \/ found = {} /\ End(c, "resolved", None)
     \/ \E id \in found : End(c, "resolved", store[id])
  /\ UNCHANGED <<engine, store, effective, since>>

Filter(c) ==
  /\ Called(c, "filter")
  /\ End(c, "resolved", {store[id] : id \in Matching(call[c].payload)})
  /\ UNCHANGED <<engine, store, effective, since>>

Get(c) ==
  LET record == store[call[c].id] IN
  /\ Called(c, "get")
  /\ End(c, IF record = None THEN "rejected" ELSE "resolved", record)
  /\ UNCHANGED <<engine, store, effective>> /\ Observe(c)

(* The record exists already, or is inserted with the default values.        *)
Create(c) ==
  /\ Called(c, "create")
  /\ \/ /\ store[call[c].id] # None
        /\ End(c, "rejected", None)
        /\ UNCHANGED <<store, effective>>
     \/ /\ store[call[c].id] = None
        /\ Write(c, Default) /\ End(c, "resolved", Default)
  /\ UNCHANGED engine /\ Observe(c)

-----------------------------------------------------------------------------
(* internaldb.service.js                                                     *)

(* An id without a record is rejected, but the function goes on: if there is *)
(* something to write, a record is made that has nothing else.               *)
InternalUpdate(c) ==
  LET record == store[call[c].id]
      payload == call[c].payload
  IN
  /\ engine = "internaldb" /\ Called(c, "update")
  /\ IF IsEmpty(payload) THEN UNCHANGED <<store, effective>>
     ELSE Write(c, IF record = None THEN Declared(payload) ELSE Merged(record, payload))
  /\ IF record = None THEN End(c, "rejected", None)
     ELSE End(c, "resolved", store'[call[c].id])
  /\ UNCHANGED engine /\ Observe(c)

InternalRemove(c) ==
  LET record == store[call[c].id] IN
  /\ engine = "internaldb" /\ Called(c, "remove")
  /\ \/ record = None /\ End(c, "rejected", None) /\ UNCHANGED <<store, effective>>
     \/ record # None /\ Write(c, None) /\ End(c, "resolved", record)
  /\ UNCHANGED engine /\ Observe(c)

-----------------------------------------------------------------------------
(* mongodb.service.js                                                        *)

(* Mutant of MongoFind: an id that has no record is no error.                *)
LenientMongoFind(c) ==
  LET record == store[call[c].id] IN
  /\ engine = "mongodb" /\ (Called(c, "update") \/ Called(c, "remove"))
  /\ \/ record = None /\ End(c, "resolved", None)
     \/ /\ record # None
        /\ call' = [call EXCEPT ![c].pc = "found", ![c].read = record]
  /\ UNCHANGED <<engine, store, effective>> /\ Observe(c)

(* update and remove find the record first. When there is nothing to write,  *)
(* this is all of an update.                                                 *)
MongoFind(c) ==
  LET record == store[call[c].id] IN
  /\ engine = "mongodb" /\ (Called(c, "update") \/ Called(c, "remove"))
  /\ \/ record = None /\ End(c, "rejected", None)
     \/ /\ record # None /\ call[c].op = "update" /\ IsEmpty(call[c].payload)
        /\ End(c, "resolved", record)
     \/ /\ record # None /\ ~(call[c].op = "update" /\ IsEmpty(call[c].payload))
        /\ call' = [call EXCEPT ![c].pc = "found", ![c].read = record]
  /\ UNCHANGED <<engine, store, effective>>
  /\ IF call'[c].pc = "done" THEN Observe(c) ELSE UNCHANGED since

Found(c, op) == engine = "mongodb" /\ call[c].pc = "found" /\ call[c].op = op

(* Mutant of MongoSet: the record that was found is written back whole.      *)
WholeMongoSet(c) ==
  /\ Found(c, "update")
  /\ IF store[call[c].id] = None THEN UNCHANGED <<store, effective>>
     ELSE Write(c, Merged(call[c].read, call[c].payload))
  /\ call' = [call EXCEPT ![c].pc = "set"]
  /\ UNCHANGED engine /\ Observe(c)

(* $set touches the attributes of the payload only. If the record has been   *)
(* removed meanwhile, there is nothing it matches.                           *)
MongoSet(c) ==
  LET record == store[call[c].id] IN
  /\ Found(c, "update")
  /\ IF record = None THEN UNCHANGED <<store, effective>>
     ELSE Write(c, Merged(record, call[c].payload))
  /\ call' = [call EXCEPT ![c].pc = "set"]
  /\ UNCHANGED engine /\ Observe(c)

(* Mutant of MongoReread: what is returned is what was found at first.       *)
StaleMongoReread(c) ==
  /\ call[c].pc = "set"
  /\ End(c, "resolved", call[c].read)
  /\ UNCHANGED <<engine, store, effective, since>>

(* The record is found once more, or no more.                                *)
MongoReread(c) ==
  /\ call[c].pc = "set"
  /\ End(c, "resolved", store[call[c].id])
  /\ UNCHANGED <<engine, store, effective, since>>

(* Of two removes that both found the record, one deletes nothing. Both      *)
(* resolve with the record they found.                                       *)
MongoDelete(c) ==
  /\ Found(c, "remove")
  /\ IF store[call[c].id] = None THEN UNCHANGED <<store, effective>> ELSE Write(c, None)
  /\ End(c, "resolved", call[c].read)
  /\ UNCHANGED engine /\ Observe(c)

-----------------------------------------------------------------------------
Init ==
  /\ engine \in {"internaldb", "mongodb"}
  /\ store = [id \in Ids |-> None]
  /\ call = [c \in Callers |-> Idle]
  /\ effective = {}
  /\ since = [c \in Callers |-> {}]

Query(c) ==
  \E op \in {"find", "filter"}, query \in Payloads : Invoke(c, op, None, query)

ById(c) ==
  \E id \in Ids :
    \/ \E op \in {"get", "create", "remove"} : Invoke(c, op, id, None)
    \/ \E payload \in Payloads : Invoke(c, "update", id, payload)

Step(c) ==
  \/ Find(c) \/ Filter(c) \/ Get(c) \/ Create(c)
  \/ InternalUpdate(c) \/ InternalRemove(c)
  \/ MongoFind(c) \/ MongoSet(c) \/ MongoReread(c) \/ MongoDelete(c)

Next == \E c \in Callers : Query(c) \/ ById(c) \/ Step(c)

Spec == Init /\ [][Next]_vars

-----------------------------------------------------------------------------
(* Records have declared attributes only, and results are records.           *)
TypeOK ==
  /\ engine \in {"internaldb", "mongodb"}
  /\ store \in [Ids -> Record \cup {None}]
  /\ \A c \in Callers :
       /\ call[c].pc \in {"idle", "called", "found", "set", "done"}
       /\ call[c].op \in Operations \cup {None}
       /\ call[c].id \in Ids \cup {None}
       /\ call[c].payload \in Payloads \cup {None}
       /\ call[c].read \in Record \cup {None}
       /\ call[c].outcome \in {"resolved", "rejected", None}
       /\ call[c].result \in
            IF call[c].op = "filter" THEN (SUBSET Record) \cup {None} ELSE Record \cup {None}
  /\ effective \subseteq Callers
  /\ since \in [Callers -> SUBSET (Record \cup {None})]

(* Both engines keep what Collection promises: attributes that two callers   *)
(* update at the same time are both kept, no update brings a removed record  *)
(* back on MongoDB, and of two creates one fails. The internal database may  *)
(* make a record out of an update alone.                                     *)
Promised == INSTANCE Collection WITH
  Absent <- None,
  Payloads <- {Declared(payload) : payload \in Payloads},
  careless <- engine = "internaldb"

CollectionKept == Promised!Spec

(* What a get, a create or an update resolves with was stored under its id   *)
(* when it took effect or later: never what was there before its own write.  *)
ResultIsCurrent ==
  \A c \in Callers :
    call[c].outcome = "resolved" /\ call[c].op \in {"get", "create", "update"} =>
      call[c].result \in since[c]

Removed(id) ==
  \E d \in Callers : call[d].op = "remove" /\ call[d].id = id /\ d \in effective

(* A create or update that resolves has changed the record, unless there is  *)
(* nothing to change, or the record was removed under an update. One that is *)
(* rejected has changed nothing, but for the update of an id without record  *)
(* on the internal database.                                                 *)
OutcomeTellsEffect ==
  \A c \in Callers :
    /\ call[c].outcome = "resolved" =>
         /\ call[c].op = "create" => c \in effective
         /\ call[c].op = "update" =>
              c \in effective \/ IsEmpty(call[c].payload) \/ Removed(call[c].id)
    /\ call[c].outcome = "rejected" =>
         c \notin effective \/ (engine = "internaldb" /\ call[c].op = "update")
=============================================================================
