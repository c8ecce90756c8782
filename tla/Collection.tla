----------------------------- MODULE Collection -----------------------------
(* What a collection of the storage promises the services, whichever engine  *)
(* keeps it: a record comes into being with the default value of every       *)
(* attribute, an update changes the attributes it names and no other, and a  *)
(* call takes effect at most once.                                           *)
CONSTANTS
  Ids, Callers,
  Payloads,   \* what an update may name: functions from attributes to values
  Default,    \* a record of default values
  Absent      \* no record

VARIABLES
  careless,   \* an update may write to an id that has no record; never changes
  store,      \* the record of each id
  effective   \* the callers whose call has changed a record

(* record with the attributes of payload written over its own.               *)
Merged(record, payload) ==
  [a \in DOMAIN record \cup DOMAIN payload |->
     IF a \in DOMAIN payload THEN payload[a] ELSE record[a]]

Change(c, id, record) ==
  /\ c \notin effective
  /\ effective' = effective \cup {c}
  /\ store' = [store EXCEPT ![id] = record]
  /\ UNCHANGED careless

Insert(c, id) == store[id] = Absent /\ Change(c, id, Default)
Write(c, id, payload) == store[id] # Absent /\ Change(c, id, Merged(store[id], payload))
Delete(c, id) == store[id] # Absent /\ Change(c, id, Absent)

(* The exception: a record made of nothing but the payload.                  *)
Stray(c, id, payload) == careless /\ store[id] = Absent /\ Change(c, id, payload)

Init == careless \in BOOLEAN /\ store = [id \in Ids |-> Absent] /\ effective = {}

Next ==
  \E c \in Callers, id \in Ids :
    \/ Insert(c, id)
    \/ Delete(c, id)
    \/ \E payload \in Payloads : Write(c, id, payload) \/ Stray(c, id, payload)

Spec == Init /\ [][Next]_<<careless, store, effective>>
=============================================================================
