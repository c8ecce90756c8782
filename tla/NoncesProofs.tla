---------------------------- MODULE NoncesProofs ----------------------------
(* Proofs about Nonces, for a buffer of any size and any number of requests. *)
EXTENDS Nonces, SequenceTheorems, TLAPS

LEMMA SizePositive == BufferSize \in Nat \ {0}
BY SizeAssumption DEF BufferSize

(* Pushing at the end and shifting at the front moves every nonce one place  *)
(* to the left and puts the new one last.                                    *)
LEMMA Shift ==
  ASSUME NEW S, NEW n \in Nat \ {0}, NEW b \in [1..n -> S], NEW v \in S
  PROVE  /\ Tail(Append(b, v)) \in [1..n -> S]
         /\ \A i \in 1..n : Tail(Append(b, v))[i] = IF i = n THEN v ELSE b[i + 1]
<1>1. b \in Seq(S) /\ Len(b) = n
  OBVIOUS
<1>2. /\ Append(b, v) \in Seq(S) /\ Len(Append(b, v)) = n + 1
      /\ \A i \in 1..(n + 1) : Append(b, v)[i] = IF i = n + 1 THEN v ELSE b[i]
  BY <1>1
<1>. DEFINE a == Append(b, v)
<1>. HIDE DEF a
<1>3. /\ a \in Seq(S) /\ Len(a) = n + 1
      /\ \A i \in 1..(n + 1) : a[i] = IF i = n + 1 THEN v ELSE b[i]
  BY <1>2 DEF a
<1>4. /\ Tail(a) \in Seq(S) /\ Len(Tail(a)) = n
      /\ \A i \in 1..n : Tail(a)[i] = a[i + 1]
  BY <1>3
<1>5. \A i \in 1..n : Tail(a)[i] = IF i = n THEN v ELSE b[i + 1]
  BY <1>3, <1>4
<1>6. Tail(a) \in [1..n -> S]
  BY <1>4, LenProperties
<1>. QED
  BY <1>5, <1>6 DEF a

LEMMA InitInv == Init => NonceInv
<1>. SUFFICES ASSUME Init PROVE NonceInv
  OBVIOUS
<1>1. TypeOK
  BY SizePositive DEF Init, TypeOK, InitialBuffer, Idle, RequestRecord, Values
<1>2. accepted = <<>> /\ Len(accepted) = 0
  BY DEF Init
<1>3. BufferIsTail /\ NoReplayInWindow
  BY <1>2 DEF BufferIsTail, NoReplayInWindow, DistinctWithin
<1>. QED
  BY <1>1, <1>3 DEF NonceInv

(* The steps that leave the nonces alone.                                    *)
LEMMA NoncesUntouched ==
  ASSUME NonceInv, UNCHANGED <<usedBuffer, accepted>>,
         request' \in [Requests -> RequestRecord]
  PROVE  NonceInv'
BY DEF NonceInv, TypeOK, BufferIsTail, NoReplayInWindow, DistinctWithin

(* An accepted nonce is not among the last BufferSize ones, since these are  *)
(* in the buffer; and it takes its place at the right end of the buffer.     *)
LEMMA NonceAccepted ==
  ASSUME NonceInv, NEW v \in Values, Acceptable(v),
         usedBuffer' = Tail(Append(usedBuffer, v)),
         accepted' = Append(accepted, v),
         request' \in [Requests -> RequestRecord]
  PROVE  NonceInv'
<1>. DEFINE N == BufferSize
            m == Len(accepted)
<1>1. N \in Nat \ {0} /\ m \in Nat /\ accepted \in Seq(Values)
  BY SizePositive DEF NonceInv, TypeOK
<1>2. usedBuffer \in [1..N -> Values \cup {None}]
  BY DEF NonceInv, TypeOK
<1>. HIDE DEF N
<1>3. /\ usedBuffer' \in [1..N -> Values \cup {None}]
      /\ \A i \in 1..N : usedBuffer'[i] = IF i = N THEN v ELSE usedBuffer[i + 1]
  <2>. DEFINE S == Values \cup {None}
  <2>1. usedBuffer \in [1..N -> S] /\ v \in S
    BY <1>2 DEF N
  <2>. HIDE DEF S
  <2>2. /\ Tail(Append(usedBuffer, v)) \in [1..N -> S]
        /\ \A i \in 1..N : Tail(Append(usedBuffer, v))[i] = IF i = N THEN v ELSE usedBuffer[i + 1]
    BY <1>1, <2>1, Shift
  <2>. QED
    BY <2>2 DEF S
<1>4. /\ accepted' \in Seq(Values) /\ Len(accepted') = m + 1
      /\ accepted'[m + 1] = v
      /\ \A i \in 1..m : accepted'[i] = accepted[i]
  BY <1>1
<1>5. \A i \in 1..m : m - i < N => N + i - m \in 1..N /\ usedBuffer[N + i - m] = accepted[i]
  BY <1>1 DEF NonceInv, BufferIsTail, N
<1>. HIDE DEF m
<1>6. TypeOK'
  BY <1>3, <1>4 DEF TypeOK, N
<1>7. BufferIsTail'
  <2>. SUFFICES ASSUME NEW i \in 1..(m + 1), (m + 1) - i < N
                PROVE  usedBuffer'[N + i - (m + 1)] = accepted'[i]
    BY <1>4 DEF BufferIsTail, N
  <2>1. CASE i = m + 1
    BY <2>1, <1>1, <1>3, <1>4
  <2>2. CASE i # m + 1
    <3>1. i \in 1..m /\ m - i < N /\ N + i - (m + 1) \in 1..N /\ N + i - (m + 1) # N
      BY <2>2, <1>1
    <3>2. usedBuffer'[N + i - (m + 1)] = usedBuffer[(N + i - (m + 1)) + 1]
      BY <3>1, <1>3
    <3>3. (N + i - (m + 1)) + 1 = N + i - m
      BY <1>1
    <3>. QED
      BY <3>1, <3>2, <3>3, <1>4, <1>5
  <2>. QED
    BY <2>1, <2>2
<1>8. NoReplayInWindow'
  <2>. SUFFICES ASSUME NEW i \in 1..(m + 1), NEW j \in 1..(m + 1), i < j, j - i <= N
                PROVE  accepted'[i] # accepted'[j]
    BY <1>4 DEF NoReplayInWindow, DistinctWithin, N
  <2>1. CASE j = m + 1
    <3>1. i \in 1..m /\ m - i < N
      BY <2>1, <1>1
    <3>2. usedBuffer[N + i - m] = accepted[i] /\ N + i - m \in 1..N
      BY <3>1, <1>5
    <3>3. usedBuffer[N + i - m] # v
      BY <3>2, <1>2 DEF Acceptable
    <3>. QED
      BY <2>1, <3>1, <3>2, <3>3, <1>4
  <2>2. CASE j # m + 1
    <3>1. i \in 1..m /\ j \in 1..m
      BY <2>2, <1>1
    <3>2. accepted[i] # accepted[j]
      BY <3>1 DEF NonceInv, NoReplayInWindow, DistinctWithin, m, N
    <3>. QED
      BY <3>1, <3>2, <1>4
  <2>. QED
    BY <2>1, <2>2
<1>. QED
  BY <1>6, <1>7, <1>8 DEF NonceInv

LEMMA NextInv == NonceInv /\ [Next]_vars => NonceInv'
<1>. SUFFICES ASSUME NonceInv, [Next]_vars PROVE NonceInv'
  OBVIOUS
<1>0. request \in [Requests -> RequestRecord]
  BY DEF NonceInv, TypeOK
<1>1. ASSUME NEW r \in Requests, NEW signed \in BOOLEAN, NEW genuine \in BOOLEAN,
             NEW s \in Spellings, Arrive(r, signed, genuine, s)
      PROVE  NonceInv'
  BY <1>0, <1>1, NoncesUntouched DEF Arrive, RequestRecord
<1>2. ASSUME NEW r \in Requests, NewNonce(r)
      PROVE  NonceInv'
  BY <1>0, <1>2, NoncesUntouched DEF NewNonce, RequestRecord
<1>3. ASSUME NEW r \in Requests, JoseVerify(r)
      PROVE  NonceInv'
  BY <1>0, <1>3, NoncesUntouched DEF JoseVerify, RequestRecord
<1>4. ASSUME NEW r \in Requests, UseNonce(r)
      PROVE  NonceInv'
  <2>. DEFINE v == ValueOf[request[r].verified]
  <2>1. request' \in [Requests -> RequestRecord]
    BY <1>0, <1>4 DEF UseNonce, RequestRecord
  <2>2. CASE UNCHANGED <<usedBuffer, accepted>>
    BY <2>1, <2>2, NoncesUntouched
  <2>3. CASE /\ request[r].verified # None /\ Acceptable(v)
             /\ usedBuffer' = Tail(Append(usedBuffer, v))
             /\ accepted' = Append(accepted, v)
    <3>1. v \in Values
      BY <2>3, <1>0 DEF RequestRecord, Values
    <3>. QED
      BY <2>1, <2>3, <3>1, NonceAccepted
  <2>. QED
    BY <1>4, <2>2, <2>3 DEF UseNonce
<1>5. CASE Restart
  <2>1. request' \in [Requests -> RequestRecord]
    BY <1>0, <1>5 DEF Restart, Idle, RequestRecord
  <2>2. accepted' = <<>> /\ Len(accepted') = 0
    BY <1>5 DEF Restart
  <2>3. usedBuffer' \in [1..BufferSize -> Values \cup {None}]
    BY <1>5 DEF Restart, InitialBuffer
  <2>4. TypeOK'
    BY <2>1, <2>2, <2>3 DEF TypeOK
  <2>. QED
    BY <2>2, <2>4 DEF NonceInv, BufferIsTail, NoReplayInWindow, DistinctWithin
<1>6. CASE UNCHANGED vars
  BY <1>0, <1>6, NoncesUntouched DEF vars
<1>. QED
  BY <1>1, <1>2, <1>3, <1>4, <1>5, <1>6 DEF Next, RequestStep

(* The buffer keeps its length for ever, whatever is pushed into it.         *)
THEOREM NonceTypes == Spec => []TypeOK
<1>1. NonceInv => TypeOK
  BY DEF NonceInv
<1>. QED
  BY <1>1, InitInv, NextInv, PTL DEF Spec

(* Whatever the size of the buffer, no nonce is accepted twice within it.    *)
THEOREM NoReplay == Spec => []NoReplayInWindow
<1>1. NonceInv => NoReplayInWindow
  BY DEF NonceInv
<1>. QED
  BY <1>1, InitInv, NextInv, PTL DEF Spec

=============================================================================
