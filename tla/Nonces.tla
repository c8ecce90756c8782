------------------------------- MODULE Nonces -------------------------------
(* The filters every request goes through before its handler (new-nonce,     *)
(* jose-verify, use-nonce) and the nonce service behind them: a ring of the  *)
(* nonces used last, in the memory of the process.                           *)
(*                                                                           *)
(* A filter that is refused its request by the service it calls never calls  *)
(* the next one and answers nothing: the request hangs. A nonce need not     *)
(* have been issued by the server to be used, so what new-nonce hands out is *)
(* not kept.                                                                 *)
EXTENDS Naturals, Sequences

CONSTANTS
  Requests,
  Spellings,       \* the nonce headers clients send
  ValueOf,         \* a spelling with the blanks around it trimmed
  WellFormed,      \* the values made of letters, digits, - and _ only
  Configured,      \* the buffer size the service was given
  DefaultSize,     \* DEFAULT_USED_BUFFER_SIZE
  None

ASSUME NonceAssumption ==
  /\ DOMAIN ValueOf = Spellings
  /\ WellFormed \subseteq {ValueOf[s] : s \in Spellings}
  /\ None \notin Spellings \cup {ValueOf[s] : s \in Spellings}

ASSUME SizeAssumption ==
  /\ Configured \in [size : Nat, isNumber : BOOLEAN]
  /\ DefaultSize \in Nat \ {0}

VARIABLES
  usedBuffer,  \* the nonces used last, oldest first
  request,     \* where each request is
  accepted     \* history: the nonces accepted since the process started

vars == <<usedBuffer, request, accepted>>

Values == {ValueOf[s] : s \in Spellings}

(* initializeBuffer: what is not a positive number counts as not given, and  *)
(* that is so of a size that comes from the environment, which is a string.  *)
BufferSize ==
  IF Configured.isNumber /\ Configured.size > 0 THEN Configured.size ELSE DefaultSize

(* The buffer starts full of numbers, which no nonce equals.                 *)
InitialBuffer == [i \in 1..BufferSize |-> None]

Idle == [pc |-> "idle", signed |-> FALSE, genuine |-> FALSE, nonce |-> None, verified |-> None]

-----------------------------------------------------------------------------
(* A request arrives: plain, or signed with a nonce in its header. A         *)
(* signature is genuine if it verifies under a key the server can get.       *)
Arrive(r, signed, genuine, s) ==
  /\ request[r].pc = "idle"
  /\ request' = [request EXCEPT ![r] =
       [pc |-> "newNonce", signed |-> signed, genuine |-> genuine,
        nonce |-> IF signed THEN s ELSE None, verified |-> None]]
  /\ UNCHANGED <<usedBuffer, accepted>>

(* new-nonce: a random nonce goes into the headers of the answer.            *)
NewNonce(r) ==
  /\ request[r].pc = "newNonce"
  /\ request' = [request EXCEPT ![r].pc = "joseVerify"]
  /\ UNCHANGED <<usedBuffer, accepted>>

(* jose-verify: a plain request goes on as it is, a signed one with the      *)
(* nonce of its header; what does not verify goes nowhere.                   *)
JoseVerify(r) ==
  /\ request[r].pc = "joseVerify"
  /\ \/ /\ ~request[r].signed
        /\ request' = [request EXCEPT ![r].pc = "useNonce"]
     \/ /\ request[r].signed /\ request[r].genuine
        /\ request' = [request EXCEPT ![r].pc = "useNonce", ![r].verified = request[r].nonce]
     \/ /\ request[r].signed /\ ~request[r].genuine
        /\ request' = [request EXCEPT ![r].pc = "hanging"]
  /\ UNCHANGED <<usedBuffer, accepted>>

(* useNonce accepts a value that is well-formed and not in the buffer.       *)
Acceptable(v) == v \in WellFormed /\ \A i \in DOMAIN usedBuffer : usedBuffer[i] # v

(* Mutant of UseNonce: the buffer is not shifted.                            *)
GrowingUseNonce(r) ==
  LET v == ValueOf[request[r].verified] IN
  /\ request[r].pc = "useNonce"
  /\ IF request[r].verified # None /\ Acceptable(v)
     THEN usedBuffer' = Append(usedBuffer, v) /\ accepted' = Append(accepted, v)
     ELSE UNCHANGED <<usedBuffer, accepted>>
  /\ request' = [request EXCEPT ![r].pc = "handled"]

(* Mutant of UseNonce: a nonce is looked for and kept as it was written.     *)
UntrimmedUseNonce(r) ==
  LET s == request[r].verified IN
  /\ request[r].pc = "useNonce"
  /\ IF /\ s # None /\ ValueOf[s] \in WellFormed
        /\ \A i \in DOMAIN usedBuffer : usedBuffer[i] # s
     THEN usedBuffer' = Tail(Append(usedBuffer, s)) /\ accepted' = Append(accepted, ValueOf[s])
     ELSE UNCHANGED <<usedBuffer, accepted>>
  /\ request' = [request EXCEPT ![r].pc = "handled"]

(* Mutant of UseNonce: a request without a nonce is taken for one with an    *)
(* empty nonce, which is refused.                                            *)
PlainRefusedUseNonce(r) ==
  /\ request[r].pc = "useNonce"
  /\ request[r].verified = None
  /\ request' = [request EXCEPT ![r].pc = "hanging"]
  /\ UNCHANGED <<usedBuffer, accepted>>

(* use-nonce: the accepted nonce is pushed and the oldest shifted out, in    *)
(* the same turn of the event loop as the test.                              *)
UseNonce(r) ==
  LET v == ValueOf[request[r].verified] IN
  /\ request[r].pc = "useNonce"
  /\ \/ /\ request[r].verified = None
        /\ request' = [request EXCEPT ![r].pc = "handled"]
        /\ UNCHANGED <<usedBuffer, accepted>>
     \/ /\ request[r].verified # None /\ Acceptable(v)
        /\ usedBuffer' = Tail(Append(usedBuffer, v))
        /\ accepted' = Append(accepted, v)
        /\ request' = [request EXCEPT ![r].pc = "handled"]
     \/ /\ request[r].verified # None /\ ~Acceptable(v)
        /\ request' = [request EXCEPT ![r].pc = "hanging"]
        /\ UNCHANGED <<usedBuffer, accepted>>

(* The process restarts with a new buffer; the requests it had are lost.     *)
Restart ==
  /\ usedBuffer' = InitialBuffer
  /\ accepted' = <<>>
  /\ request' = [r \in Requests |->
       IF request[r].pc = "idle" THEN request[r] ELSE [Idle EXCEPT !.pc = "lost"]]

-----------------------------------------------------------------------------
Init ==
  /\ usedBuffer = InitialBuffer
  /\ request = [r \in Requests |-> Idle]
  /\ accepted = <<>>

RequestStep(r) == NewNonce(r) \/ JoseVerify(r) \/ UseNonce(r)

Next ==
  \/ \E r \in Requests, signed, genuine \in BOOLEAN, s \in Spellings :
       Arrive(r, signed, genuine, s)
  \/ \E r \in Requests : RequestStep(r)
  \/ Restart

Spec == Init /\ [][Next]_vars

(* The event loop runs every continuation that is ready.                     *)
FairSpec == Spec /\ \A r \in Requests : WF_vars(RequestStep(r))

-----------------------------------------------------------------------------
RequestRecord ==
  [pc : {"idle", "newNonce", "joseVerify", "useNonce", "handled", "hanging", "lost"},
   signed : BOOLEAN, genuine : BOOLEAN,
   nonce : Spellings \cup {None}, verified : Spellings \cup {None}]

(* The buffer never grows or shrinks, and holds nothing but nonces.          *)
TypeOK ==
  /\ usedBuffer \in [1..BufferSize -> Values \cup {None}]
  /\ request \in [Requests -> RequestRecord]
  /\ accepted \in Seq(Values)

(* Any n consecutive nonces the process accepts, and the one after them, are *)
(* different from one another.                                               *)
DistinctWithin(n) ==
  \A i, j \in 1..Len(accepted) : i < j /\ j - i <= n => accepted[i] # accepted[j]

(* No nonce is used twice while fewer than BufferSize others came between,   *)
(* however its blanks are written.                                           *)
NoReplayInWindow == DistinctWithin(BufferSize)

(* The same with the size that was configured, which the server logs when it *)
(* starts as the size of its nonce buffer (index.js, v1/index.js).           *)
NoReplayInConfiguredWindow == DistinctWithin(Configured.size)

(* A genuine request with a well-formed nonce that no other signed request   *)
(* carries reaches its handler, and so does every plain one: no rejected     *)
(* request and no position of the ring stands in its way.                    *)
Fresh(r) ==
  \/ ~request[r].signed
  \/ /\ request[r].genuine
     /\ ValueOf[request[r].nonce] \in WellFormed

Rival(r) ==
  \E q \in Requests \ {r} :
    /\ request[q].signed
    /\ request[r].signed
    /\ ValueOf[request[q].nonce] = ValueOf[request[r].nonce]

FreshIsHandled ==
  \A r \in Requests :
    (request[r].pc = "newNonce" /\ Fresh(r)) ~>
      (request[r].pc \in {"handled", "lost"} \/ Rival(r))

-----------------------------------------------------------------------------
(* What makes NoReplayInWindow inductive: the buffer is the tail of what was *)
(* accepted, aligned on the right.                                           *)
BufferIsTail ==
  \A i \in 1..Len(accepted) :
    Len(accepted) - i < BufferSize =>
      usedBuffer[BufferSize + i - Len(accepted)] = accepted[i]

NonceInv == TypeOK /\ BufferIsTail /\ NoReplayInWindow
=============================================================================
