# le-servo: a verification project

le-servo is a small ACME server (the protocol certificate authorities speak
with their clients) written in JavaScript for Node. This directory models it in
TLA+, checks the models with TLC and proves theorems about them with TLAPS. All
paths below are relative to the repository, whose code is under `src/`.

## The system

| Component | State | Operations |
| --- | --- | --- |
| Request filters (`src/filters`) | the request | a nonce for the answer, verification of the signature, use of the nonce |
| Nonce service | `usedBuffer`, a ring in memory | `getNonce`, `useNonce` |
| Jose service | the keystore, in memory | `verify`, `addKey` |
| Account service and handlers | `accounts` | register, update, deactivate |
| Order service and handlers (v2) | `orders` | create (with authorizations), read |
| Authorization service and handlers | `authorizations` | create (with challenges), update `status` and `csr`, read |
| Challenge service and handlers | `challenges` | create, answer, update, read |
| Verification workers (http-01, tls-sni-01) | none of their own | probe the peer, store the verdict |
| Certificate service and handlers (v1) | `certificates` | new, renew, poll, sign |
| Sign worker | none of its own | `CertificateService.sign` |
| Worker service | the worker farms | `start` |
| Storage (`internaldb`, `mongodb`) | the collections | `get`, `find`, `filter`, `create`, `update`, `remove` |
| Directory, assembly, helpers | none that changes | routing, answers |

A request runs through the three filters and then its handler, which is a chain
of promises: every call of a service is an `await`, and between two of them
anything else may run. Services keep nothing but what they put in a collection
of the storage engine. A handler that has long work to do starts a worker and
(but for certificates that are not deferred) does not wait for it; a worker
builds services of its own on the same storage and changes the same records.
With the internal database, workers run in the server's process; with MongoDB
they run in children of a worker farm, which queues the calls of a child that
dies again, and the records outlive a restart of the server.

What is hard, then: statuses checked on copies that are stale when the write
comes; several workers on one challenge; a verdict, a registration and an
update of an account made of several writes; records that outlive the process
when the calls on them (and the keystore and the nonces) do not; promises that
are rejected and not caught; keys known by a name their clients chose; processes
that die of a refused connection. `PROJECT.json` lists these hazards with their
lines, and the properties for each. A hazard without a property says why: most often
what can go wrong there is what the code does, a model has it, and a property could
only except it.

What makes each component correct:

- *validation*: an authorization becomes valid only after an answer with a key of its
  account's kid, which its own peer has proved, an accepted request with a reliable
  peer gets it there, every request is answered, what is too late is refused;
- *nonces*: none is accepted twice within the ring, and a fresh one is accepted;
- *accounts*: one for each key, its key known, and "deactivated" for good;
- *certificates*: signed only for a valid authorization and its domain, from a
  CSR of its account; an answer has what is on record; what was accepted is signed;
- *orders*: an authorization for each domain, each with two challenges, never
  seen in part; what a creation that was cut short has left can be followed up to
  its account, and what an answer has listed can be read;
- *storage*: no update is lost, what a call resolves with is not older than its own
  write, and a rejected call changes nothing.

## Modules

| Module | What it models |
| --- | --- |
| `ChallengeValidation` | the respond handler, `ChallengeService.update`, both verification workers |
| `AuthorizationPromise` | what validation promises, without requests and workers |
| `Nonces` | the three filters, the nonce service |
| `Accounts` | new-account, update-account, the account service, the keystore |
| `Issuance` | new-cert, renew, the two polls, the sign worker |
| `Certification` | what new-cert, renew and the polls promise together, without requests and workers |
| `Orders` | new-order, new-authz, the creation of their records, the handlers that read them |
| `Publication` | what new-order and new-authz promise: a whole tree of records, or nothing |
| `Storage` | one collection and its callers on either engine, MongoDB's calls in their parts |
| `Collection` | what a collection promises the services |
| `Lifecycle` | the v1 server from the answer to the certificate: `ChallengeValidation` and `Issuance` on one storage |
| `ChallengeValidationProofs`, `NoncesProofs`, `AccountsProofs`, `IssuanceProofs`, `OrdersProofs`, `PublicationProofs`, `StorageProofs`, `LifecycleProofs` | theorems |
| `MC...` | the instances TLC checks |

Each action is one turn of the event loop: what a handler or a worker does
between two calls of a collection. A request or worker is a record with its
control state `pc` and the copies it has read; collections are functions from
ids to records (only of the attributes that change). Ids, keys, contacts and
CSRs are model values; the id a request creates is the request itself. A
`history` variable (`answered`, `proved`, `late`, `accepted`, `before`) records what a
property needs to know of the past and is read by no action.

**ChallengeValidation.** `Arrive`, `ReadChallenge`, `ReadAuthorization`,
`ReadAccount`, `Accept`, `Launch` and (v1) `Proxy` are the steps of
`POST /authz/:authorization_id/:challenge_id`; `Refusal` and `BodyMatches` hold
the checks, in the code's order. `ServiceUpdate` is what an update lets through:
the attributes the service names and the collection declares. `Run`, `Probe`,
`Reread` (MongoDB), `Judge` and `Report` are a worker, whose call counts as being
served until it has reported. `ChildDeath`, `Restart` and `Deactivate` happen around
them. What a client sends is a member of `Posts`: a body, for a challenge, with a
key or none.

Keys are three things in the code, and three here. `Keys` are known by their
thumbprints, of which key authorizations are made (`KeyAuthorization`, line 65 of the
respond handler). `Kid` is what each is called: a key that comes in a `jwk` header is
called what its client calls it (`jose.service.js:65`). `KidOf` is the kid an account
has kept, and all that an answer is compared with (`get-all-related.js:66`):
`OwnersKeys` are the keys that pass, more than one when keys share a kid, and an
answer with any of them is stored over that of another. `answered` and `proved` are
therefore sets of keys for each challenge. No property claims that a key that answers
is the one the account was created with; each claims what the comparison of kids is
good for.

A worker fails in three ways. `FetchFails`: the peer of an http-01 challenge cannot be
reached, and `done` gets an error. `ConnectionError`: the peer of a tls-sni-01 challenge
refuses the connection, which is an event nobody listens to and ends the process: the
server on the internal database; on MongoDB the child of the farm, with its other
calls, which the farm makes again (`QueuedAgain`) as often as the peer refuses, for
it has no limit to its retries. `WorkerCallFails`: a call to MongoDB fails, whether or
not it was carried out. `RequestCallFails` is the same for a request, of which a failed
`get` is a 404. `MaxFaults` bounds the deaths of other causes, the restarts and the
failed calls together; refused connections have no bound. The account of an authorization (through its order in v2), its domain and
the type of a challenge never change and are constants. A peer's answer is a
member of `Served`; comparing the hash of a key authorization (tls-sni-01) is
comparing the key authorization. The version changes two things only: the v1
proxy reads the challenge again before it answers, and v2 has no such step. The
handler means to treat v2 apart (`challenge.order`) but challenges have no
order; `AcceptPayload` is what it does.

**AuthorizationPromise.** A challenge is answered, then its peer proves it, then
its authorization is valid, and valid it stays. Answers and proofs
are those of keys, and `MayAnswer` says which key may answer what. `ChallengeValidation`
implements it with the keys of the owner's kid (`PromiseKept`).

**Nonces.** `NewNonce`, `JoseVerify` and `UseNonce` are the filters. A signature
is genuine or not; `ValueOf` trims the blanks of a nonce, `WellFormed` is
`isValid`. The ring starts with numbers, which no string equals: `None` here.
`BufferSize` is `initializeBuffer`'s choice.

**Accounts.** `Verify` finds the key (a request by `kid` hangs when it is not in
the keystore), `Find`, `Create`, `Fill` and `AddKey` register an account, `Read`,
`Write` and `Status` update one. Whether the records outlive the process is
`Persistent`. A key is its kid here, as it is in `Issuance`: `find`, the keystore and
the handlers look at nothing else of it.

**Issuance.** `FindAccount`, `FindAuthorization`, `StoreCsr` lead new-cert, and
`ReadAuthorization` leads renew, to what they share: `Create` (a certificate and
its worker), `Finish` and `GetDer`. `ReadCertificate` and `GetDer` serve the
polls. `ReadCsr`, `Sign` and `Report` are the worker. A signed certificate is
known by the CSR it was made of. `Validate` and `Deactivate` stand for the rest
of the server. Whether certificates are `deferred` (`deferredCertGen`) is chosen once,
from `Modes`.

**Certification.** An account files a CSR with a valid authorization, a certificate
is ordered for that authorization, drafted from what is filed there, issued and told
to whoever asks. `Issuance` implements it (`CertificationKept`): `sent` is what came
signed, `filed` the CSR in the authorization, `orderedFor` the authorization of a
certificate, `draft` the CSR a worker has read and not signed yet, `pem` what is on
record, `told` an answer with its certificate, `repeated` that a child has died. What
it says beyond the invariants: a certificate is made of what was filed when the work
on it began, is not made again once its owner was told, and whoever ordered it is
told of that one, when no work on it is left.

**Lifecycle.** Both components work on the same accounts and authorizations. A record
of `records` has the two attributes that change: `status`, which the verification
workers write, and `csr`, which new-cert writes and the sign worker reads;
`authorizations` is what validation sees of it. `Verify` is a step of
`ChallengeValidation` that writes the status it changes and keeps the CSR, as
`AuthorizationService.update` does; `Certify` is a step of `Issuance` on the records
themselves. `RestartServer` and `DeactivateAccount` are steps of both at once; the
farms, and the deaths in them, are separate, since each worker has its own. What signs
a CSR is known by its kid, what answers a challenge by its thumbprint and its kid, so
that `CertificateProved` relates the two by the kid. `Validate`,
in which `Issuance` alone summarises validation, is no action here: the verification
workers are there instead.

**Orders.** A creation is a tree of promises. The request is the root: after
`FindAccount`, v2 goes through `CreateOrder`, `FillOrder` and v1 straight to its one
authorization. Each authorization and each challenge is a `job`, the promise of its
creation: `CreateAuthorization`, `UpdateAuthorization` (which starts the two
challenges), `CreateChallenge`, `UpdateChallenge`. `Join` is `Promise.all`: it
answers 500 as soon as one job has failed, while the others go on, or goes on to
`List` when all are done. `ArriveGet` and the `Get...` actions are the reads: a
challenge leads to its authorization, that to its order (v2) or account (v1), that
to the status of the account; `GetAgain` is the v1 proxy's second read. A record is
`none`, `bare` (default values, as `create` leaves it) or `filled` (after `update`).
A CSR is the set of its common and of its alternative names; `Domains` is what
`parseCsr` makes of them, against the reference `Asked`. `RequestCallFails`,
`AuthorizationCallFails` and `ChallengeCallFails` are a lost connection to MongoDB,
with or without the effect of the call; `Restart` loses the promises, and on the
internal database the records. Version and engine are `server`, chosen once.

**Publication.** The tree of records that a creation is asked for comes into being in
one step or not at all, and who reads a part of it reads what was asked for. `Orders`
implements it (`CreationIsAtomic`): `due` is the tree a request has asked for
(`DueTree`), `tree` what is stored under the record its promises have resolved to
(`StoredTree`), `told` what was answered. The dozen writes of a creation, the failed
and the repeated calls are all between two states of `Publication`.

**Storage.** `Invoke` starts a call. `Find`, `Filter`, `Get` and `Create` are one
step on either engine; `InternalUpdate`, `InternalRemove` are one step too, and
`MongoFind`, `MongoSet`, `MongoReread`, `MongoDelete` are the parts of MongoDB's
update and remove. `effective` and `since` are history: whose call has changed a
record, and what was under the id of a call from then on.

**Collection.** What the services may rely on: insert, write the attributes named,
delete, each at once and at most once for each caller. `Storage` implements it with
the attributes of a payload that the collection declares (`CollectionKept`).


## Runs

| Run | Instance | Shows |
| --- | --- | --- |
| `ValidationInternal` | v2, internal database, two accounts, three keys, two of one kid, every key with right and wrong bodies, unreliable peers of both types | `AuthorizationEarned`, `NoLateVerification` |
| `ValidationCrashes` | v1, MongoDB, an authorization with both challenges, two keys of one kid, one fault (a death, a restart or a failed call), a tls peer that refuses as often as it likes | `ValidChallengeSettles`, `PromiseKept`, `AnsweredEventually`, `VerificationEnds`, `AcceptedIsAuthorized` |
| `ValidationProcessing` | v1 | *violation*: `processing` is never stored |
| `Nonces` | requests with spellings of two nonces, a ring of two, restarts | `TypeOK`, `NoReplayInWindow`, `FreshIsHandled` |
| `NoncesConfigured` | a size given as a string | *violation*: the window is not the configured one |
| `Accounts` | three requests, two keys, one restart on MongoDB | `TypeOK`, `OneAccountPerKey`, `KnownKeyIsVerified`, `StaysDeactivated`, `DeactivatedIsFrozen` |
| `Issuance` | deferred or not, two requests, two accounts, two CSRs for one domain, one with two domains, one malformed, one death, one restart | `CertificateEarned`, `OwnCsrUnlessRival`, `HandedOutIsRecorded`, `SyncAnswerSigned`, `NeverForgotten`, `CertificationKept`, `AnsweredEventually`, `AcceptedIsSigned` |
| `Lifecycle` | v1, MongoDB, two answers to one challenge with keys of one kid, one request for a certificate, one fault of validation, one death of a child that signs, one restart | `CertificateProved`, `ValidationKept`, `IssuanceKept` |
| `Orders` | both versions, both engines, one creation and two reads, one failing call, one restart | `TypeOK`, `AnswersAreWhole`, `ParentsFirst`, `ListedIsReadable`, `LateIsRefused`, `NeverStuck`, `ShownIsKept` |
| `OrdersEnd` | the same with one read | `CreationIsAtomic`, `AnsweredEventually`, `AcceptedIsCreated` |
| `OrdersListing` | the same | *violation*: an account's orders are never listed |
| `Storage` | both engines, four callers, two ids, payloads that overlap, are disjoint or have nothing declared | `TypeOK`, `ResultIsCurrent`, `OutcomeTellsEffect`, `CollectionKept` |

Bounds. `MaxDeaths`, `MaxRestarts` and `MaxFaults` bound what would happen for ever; one
suffices for every state a call can be in when it is lost, repeated or fails, as
each is possible at any point. In `ValidationCrashes` the one fault comes with any
number of refused connections, so that a verification is made again more than once and
by itself for ever. Two keys of one kid are there where one could be taken for the
other, and in `ValidationInternal` a third with another kid. Requests are two or three: the races are between
two actors on one record, and the third request, where there is one, comes after, and
finds what they left (of validation, `Issuance` and `Lifecycle` that is only in the
proofs, which hold for any number). Two accounts are there where one could be taken for the
other; two CSRs (or contacts) where one could overwrite the other. Symmetry
(of requests, callers and ids) is used where a run checks no liveness. In `Orders`
one request creates: the records of two creations have different ids, no step of one
reads or writes a record of the other but `Children`, which goes by the parent's id,
and so what interleaves is the creation with itself and with reads of what it has
answered. Its CSRs have two domains, one and none, one of them in two cases, and one
does not parse; `MaxFailures` is one, since the first failure decides the answer and
what it leaves is the same whatever fails later. In `Lifecycle` the peer serves the answer of
one of the two keys: one request validates the authorization and the other writes over
what came of it, while a CSR is on its way;
requests for certificates that meet each other are in `Issuance`. In `Storage` four
callers are a create, two operations that race and one that looks at what they left.

The type invariants of `ChallengeValidation` and `Issuance` are in no run: they are
theorems (`TypeCorrect`), and a record that lost an attribute would show in
`Lifecycle`.

Fairness. `FairSpec` is weak fairness of the steps of each request and of each
worker: Node runs every continuation that is ready, and a farm restarts its
children. In `Orders` the jobs of one creation share one condition (`JobStep`): they
are finitely many steps, so none of them is passed over for ever. It has two assumptions the code does not enforce, for nothing sets a
timeout: a probed peer answers or refuses sooner or later, and MongoDB does.
Nothing external (arrivals, deactivations, deaths, restarts) is fair.

Where a property has an exception, the exception is what the code does:

- `ValidChallengeSettles`, `AcceptedIsAuthorized`: a restart or a failed call parts
  the two writes of a worker, and the challenge, valid by then, is refused with 412
  when it is answered again. A call that is made again counts as settling, even when
  its peer is out of reach by then (`Settles`).
- `AcceptedIsAuthorized`: an answer with another key of the same kid is stored over
  the one that was accepted, and the verdict on it is another one; and what is said of
  `VerificationEnds`.
- `VerificationEnds`: a child that serves the call may die again and again of a
  tls-sni-01 peer that refuses the connection, its own or that of another call, and the
  farm makes the call again for ever (`KilledForever`). It is the only way in which a
  verification does not end, and no count of deaths stands in for it.
- `AnsweredEventually` in `ChallengeValidation`: a refused tls connection ends
  the server when workers run in it. `VerificationEnds` has the same exception.
- `OneAccountPerKey`: two overlapping registrations of one key make two accounts.
- `KnownKeyIsVerified`: after a restart on MongoDB the keys of the accounts are
  gone, and registering again does not bring them back. Nor does it count a
  registration that found the account while its creator had not added the key.
- `OwnCsrUnlessRival`: two overlapping new-cert requests for one authorization
  may both be signed for the key of one.
- `HandedOutIsRecorded`: a call the farm repeats signs again, and a client that
  polled in between has the older certificate.
- `AcceptedIsSigned`, `NeverForgotten`: nothing takes up a pending certificate after a restart.
- `CertificateProved`, `AuthorizationEarned`, `PromiseKept`: the key that answered and
  the key of the account, or of who sent the CSR, have one kid and may be two.
- `ListedIsReadable`: a lost connection is answered 404 for a record that exists,
  because any rejection of a `get` is; the request whose own call failed is left out.
- `AnswersAreWhole`, `ListedIsReadable`, `ShownIsKept`: a restart on the internal
  database loses the records, and then only what the answers said remains.
- `AnswersAreWhole` compares names in lower case: a domain that is an alternative
  name in mixed case and a common name has two authorizations.
- `OutcomeTellsEffect`, `CollectionKept`: an update of an id without a record is
  rejected by the internal database and leaves a record of its payload alone
  (`Stray`); no service updates such an id.
- `OutcomeTellsEffect`: an update that resolves may have found its record removed.

Findings. Three statements of the repository do not hold of the code: that v1
tracks a verification by the attribute `processing` (`ValidationProcessing`; the
service's update drops the attribute) and that the nonce buffer has the size the
server prints (`NoncesConfigured`; a size from the environment is a string,
which counts as none), and that an account's `orders` URL lists its orders
(`OrdersListing`; the route names its parameter `accound_id`, the handler reads
`account_id`, and the answer is always 404).

## Proofs

`ChallengeValidationProofs` proves, for any sets of accounts, authorizations,
challenges and requests, both engines, both versions and any bounds:
`TypeCorrect`, `EarnedAlways`, `LateNeverVerified`, `ValidSettles`
(`Spec => []` of the invariant each is named for) and `Refinement`
(`Spec => PromiseKept`). They need only the assumptions
`RecordsAssumption` and `RunAssumption` that the module states of its constants.

None of the invariants is inductive alone. `IInv` adds what carries them:

- `StoredIsOwn`: a challenge is answered with keys of its owner's kid only, and
  whatever is stored to be looked for is one of its answers. It holds since a request
  that writes has passed the comparison of kids (`RequestsChecked`), and neither the kid
  of an account nor that of a key ever changes: the one check whose result cannot be
  stale. Which of the keys it is, nothing says: they write over each other.
- `WorkersLookForOwn`: a worker's challenge has been answered and the worker
  looks for one of the answers, be it the present one or one that was written over.
- `ValidIsProved`: a challenge that is valid, and a copy that says so, has an answer
  that the peer served, and nothing is proved but answers; so the key is one of the
  owner's kid. A worker that makes an authorization valid has
  a proved challenge, and `AuthorizationEarned` follows. It needs that a key
  authorization tells its key: no two keys have one thumbprint, whatever they are called.
- `LateIsRefused`: what made a request late lasts (a valid authorization and a
  deactivated account stay so), so whichever step reads it, the request ends
  before it could launch a worker.

The refinement uses the same invariant: `Accept` is the promise's answer (or a
stutter), `Probe` its proof, `Judge` its authorization, and every other action, among
them all that die, fail and are made again, a stutter. That calls are made again, each
from its beginning, keeps the invariant is proved once for a child that dies of itself
and for one that a refused connection kills (`QueuedAgainKeeps`).

`NoncesProofs` proves `NonceTypes` and `NoReplay` for a ring of any size. The
invariant is `BufferIsTail`: the right end of the ring is the tail of what was
accepted. A nonce that is not in the ring is then not among the last
`BufferSize` accepted, and pushing it keeps the alignment (lemma `Shift`, about
`Tail(Append(b, v))`).

`AccountsProofs` proves, for any requests, keys and inputs, whether the records
outlive the process or not, from `AccountsAssumption` alone: `TypeCorrect`,
`OneAccount`, `KnownKey` (`Spec => []` of the invariant), `Deactivation` and
`Frozen` (the action properties). Its `IInv` relates the account of a request to
how far the request is (`Stages`), and what the request has seen to the requests
that were over when it arrived (`BeforeIsOver`), which no step changes any more:

- `NoEarlierAccount`: whoever is past `Find` without an account, or has one, knows
  that none of those has the key; a key, once written, stays. `OneAccountPerKey`
  follows, and what it leaves open is just the overlap.
- `Keyed`: the creator of an account is over only when its key is in the
  keystore, so a request that hangs before a restart came before that.
- `AnsweredIsDone` and `WritesAreFresh`: an answered deactivation has been done,
  so an update that it preceded is refused when it reads the account.

The steps fall into four kinds (lemmas `OnlyRequestMoves`, `UpdateMoves`,
`CreationMoves`, and those of arrival and restart), each proved once.

`IssuanceProofs` proves, for any accounts, authorizations, CSRs and requests,
deferred or not and any number of deaths and restarts, from `IssuanceAssumption`:
`TypeCorrect`, `CertificatesAreEarned`, `SyncAnswersAreSigned`, `OwnCsrIsSigned` and
`HandedOutStays`. Its `IInv` follows a CSR on its way:

- `Holds`: the CSR an authorization has was sent by its account for its domain, and
  the authorization is valid. `Stage` says the same of the CSR a request is about to
  store, `Certified` of the one a worker has read and of the one a certificate was
  made of. What was checked stays true: authorizations stay valid, and what a
  request has sent does not change (`Grows`).
- `Own`: without a rival, the CSR in the authorization, in the worker and in the
  certificate of a request is its own. A request that stores another CSR becomes a
  rival of each that is not over, and one that is over does not step any more
  (`BeforeIsOver`).
- `Told`: an answer is about a valid certificate, which only a repeated call signs
  again, and a call is repeated only before its worker is `done`.

`NobodyIsForgotten` (`Spec => []NeverForgotten`) is the safety core of the run's two
liveness properties: whoever waits for a worker, or was sent to poll, has one
(`Awaits`). A worker that was started is gone only with a restart (`WorkersStay`), and
who waits over a restart is lost with it.

`Certifies` (`Spec => CertificationKept`) takes each action to its abstract step: an
arrival of new-cert is `Send`, `Validate` is `Authorize`, `StoreCsr` is `File`, `Create`
is `Order`, `ReadCsr` is `Draft`, `Sign` is `Issue`, `GetDer` is `Tell`, `ChildDeath` and
`Restart` are `Lose`, the others stutter. It rests on the same `IInv`: `Holds` gives
`File` the message it needs, `Told` gives `Draft` and `Tell` their conditions.

`LifecycleProofs` proves, for any accounts, authorizations, challenges and requests of
both kinds, on both engines and for any number of deaths and restarts, from the
assumptions of `ChallengeValidation` and `LifecycleAssumption`:

- `ValidationGoesOn` (`LifeSpec => ValidationKept`) and `IssuanceGoesOn`
  (`LifeSpec => IssuanceKept`): on the shared records each component is what it is
  alone. `Shared` says that both see the same statuses; then `Certify` changes nothing
  that validation sees (`CertifyKeepsStatuses`), and `Verify` is either nothing to
  issuance or its `Validate`, since a worker only ever makes a pending authorization
  valid (`RespondWrites`, `VerifyStep`). So each safety theorem about a component
  alone holds of the two together.
- `CertificatesAreProved` (`LifeSpec => []CertificateProved`), which neither component
  can state: the peer behind the domain of a certificate has served the key
  authorization made with a key that answered for it and has the kid with which its CSR
  was sent. `Followed` takes the
  CSR from the request that `Asks` over the authorization where it is `Filed` to the
  certificate a worker `Makes`, and wherever it is, it was `Sent` for that authorization
  by its account. A CSR is filed only with a valid authorization; `Shared` makes it valid
  for validation, and `EarnedAlways` gives the proof of its peer.

The prover cites no theorem of an instantiated module, so `Followed` says again, of the
instance in `Lifecycle`, the part of `IssuanceProofs` that is needed.

`StorageProofs` proves, for any callers, ids, attributes and payloads, on either
engine, from `StorageAssumption`: `TypeCorrect`, `ResultsAreCurrent`, `OutcomesTell`
and `Refinement` (`Spec => CollectionKept`). `Stage` says what a call holds at each
of its parts and that it is not `effective` before its write; `Told` what its end
says of `since` and `effective`. In the refinement the one step of a call that
writes is the collection's step, at most once for each caller since its `pc` has
moved past it, and `Merged` of the declared attributes is `Collection`'s `Merged`.

`OrdersProofs` proves, for any accounts, names, CSRs and requests, in both versions,
on both engines and for any number of failures and restarts, from
`OrdersAssumption`: `TypeCorrect`, `WholeAnswers`, `Upwards`, `Readable`,
`LateRefused` (`Spec => []` of the invariant) and `ShownKept` (the action property).
The run has one creation; the theorems hold for creations that overlap. None of the
invariants says what a job or a request between two calls may rely on, so `IInv` does:

- `Authorizing` and `Challenging`: how far a job is determines what its record holds,
  and a job has started only if its parent has written its attributes. `Upwards`
  follows.
- `Creates`: the same of a request and its order; the request goes on to `List` only
  when what it made is `Finished`: every authorization `Whole`, every challenge done.
- `Reads` and `Told`: what a reader asks for and what an answer tells is `Finished`,
  and the body of an answer is `Kids`, what belongs to an id by what was asked for
  and not by what is stored. `ChildrenAreKids` shows that the filters of the code
  return just these as long as nothing is lost.
- `Loss`: either the internal database was lost with all promises, and no account is
  left with which anything could be created again, or nothing was lost.

Every step `Grows`: what a request was asked for, what a joined creation waits for
and a job that is done stay, and a deactivated account stays deactivated. So what is
`Finished` stays so (`FinishedGrows`), and what a step does not touch keeps its
part of the invariant (`AuthorizingKept` and the like). The steps fall into those of
a request (`Moves`, `MovesInv`), those of a job (`Works`, `WorksInv`), the
deactivation and the restart.

`NobodyIsStuck` (`Spec => []NeverStuck`) is the safety core of `AnsweredEventually` and
`AcceptedIsCreated`: a request that waits in `Promise.all` has a failure to pass on, all
it waits for, or a call that is still to be answered. `WInv` carries it: a request that
joins has started everything it waits for (`Waits`), an authorization that waits has
started its two challenges (`Parted`), and a job that has started stays so
(`StartedKept`) until it is done or has failed.

`PublicationProofs` proves `Atomicity` (`Spec => CreationIsAtomic`) on top of it. `PInv`
adds `Resolved` (what a request is answered with, and what it lists, is what its
promises resolved to) and `Visits` (a reader holds an id that has been made). Every
turn is one of five (`NextTurn`): no request changes what the clients see (`Still`), a
request is asked for a tree (`Accepts`), the last promise of a creation resolves
(`Joins`), a reader asks (`Asks`), a client is answered (`IsTold`). `Accepts`, `Joins`
and `IsTold` are the steps `Accept`, `Publish` and `Answer`, the restart of the internal
database is `Lose`, and the rest stutters since a tree, once made, is kept
(`TreesKept`).

Only model-checked: the liveness properties, which are beyond the prover, as is
`ENABLED`. Where what can go wrong is that nobody is left to take the next step, that
much is proved (`NobodyIsStuck`, `NobodyIsForgotten`); that the step is taken is the
fairness assumed.

## Not modelled

- The assembly of the servers, routing, headers, logging and the layout of answers:
  configuration without state. The codes of the answers and the order of the filters
  are in the models.
- The ASN.1 and cryptography of node-forge and the decoding of a JWS: a CSR is the
  names it has (or malformed), a signature is genuine or not, a certificate is the
  CSR it was made of.
- In `Issuance` and `Accounts`, calls to the database that fail (they are in
  `ChallengeValidation` and `Orders`), and so what of the sign worker's calls fails.
- Two keys of one kid, but for the answers to challenges: everything else goes by the
  kid alone.
- The expiry of an authorization, which the server stores and nothing reads.
- `clear` of the storage, which only the tests call, and `OrderService.update`,
  which nothing calls. `remove` is modelled in `Storage`; no service uses it.

`PROJECT.json` has the status of every component.

## Plan

`Lifecycle` begins where an authorization is there, with its challenges. What is left is
to compose it with `Orders`, so that an authorization, from the request that asks for
it to the certificate, is one life; today the two meet at the records: what
`Orders` leaves filled is what `Lifecycle` starts from. Then the abstract
specification of that life, with `AuthorizationPromise`, `Publication` and
`Certification` as its parts. v2 has orders and answers to challenges but no
certificates yet (`README.md` of the repository lists the order processor as to do).
