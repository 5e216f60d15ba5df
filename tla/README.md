# A verification project for the VPP JSON gateway

TLA+ specifications of the gateway in `src/`, the TLC runs that check them on
small instances, and proofs, checked by TLAPS, for every instance. Paths below
are relative to the repository (`src/main.cc` is the gateway's main file).

## 1. The system

A client writes JSON requests to a Redis stream. The gateway journals each one
in SQLite, runs it against VPP's binary API, keeps the response in a spool file
and hands it to the client, frame by frame, through a second Redis stream.

| part | state it keeps | operations |
|---|---|---|
| `ApiServer` (`src/main.cc`) | loop position, `active_*_`, `last_cleanup_`, the worker's future | `Recover`, then a loop: `CompleteWorker`, `Cleanup`, `Register`, `Receive`, `Deliver`, `StartJob` |
| journal (`src/store.cc`) | tables `sessions` and `jobs` | one statement at a time, WAL with full synchronisation |
| spool (`src/common.cc`, `Spool`) | one file for each job | `Add`, `Finish`, `Single`; fragments of long records |
| Redis transport (`src/redis_transport.cc`) | connection | `Connect`, `Command`, `Publish` (window check and XADD in one script) |
| worker (`src/main.cc`, `Worker`; `src/backend.cc`) | one task slot, one thread | `Submit`, timed wait, `Poll`, run, shutdown |
| VAPI backend (`src/vapi_backend.cc`) | VAPI context, `names_` | `List`, `SetState`, `Generic` with paging and name resolution, `Dispatch`, `Reset` |
| generated bindings (`tools/schema_generator.cc`) | `GeneratedCall` of the call under way | callbacks and senders for each supported layout |
| schema codec (`src/schema.cc`) | the catalog, never changed | JSON to native payload and back, `Describe` |
| uploads (`src/transfer.cc`) | a data file and a manifest for each transfer | `begin`, `chunk`, `commit`, `status`, `Resolve`, `Expire` |
| registration (`src/main.cc`) | lock of the state directory, owner key, bootstrap streams | `RunMain`, `OwnNamespace`, `Register` |
| clients (`tools/client.cc`, `example/client.cc`) | session file, `expected`, `ResponseAssembler` | register, send, replay, `Wait` or `Receive` |

How they meet. The main thread is strictly sequential and is the only writer of
the journal. The worker thread is the only one that talks to VPP; the two share
one task slot, a future and the spool file of the job under way. The gateway
and its clients share only Redis streams. The journal, the spool, the uploads,
Redis and VPP outlive the process; everything else does not.

What is hard. A kill between any two durable effects. A Redis command that is
carried out and whose reply is lost. An entry that is therefore read twice. A
VPP message that takes effect after the deadline or after a restart. A session
that expires while its job is with the worker. A full response window. A replay
in the middle of a delivery. An upload interrupted between its two files. Spool
and upload quotas. Several gateways on one namespace, and clients that repeat a
registration. VAPI callbacks that point into the stack of an operation that may
end before VPP answers, and interface names that change under it. Lengths and
counts inside native messages. `PROJECT.json` lists these hazards line by line, with the
properties that would catch each one.

## 2. Modules

| module | models |
|---|---|
| `Gateway`, `MCGateway` | the request path: main thread, journal, spool, streams, worker, VPP |
| `GatewayProofs` | at-most-once and what it rests on |
| `DeliveryProofs` | extends it: delivery, order, entries, stable outcomes; then files against journal, orderly stops, budgets |
| `RefinementProofs` | extends that: `Gateway` implements `RequestLedger`, and what follows |
| `TransferProofs`, `ResponseProofs`, `RegistrationProofs`, `BackendProofs` | the proofs about the four other components |
| `ScalarsProofs` | the two directions of the codec agree, as far as it does not recurse |
| `RequestLedger` | what the request path promises, with nothing of how |
| `GatewayRefinement` | the mapping under which `Gateway` implements it |
| `Transfer`, `MCTransfer` | uploads |
| `Response`, `MCResponse` | one response from the backend to a client's screen |
| `Registration`, `MCRegistration` | who serves the namespace, and how clients get sessions |
| `Backend`, `MCBackend` | the worker thread and the VAPI backend, callback by callback |
| `Scalars` | the codec's leaves: integers, booleans, strings, addresses, interfaces, text, and the length of a reply |
| `Codec`, `MCCodec` | extends it: conversion of whole messages, and the generated callbacks |

`Gateway` takes the backend as a step that sends and a step that answers;
`Backend` is the inside of those steps, and `HonestOutcome` is what `Gateway`
relies on. `Gateway` takes `Register` as a new row; `Registration` is its
inside. `Response` is the inside of a spool file, of which `Gateway` knows only
its outcome and length. The modules are not composed formally except for the
refinement.

### Gateway

`pc` is where the main thread stands. Each statement, command or file operation
whose effect another part of the model can see after a kill is one step, and
`Crash` may come between any two. Three commands are joined in `Receive`: XRANGE
changes nothing and EXPIRE only moves the time to live of a stream, so the one
durable statement of the step is the INSERT or UPDATE of the journal.

| code | actions |
|---|---|
| `Recover` | `RecoverWrites` (spool), `RecoverMarks` (`MarkDone`), `RecoverEnds`; `RecoverDies`: `Spool` has opened the file with `O_TRUNC` and the process ends before it writes |
| `CompleteWorker` | `CompleteWorker` |
| `Connect`, `OwnNamespace` | `Connect`, `Reconnect`, `ConnectFails` |
| `Cleanup` | `Cleanup`, `Unlink`, `DropStreams`, `Forget` |
| `Register` | `Register` (its effect on the session table) |
| `ReadFirst` and `Receive` | `Receive` with `Read` and `Verdict`, then `PublishReply`, `Remove` |
| `Deliver` | `Deliver` (publish), `StoreOffset` (journal) |
| `StartJob` | `StartJob`, then `LaunchLocal`, `MarkLocal` or `Submit` |
| end of `Run` | `Stop`, `StopEnds` |
| worker, backend | `WorkerRefuses`, `WorkerDescribes`, `WorkerSends`, `WorkerAnswers`, `WorkerGivesUp`, `WorkerFails` |
| outside | `VppApplies`, `VppRejects`, `Send`, `Acknowledge`, `Tick`, `Disconnect`, `Crash`, `LoseFile` |

Table `jobs` is the functions `state`, `body`, `before`, `offset`, `size` on
pairs (session, request); `before[k]` is the set of rows with a smaller rowid.
A Redis command is `Heard` or `Unheard`: in the second case it was carried out
and the connection is gone. `pub` and `answered` are history variables.

Data that is abstracted:

- A request is an identifier, one of seven kinds of method and an argument;
  whether text is a valid request is part of the kind. Sizes, offsets and
  budgets are counted in frames, bodies in requests.
- A response is its outcome and its number of frames. `effects[k]` counts how
  often VPP carried out the operation of job `k`. Dumps that only resolve
  interface names change nothing and are not counted; the pages of a paged
  dump are one operation.
- `session.renew` updates the lease and writes its response in one step.
  Between the two the job is running, and recovery treats it the same way
  whatever its file holds.
- Session identifiers are random and never repeat: each is handed out once.
- `LoseFile` stands for a disk that loses a retained file. Files whose unlink
  or rename was not yet synced at a power failure are not modelled.
- A failing SQLite statement ends the process, so it is a crash.

### Transfer

One step for each file operation: the data of a chunk (`WriteChunk`, or part of
it with `WriteFails`), `Truncate`, `SaveManifest`, and the two unlinks of a
sweep. `Interrupt` may come between any two. Contents are sequences of bytes
and SHA-256 is taken to be injective, so a digest is the content itself.
Parameter syntax checks and the parsing of the resolved text are left out; a
call they reject changes nothing. `Resolve` refuses a committed upload larger
than `ParamsBytes` (`kParamsBytes`). `left` is `expires - Now()`.

### Response

The worker fills the spool (`Add`, `FinishDump`, `Single`), the main thread
publishes frame after frame (`Deliver`; `DeliverUnheard` when the offset is not
stored) and honours `Replay`, Redis may `Drop` the stream, and a client handles
the oldest entry: gateway-client with `Wait`, and it may be run again
(`Rerun`); the example client with `Receive`. A record is its place in the
response and a number of fragments; base64 and the record digest become the
equality of the fragments' headers.

### RequestLedger

A request is new, queued, running, done or gone, may be with VPP (`pending`),
has been executed a number of times, and has a verdict. It is admitted once,
runs alone, and is handed to VPP (`Send`) only while it runs; VPP may carry it
out (`Execute`) or not (`Refuse`), perhaps long after it is done or gone. A
result of a call means it was executed, and a verdict once given can only be
lost (become unknown), never changed. `Execute` only counts; that the count
never passes one, and that a request does not come back, is what `Promises` and
`Lives` state and the proofs derive. `GatewayRefinement` maps the
journal's row, VPP's messages and effects and the outcome in the spool file to
these variables; every other step of `Gateway`, a crash and each step of
recovery included, is a stutter. `RowsLive` is `Lives` read back in terms of the
journal.

### Registration

`lock` is `server.lock` of each state directory, `owner` the owner key,
`sessions` one table for each directory. A process is `down`, or stands at one
of the steps of a turn: `Own`, `Cleanup`, `ReadFirst` with `Answer`, `Publish`,
`Remove`. Times are ticks that are left, so time needs no bound. A lost reply
(`Fails`) ends the turn, since it breaks the connection. `Cleanup` may leave
out one expired session, the one whose job the worker holds. Clients `Ask`
under a new identifier, `Wait`, or `GiveUp`; others may `Repeat` an entry word
for word. `Takeover` is the documented removal of the owner key by an operator,
once the former owner is stopped. Tokens are part of the kind of an entry.

### Backend

`Submit`, `Collect` and `Stop` are the main thread's side, `Wait` and `Poll`
the idle thread. An operation goes through `Connect`, a dump (`StartDump`,
`DispatchDump`, `DumpEnds`, `AfterDump`), `Send`, and callbacks (`Dispatch`)
until `Conclude` or `NextPage`; `DispatchEnds`, `ReplyFailed` and
`ReplyUnusable` are its other ends. `pending` is the set of callbacks VAPI still
holds, each of which points into the frame of the operation that registered it.
VPP keeps a message it was sent after the context is gone (`Orphans`) and may
act on it then. `said`, `ended`, `held` and `used` are history variables.

- Four kinds of operation stand for all: `interface.list`,
  `interface.set_state`, a generated call that takes and returns interfaces
  (the longest path), and the paged stream. A generated dump without a
  completion message is a stream whose items and end come from one callback.
- A reply that does not decode after VPP has acted is reported with the
  decoder's error, not as unknown: the outcome `undecoded`, of which
  `HonestOutcome` says nothing but that VPP acted at most once.
- A rename between the dump and the message it resolves is a race the
  repository's README admits; `NamesAreFresh` asks for names seen since the
  operation began, not for current ones.

### Codec

Native messages are sequences of bytes, JSON is tagged by its kind. `Enc` and
`Dec` are the two directions of `Convert`, field by field, with the depth
limit, the payload limit, counts, defaults, tags of unions and the special
types. The types at which `Convert` ends are `EncLeaf` and `DecLeaf` of
`Scalars`, which does not recurse, so that it can be proved about; the code's
empty status is "ok". `Supported` and `ReplyTail` are the generator's,
`ReplySize` what the callback computes. The steps are `Encode`, then `VppAnswers`
(VPP holds a message of that layout in which any one byte is different, except
the last one of a fixed string), `Callback`, `Decode`. A byte has four values, so that
a few values reach every limit; the limits are constants.

The catalog of a run is data and assumed to be what `AddModule` makes.
Left out: floating point, the spelling of addresses and numbers. Assumed of
VPP: its fixed strings are terminated, that is, their last byte is zero
(`Terminators`). `DescribedIsTrue` needs it: without a terminator `Decode` shows
all `length` characters (`schema.cc:807`), while `Describe` publishes `length - 1`
as the longest (`schema.cc:952`). Read off the code while modelling, and
not contradicted by any document: an enumeration over a signed 64-bit type can
be encoded with a negative value, which decodes to `invalid_reply`, because the
number is parsed as unsigned (`schema.cc:633-639`); a flags field with a default other than zero
cannot be omitted; members of a union without a case can be encoded but not
decoded; a combination of flags decodes only if its single bits have names.

## 3. Runs

| run | asks |
|---|---|
| `duplicates` | Repeated, conflicting, over-quota and replayed requests, with one kill and one lost reply anywhere: is anything executed twice (`AtMostOnce`), skipped in delivery (`NoGap`) or deleted unhandled (`RemovedOnlyIfHandled`)? |
| `lease` | A call and a renewal against the end of the lease, with two kills: do cleanup, recovery and the worker disturb each other (`ActiveRetained`, `NoFatalExit`, `StableOutcome`), is a result ever false (`ResultHonest`), and is all of it what the ledger allows (`LedgerSpec`)? |
| `sessions` | Two sessions share the worker and the budgets across a kill: `OneRunning`, `AdmissionOrder`, `BudgetHeld`. |
| `shutdown` | Every other kind of entry, an orderly stop and a lost file: `CleanStop`. |
| `lost_twice` | A lost file and a kill during recovery: `LostReported` is violated, see section 6. |
| `progress` | Under fairness: `RequestsConsumed`, `ResponsesDelivered`. |
| `uploads` | Three transfers, all ways to cut, corrupt, overrun and repeat an upload of three bytes, two interrupted writes, expiry: `ResolvedIsDeclared`, `ArrivedIsKept`, `LastIsStored`, `DiskWithinReservation`, `QuotaHeld`, and under fairness `Released`. |
| `response` | Eight shapes of response, both clients, repeats, replays, drops, three runs of gateway-client: `TerminalIsTrue`, `ShownIsExact`, `NoFalseGap`, and under fairness `ClientFinishes`. |
| `example_client` | One repeated frame and the example client: `ExampleDeduplicates` is violated, see section 6. |
| `registration` | Two processes on one or two directories, two clients, a full bootstrap stream: `OneServes`, `HandedOutIsLive`, `RetriesShareSession`, and under fairness `RegistrationsAnswered`. |
| `backend` | Two operations, one change and one break in VPP: `NoDangling`, `HonestOutcome`, `NamesAreFresh`, and under fairness `OperationEnds`. |
| `codec` | Twelve layouts, about 800 values, any one byte of a reply changed that is not a string's terminator: `RoundTrip`, `SizeIsExact`, `DescribedIsTrue`. |

All pass but `lost_twice` and `example_client`. Modules with state that has a
type also have `TypeOK` in one run.

### Bounds and why they are enough

- Two request identifiers give a duplicate, a conflict (same identifier,
  another body), a request over quota (`KJobsPerSession` = 1) and a replay of
  another request; a third and fourth would only add copies. Request streams
  get up to three entries, so an entry can be ahead of, and behind, another.
- `Window` = 1 makes the response stream full after one frame; `MaxFrames` = 2
  or 3 makes a response longer than the window, so that delivery is interrupted
  by everything else. `lease`, which is about rows and files and not about
  windows, has `MaxFrames` = 1; there a file is absent, empty or of one frame, and
  `FatalExitsAreUnreachable` covers longer responses.
- Two sessions where the question is about sharing (`sessions`); the other
  runs have one, because sessions meet only in the worker, the order of jobs
  and the budgets. There `MaxFrames` exceeds the session budget, and the
  session budgets together exceed the total.
- `MaxTime` = 2 or 3 with `LeaseTime` = 1 lets a lease end, be renewed and end
  again. In the other runs time stands still.
- Failures are bounded by `Allowed`: two kills where a kill during recovery or
  cleanup matters, otherwise one of each kind.
- `uploads`: a session may reserve two and all sessions together three, so that
  with three transfers both quotas are reached; a fourth would add a copy. With
  `ParamsBytes` = 2 an upload of three bytes can be committed and not used. A
  second session differs from the first only by its own quota.
- `registration`: two processes are enough for a conflict over a lock or a key.
  Two entries let one be held up by another, be repeated, or expire in between;
  `Window` = 1 with a stream that is full at the start is the hold-up;
  `KSessions` = 2 is reached with the earlier client's session. Six session
  identifiers are enough for a new one always to be free. One failure: each
  kind of it is undone by the next turn.
- `backend`: two operations, so that something of the first can be left for
  the second; `PageLimit` = 3 with two cursors gives a repeated, an alternating
  and an endless series; a spool of one item runs full on the second page.
- `codec`: `Base` = 4 makes a u8 overflow at 4; `PayloadLimit` = 40 is passed
  by texts and arrays, `MaxDepth` = 5 by the recursive layout.
- The runs of `Response` and `Codec` have no deadlock check: one response, or
  one conversion, is a finite story. Everywhere else deadlock is checked.

### Fairness

- `Gateway`: the main loop never blocks, so its steps (`Loop`, `Recovery`) are
  weakly fair; systemd restarts the process (`Restart=on-failure` in
  `deploy/`; after an orderly stop, an administrator does); Redis is reachable again and again, so
  `Reconnect` is strongly fair, because `ConnectFails` may come first any
  number of times; the worker's deadline makes every task end (`WorkerStep`);
  clients acknowledge what they read. Nothing is assumed of VPP.
- `Transfer`: the main thread finishes its calls; `Cleanup` runs `Expire`
  before anything else whenever the second has changed, which is strong
  fairness of `Sweep`, since other calls disable it in between; time passes.
- `Response`: worker, delivery, replay and the polling client are weakly fair.
- `Registration`: processes are started again (`Start`, strongly, since the
  lock may be taken in between), each keeps turning, and time passes. Nothing
  is assumed of clients: the one whose bootstrap stream is full need not read.
- `Backend`: the thread is scheduled and its deadlines pass (a deadline is a
  step that is always enabled while an operation waits), and the main thread
  collects. Nothing is assumed of VPP.

## 4. Proofs

Every safety property that a passing run checks is also proved, for every value
of the constants that satisfies the module's assumption, except the three of
`Codec`, of which the part that does not recurse is proved. The proofs of a component start from one inductive invariant, which TLC
checked on the component's runs before it was proved: `Init => IInv`, and one
lemma for each action, or group of actions, that shows `IInv'`. The theorems
follow from `[]IInv`.

| module | theorem | property |
|---|---|---|
| `GatewayProofs` | `TypeCorrect` | `TypeOK` |
| | `NoSecondExecution` | `AtMostOnce` |
| | `ResultsAreHonest` | `ResultHonest` |
| | `SingleRunningJob` | `OneRunning` |
| | `WorkerKeepsItsJob` | `ActiveRetained` |
| `DeliveryProofs` | `DeliveryHasNoGap` | `NoGap` |
| | `JobsLeaveInOrder` | `AdmissionOrder` |
| | `NoRequestIsLost` | `RemovedOnlyIfHandled` (action property) |
| | `OutcomesAreStable` | `StableOutcome` (action property) |
| | `FatalExitsAreUnreachable` | `NoFatalExit` |
| | `StopsAreClean` | `CleanStop` |
| | `BudgetsHold` | `BudgetHeld` |
| `RefinementProofs` | `GatewayImplementsLedger` | `LedgerSpec` (refinement) |
| | `GatewayKeepsPromises` | `Ledger!Promises`, inherited from the ledger |
| | `GatewayLives` | `Ledger!Lives`, inherited (action property) |
| | `RowsMoveForward` | `RowsLive`, the same of the journal (action property) |
| `TransferProofs` | `TransferTypeCorrect` | `TypeOK` |
| | `UploadIsDeclared` | `ResolvedIsDeclared` |
| | `LastChunkIsStored` | `LastIsStored` |
| | `QuotasHold` | `QuotaHeld` |
| | `DiskIsBounded` | `DiskWithinReservation` |
| | `ArrivedBytesAreKept` | `ArrivedIsKept` (action property) |
| `ResponseProofs` | `ResponseTypeCorrect` | `TypeOK` |
| | `TerminalFrameIsTrue` | `TerminalIsTrue` |
| | `ClientsPrintThePrefix` | `ShownIsExact` |
| | `OnlyDropsAreGaps` | `NoFalseGap` |
| `RegistrationProofs` | `RegistrationTypeCorrect` | `TypeOK` |
| | `OneProcessServes` | `OneServes` |
| | `HandedOutStaysLive` | `HandedOutIsLive` |
| | `OneSessionPerRegistration` | `RetriesShareSession` |
| `BackendProofs` | `BackendTypeCorrect` | `TypeOK` |
| | `NoCallbackDangles` | `NoDangling` |
| | `OutcomesAreHonest` | `HonestOutcome` |
| | `NamesWereLookedUp` | `NamesAreFresh` |
| `ScalarsProofs` | `IntegersSurvive` | a number in range is read back as it was written |
| | `BytesAreNumbers` | any bytes are shown as the one number they stand for |
| | `LeavesSurvive` | an accepted value is within the limit and decodes to itself |
| | `TextSurvives` | the same of text of fixed length, which fills its field |
| | `CallbackSizesReply` | a callback copies exactly what the count announces |

### Assumptions

`ConstantsAssumption`, `TransferAssumption`, `ResponseAssumption`,
`RegistrationAssumption`, `BackendAssumption` and `ScalarsAssumption` ask for finite sets where the
model counts members, positive limits, data of the right shape, and a `Nil` that
is none of the values it stands beside. `Response` asks that the reserve fits
the limit of a spool file and that a single response is one record;
`Registration` that there is at least one journal, session identifier and
registration; `Scalars` that a byte has more than one value and that the payload
limit is a number a string's length field can hold. The bounds on failures, sends and time are arbitrary numbers. What
matters most is assumed in the actions, not in the constants: random session
identifiers do not repeat (`Register`, `RandomId`), and SHA-256 is injective.

### Gateway: at most once (`GatewayProofs`)

The inductive invariant is `IInv == TypeOK /\ Safe`, with these parts besides
the properties themselves:

- `Referential`, `Leased`: a job has a session row, and a session row has a sid
  that was handed out.
- `Unsent`: what a live or future session may still submit (no row, or a
  queued one) was never sent and has no response file. This is the heart of
  at-most-once. It survives `Forget`, which removes rows, because the sid goes
  with them and is not handed out again; it survives recovery because a running
  row becomes done, never queued.
- `MainHolds`, `TodoLive`: what `sid`, `id` and the session list stand for at
  each `pc`; in particular cleanup never stands at the session of `active`.
- `WorkerHolds`: what each state of the task says about `state`, `effects`,
  `inflight` and `answer`.
- `RunningHeld`: outside recovery a running row is with the main thread or the
  worker. With `OneRunning` it means recovery meets at most one.

### Gateway: delivery (`DeliveryProofs`)

`DInv` adds `PublishedAhead` (the frame behind the offset that `StoreOffset` is
about to write is published), `OlderHaveRows` (`before` names only rows that
exist, so a new row is younger than every row it will ever be compared with),
`PickedExpired` (a session that cleanup has picked stays expired: leases are
renewed by the main thread, which is busy with cleanup) and `EntryHeld` (the entry that is about to be deleted is
handled).

### Gateway: files, stops, budgets (`DeliveryProofs`)

`NoFatalExit` needs that the journal's size of a done job is that of its file.
That is false in general: a crash between cleanup's unlink and its `DELETE`, or
between recovery's opening of a file and its `UPDATE`, breaks it. `SpoolKept` says it is
broken only for a `Doomed` session: one whose lease is over and that is dropped
before the main thread looks at its responses, because the first cleanup after
a start comes before the first delivery. `CleanKept` is the stronger statement
for a process that is never killed, from which `CleanStop` follows. For the
budgets, `BudgetKept` says that what the worker was promised (`avail`) is still
there when it ends, since whatever is retained meanwhile has one frame and is not
counted.

### Gateway implements RequestLedger (`RefinementProofs`)

`RInv` adds that cleanup drops only sids that were handed out. `Init` maps to
the ledger's `Init`, and each action maps to one step of the ledger or to a
stutter: admission (`Receive`), start (`StartJob`), a call handed to VPP
(`WorkerSends`), carried out (`VppApplies`) or not (`VppRejects`), verdict
(`CompleteWorker`, `MarkLocal`, `RecoverMarks`, `StopEnds`), loss (`Unlink`,
`LoseFile`), and the session's end (`Forget`). Recovery's emptying and
rewriting of a file are stutters, because the verdict of a file that is missing
or has no terminal frame already counts as unknown.

`Promises` is inductive for the ledger as it stands (`LedgerIsSafe`): a request
is executed at most once because it can be sent only while it runs and has not
been executed, and a request that VPP holds has not been executed. `Lives`
follows from the actions. By the refinement both hold of `Gateway` under the
mapping, and `ReadBack` turns `Life` of the mapped variables into `RowLife` of
the journal. A request's phase determines whether it has a row, and a row that
disappears leaves a session that is gone for good. No run lists these three
properties; the first two were checked with TLC on the ledger alone before they
were proved.

### Uploads (`TransferProofs`)

What holds of a manifest on disk must hold of the one a call is about to save,
while the data file already has the new bytes and the old manifest still stands.
`Stored(m, d)` says a file has what a manifest says of it; `ManifestsTrue` asks
it of every live manifest, `CallHolds` of the pending one, with the fact that it
declares the same and counts no less than the one it replaces, or that it was
admitted within the quota.

### Responses (`ResponseProofs`)

The file is a chain (`Chained`): each frame is the next fragment of a record, a
new record after a complete one, or the error that ends the response.
`Building` and `Finished` describe it before and after the terminal frame; the
number of frames is the cardinality of `Places`, the pairs of an item and one of
its fragments. `Printed` is the key to the clients: what a client has made of
its first `expected` frames is a function of the file (`Whole` counts the items
that are complete there, `Pending` is the fragment under way), so it does not
matter in which order, how often, or from which run the frames came. Hence
`Accept` is never handed a frame it refuses (`AcceptsNext`). `Gapless` says that
without a drop the stream, the offset and what the client expects never jump
ahead of each other.

### Registration (`RegistrationProofs`)

`LocksHeld` and `OwnerKept`: a process that runs holds its directory's lock, one
that serves has its directory's identity in the owner key; `OneServes` is the two
together. `SidsUnique`, `RegsUnique`: a sid is one row of one journal, a
registration one row of a journal. `Backed`: each reply that is about to be
published, is published or is saved has a row that lasts at least as long.

### Backend (`BackendProofs`)

`Phase` says where the operation stands. `Protocol` says that at most one message
is outstanding whose answer would be heard, that it is the one the thread waits
for, and that an answer in the inbox is all of the rest, up to the message that
ends it. `Callbacks` lists the callbacks registered in each phase; `NoDangling`
follows. `Once` and `Known` relate what the thread has learned to what VPP did
and may still do with messages of a closed context; `Counted` relates the spool
to what VPP said; `Learned` relates tables, names and messages to `held`.

### Codec: leaves (`ScalarsProofs`)

The proof starts from division with remainder. `Shifted` is the series of
quotients of a number, `Digits` their remainders; `UnsignedOfDigits` and
`DigitsOfUnsigned` say that the two directions are inverse to each other for
1, 2, 4 and 8 bytes and any `Base` above one. The range of a type has as many
numbers as its bytes have values (`RangeFacts`), and a negative number differs
from its unsigned form by exactly that many, which gives `IntegersSurvive` and
`BytesAreNumbers`. `LeavesSurvive` adds what was written before and what
follows: an accepted value is appended, nothing else changes, and decoding takes
off exactly the bytes that were appended. For interfaces it assumes that VPP
numbers them apart and that none has the index that means all (`Indexed`); for
strings it needs `ScalarsAssumption`, since a length is cut to four bytes before
the text is compared with the limit. `CallbackSizesReply` says that comparing
the count with the quotient of what is left of the limit is the same as
comparing the product, which the callback never computes before the check.

### Only model-checked

- Liveness: `RequestsConsumed`, `ResponsesDelivered`, `Released`,
  `ClientFinishes`, `RegistrationsAnswered`, `OperationEnds`. Fairness and
  ENABLED are out of the prover's reach.
- `Codec` (`RoundTrip`, `SizeIsExact`, `DescribedIsTrue`): `ScalarsProofs` has
  what `RoundTrip` says of every type at which `Convert` ends, and what
  `SizeIsExact` says of the callback's arithmetic. Structures, arrays, unions
  and enumerations recurse over types and values, as the code does, and what a
  recursive definition computes for every input needs induction over data, which
  the provers do not do.
- `LostReported` and `ExampleDeduplicates` are false (section 6).

## 5. Not modelled, and the plan

Not modelled: `ParseRequest` and `CheckNesting` (stateless checks of text; an
entry is valid or not), `AddModule` and the text the generator writes, the mock
backend, `api.methods`, command lines, logging, the text of errors, the Redis
and SQLite libraries beyond what the code uses of them. `Gateway` and `Transfer`
are not composed: `Transfer` lets its calls come in any order, so a chunk that
overtakes a queued `begin` is among its behaviours.

What is left: a bounded nesting of layouts written without
recursion, over which the agreement of the two directions could be proved for
structures as well.

## 6. Findings

**A lost response, lost again.** The repository's `README.md` (lines 271-272)
says: "A missing retained response is also reported conservatively as unknown."
`Recover` writes the replacement file before `MarkDone` resets size and offset.
If the process is killed once the `Spool` constructor has created the file
(`common.cc:240`), before or after the replacement is in it, and before
`MarkDone`, the next `Recover` finds a file and a done job and skips it, so the journal keeps the size and the offset of the lost
response. The run `lost_twice` shows a retained response whose journaled size
is not that of its file; `Deliver` then reads past its end and exits, again
after each restart, or delivers nothing if the old offset was the old size.

**The example does not deduplicate.** The same file (lines 264-267) says that
delivery can duplicate a frame and asks clients to deduplicate by session,
request and sequence number, and to discard numbers already processed.
gateway-client does (`NoFalseGap` holds for it). `Receive` of
`example/client.cc` (lines 63-68) takes any frame that is not the next one for
a gap and exits. The run `example_client` shows it with one repeated frame and
nothing missing.
