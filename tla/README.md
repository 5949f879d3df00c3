# A verification development of agent-runtime-foundry

agent-runtime-foundry connects the Orka agent runtime to Foundry-hosted
agents. Three kinds of process matter:

* the **lifecycle broker** owns the Foundry sessions and inferences of many
  tasks and must never lose, repeat or prematurely give up remote work;
* the **hosted gateway** and the **hosted wrapper** seed exactly one supervisor
  in a Foundry container through a pair of WebSockets;
* the **ACP child** and the **turn adapter** run one prompt or turn with its
  tool calls on top of them.

The source is Go; paths below are relative to `src/`.

## 1. Inventory

### Lifecycle broker: `internal/broker`

*State.* `lifecycleBroker` holds a ledger (owners → prompts → invocations, plus
operation records), a table `active` with the one live invocation of an owner,
a table `workers` of cleanup goroutines, a context, and `storageError`. Each
change of the ledger is committed to `state.json` under `mu` before it becomes
visible (`commitLocked`).

*Operations.* Control requests of the supervisor (renew, settle, retire,
status: `control`), Responses requests of the ACP child (`serveResponses`,
`reserveInvocation`, `invoke`, `finishInvocation`, `closePrompt`), the sweep
every 100 ms (`sweep`), one cleanup worker per owner (`startReconcile`,
`reconcile`), recovery at start, shutdown.

*Interaction.* The supervisor and the child call the broker over HTTP; the
broker calls Foundry (create, inference, stop, status, delete) without holding
its lock. Foundry may answer late or never.

*Hard behaviour.* A request may be accepted after its answer was lost; a
write may fail after the rename; authority may be withdrawn between the durable
intent and the dispatch; the worker decides on state it captured earlier; a
restart must resume nothing and forget nothing.

*Correct when* everything the provider has or may still get is recorded; nothing
is dispatched after authority was withdrawn; a prompt is settled and an owner
retired only when nothing of theirs can run any more; no second session is
created; function calls are answered once; cleanup happens eventually.

### Hosted gateway: `internal/hosted/gateway.go, remote.go, store.go`

*State.* A small ledger file (creation attempted / acknowledged, exposure of the
bootstrap with challenge and pair, ready, closed), two WebSockets, `ready`.
*Operations.* `newHostedGateway` → `initialize` (session, two channels, two
hellos, record of exposure, bootstrap, readiness), `ServeHTTP`, `close`.
*Hard behaviour.* Crash or failed save at any point; a replacement process;
uncertain session creation. *Correct when* at most one bootstrap is ever sent
for a deployment and every later process knows.

### Hosted wrapper: `internal/hosted/server.go, process_linux.go`

*State.* A challenge per process, at most one `hostedPair` (both channels,
acknowledgements, bootstrap, `running`), the supervisor process.
*Operations.* `ServeHTTP` (one handler per channel: hello, claim,
acknowledgement, bootstrap, `maybeStart`), `run`, `joinSupervisor`, `close`,
signals. *Hard behaviour.* The two handlers race; hellos of several gateway
processes; shutdown that must leave the channels to the supervisor; a process
that survives SIGKILL. *Correct when* one supervisor runs per lifetime, only
for the pair that was authenticated on both channels, and either channel's loss
ends it.

### Hosted protocol, proxy, transport, configuration: rest of `internal/hosted`

Signed hellos, route filters, HTTP/2 over WebSocket, file validation. No
state beyond a connection. The properties (authenticity, canonical encodings)
are about data.

### ACP child: `internal/acp`

*State.* `acpServer` holds one session (open, poisoned, the response its next
prompt continues), at most one active operation, and a bounded queue of frames
for stdout. A prompt has its rounds, its call ids and the batch of calls it
executes. Goroutines read stdin and write stdout; `serveACP` joins them, and
whatever else still runs, before it returns. *Operations.* initialize, session/new (with the MCP handshake),
session/prompt (`runPrompt`, `executeTools`, `outputText`), session/cancel and
`$/cancel_request`, reader and writer, the end of `serveACP`. *Interaction.* Lines to
and from the supervisor; MCP over HTTP; Responses requests to the broker.
*Hard behaviour.* A cancellation races the end of a prompt; calls of a batch
run in parallel over two slots and the first error revokes the others; nobody
reads stdout, or stdin stays silent, while the child is cancelled; a request reuses the identity of the live one. *Correct when* an
answer is the right one, `end_turn` is said only of a prompt that ran to its end,
no call or update outlives its prompt, cards open and close once, the
conversation continues where it stands, and in a cancelled child nothing waits but
a call on stdin or stdout that the supervisor has not let return.

### Turn adapter: `internal/adapter`, and harness client: `internal/harness`

*State.* Turns in memory with frames, deadlines, pending function calls and
sessions; capacity limits with pruning. *Operations.* start, continue, cancel,
deadline, stream, prune. *Hard behaviour.* Background responses against
cancellation, deadline and pruning; a stream that must deliver the last frame.
*Correct when* every turn ends with one terminal frame after which nothing is
appended, and a continuation runs once.

### Durable store: `internal/durablestore`

*State.* The directories down to the store, a lock file that is created once and
never removed, `state.json`, and what of them has been synced. *Operations.*
`makeDirectory`, `OpenLock`/`LockFile`, load, save by rename and sync, close.
*Hard behaviour.* Several processes start at once; one dies between two steps;
the machine loses power with entries unsynced. *Correct when* one process at a
time has the ledger, an acknowledged version is never lost, and a missing
ledger is never taken for a first start.

### Stateless parts

`internal/foundry` (translation and validation of Responses bodies),
`internal/strictjson`, `internal/redact`, `internal/events`,
`internal/brokerapi`, `cmd`, `conformance`.

The list with the status of every part is in `PROJECT.json` ("components"), and
what is hard to test, line by line, under "hazards".

## 2. Modules

| Module | Models |
|---|---|
| `BrokerLedger` | the ledger of one owner as data: admission of prompts and invocations, the changes each commit makes, and the validator of the file |
| `LifecycleBroker` | the broker as a concurrent program around that ledger, with provider, clock, failures and restarts |
| `OwnershipContract` | what the broker promises, without ledger, processes or messages |
| `MCLifecycleBroker` | instances of `LifecycleBroker` for TLC |
| `OperationLog` | the capacity of the same ledger: operation slots, its bytes and their reserve, over several owners |
| `MCOperationLog` | an instance of `OperationLog` for TLC |
| `LifecycleBrokerProofs` | lemmas on the ledger's operators; `TypeOK` is proved; the inductive invariant, and lemmas about one record |
| `LifecycleBrokerSafety` | every action preserves it; the safety theorems and the action properties of what is sent and deleted |
| `LifecycleBrokerRefinement` | `LifecycleBroker` implements `OwnershipContract` |
| `OperationLogProofs` | slots, single recording and room in the file of `OperationLog`; sums over a finite set |
| `HostedLifetime` | gateway, wrapper, supervisor and their files, channels and crashes |
| `HostedLifetimeProofs` | the inductive invariant of `HostedLifetime` and its safety properties |
| `TurnAdapter` | the turns of the adapter, their invocations, timers and streams |
| `TurnAdapterProofs` | the inductive invariant of `TurnAdapter` and its safety properties |
| `MCTurnAdapter` | an instance of `TurnAdapter` for TLC |
| `AcpSession` | the ACP child: its reader, lines, operation, tool calls, queue and writer |
| `MCAcpSession` | an instance of `AcpSession` for TLC with its symmetry |
| `AcpSessionProofs` | the inductive invariant of `AcpSession` and its safety properties |
| `DurableStore` | the directory under both ledgers: its making, lock, saves, kills and power losses |
| `DurableStoreProofs` | the inductive invariant of `DurableStore` and both its properties |

`LifecycleBroker` and `HostedLifetime` take from `DurableStore` that one process
has the ledger and finds what was acknowledged; `LifecycleBroker` takes from
`OperationLog` that what cleanup has to record always has room.

### LifecycleBroker and the code

A step that holds `lifecycleBroker.mu` is one action. A request to the provider
is three: it is sent, it takes effect at the provider (or is refused), and the
broker uses the answer. The answer may be lost at any time, and the effect may
come after that.

| Variable | Code |
|---|---|
| `ledger`, `disk` | `lifecycleBroker.ledger`, `state.json` |
| `act[o]` | `b.active[o]` and the goroutine of that request: where it is in `invoke`, whether its context is cancelled, its error |
| `wk[o]` | `b.workers[o]` and what `reconcile` captured under the lock |
| `life`, `boots` | context and `storageError` of the process; restarts |
| `now` | the clock of leases |
| `remote`, `wire`, `answered` | (external) Foundry's sessions, inferences and the calls that were answered |

* `Renew`, `Settle`, `Retire` are `control`; `Reserve` is `reserveInvocation`;
  `ClosePrompt` the disconnect of the child; `Sweep` one pass of `sweep`.
* `CreateIntent` … `CreateAcknowledged`, `InferenceIntent` …
  `InferenceCompleted`, `InvokeFails` and `Finish` are the steps of `invoke` and
  `finishInvocation`.
* `Reconcile` … `Prove` are the steps of a cleanup worker.
* `Save`/`Lose` are the two outcomes of a commit. A failed commit leaves the old
  ledger in memory and either bytes in the file, and poisons the process.
* `Shutdown`, `Stop` and `Restart` are `close`, the end or crash of the process,
  and `newLifecycleBroker`.

Abstractions: ids, bodies, digests and tokens are identities; the operation
records and the size of the ledger are in `OperationLog`; the comparison of the principal is left out (it only refuses).
The zero time of Go (`time.Time{}`) is time 0, the clock starts at 1, and a lease of
time 0 is one that a request may name. `PromptFits` and `OwnerFits` are the validator
`brokerLedgerValid` without its refusal of a zero lease, `LedgerValid` is all of it. What one
commit writes together is not compared again: that the operation of a prompt or an
invocation is in the operation log, and that a session id goes with a pinned principal. Control requests are
served while the broker drains. Where code reads the provider's status and then
commits, the commit is the step. The context check in `sendRemoteRequest` is
the point of dispatch: cancellation after that check is indistinguishable from
a lost answer. The one-second back-off between cleanup attempts is left out.

### HostedLifetime and the code

A gateway attempt is a process of the gateway; its number is its pair id. A
boot is a process of the wrapper; its number is its challenge.

| Variable | Code |
|---|---|
| `gw`, `file` | the position of a gateway in `initialize`, its ledger in memory; `state.json` |
| `session` | (external) the Foundry session |
| `conn[a][r]` | the channel of role r that attempt a opened, its two ends and its last messages |
| `wr[b]` | `hostedServer`, its `hostedPair` and its supervisor process |

* `StartGateway` … `MarkReady` are `newHostedGateway`, `ensureSession` and
  `initialize` in order; `InitializationFails` any of their early returns and
  time-outs; `LeaveReady`, `ObserveLoss`, `CloseGateway` the watcher and `close`.
* `Claim`, `WriteAck`, `NoteAck`, `ReadBootstrap`, `MaybeStart`, `SetupFails`,
  `HandlerSeesStart` are the handlers of the two channels; `LaunchSupervisor` …
  `JoinSupervisor` are `run` and the process supervisor.
* A deadline is an action that may happen at any time while the code waits.
  A handler whose setup deadline fires together with the start may close
  the running pair; `left` is the set of handlers that are past it.

Abstractions: a hello or bootstrap that arrives was made for the wrapper that
reads it (signatures and digests are checked in code and not modelled); HTTP
relaying is left out; the platform may start a second container while the first
still runs, which is what makes the challenge necessary. When a channel breaks,
one end learns of it first and the other sees it severed.

### TurnAdapter and the code

A section that holds `adapter.mu` is one action. An instance is one `turnState`;
an id may be tried again with another instance.

| Variable | Code |
|---|---|
| `turns` | `adapter.turns`: the instance that an id names |
| `t[i]` | the `turnState` of instance i and, in `pc`, where its goroutine is; `end` numbers the ends of turns, as `cleanupAt` orders them |
| `runtime`, `tomb` | `adapter.runtimeSessions`, `adapter.turnTombstones` |
| `asked`, `answered`, `resolved` | (external) the calls of the latest response, the last invocation that was answered, and the responses that asked for nothing |
| `reader[i]` | a loop of `streamEvents` for instance i, and what it delivered |

* `StartTurn`, `SessionCreated`, `SessionFails`, `Initialized` are `startTurn` and
  `failInitialization`; `Invoke`, `OnCreated`, `OnTextDelta`, `OnFunctionCall`
  and the three `Return…` actions are `runResponse` with its callbacks.
* `ContinueTurn`, `CancelTurn`, `WatchDeadline`, `FlushTimer`, `CleanupTimer`,
  `Prune` and `RuntimeExpires` are the requests, timers and pruning.
* `Leaves` is the end of a section: when the turn ended in it, the tombstone, the
  timers and `pruneRetainedTurnsLocked` are part of the same step.
* `ReadFrames` and `ConfirmIdle` are the two looks at the turn that one round of
  `streamEvents` takes.

Abstractions: text is counted in deltas; call ids are numbers, in the order in
which the code sorts them; a missing result is left out of the outputs (the code
would send an empty one). A request or result that conflicts with an earlier one,
or comes from another owner, is refused without a change and not modelled. Byte
limits show as the error branches of `OnFunctionCall` and `OnTextDelta`; a frame
too large to encode (`appendMinimalFailureLocked`) is left out. Tombstones do
not expire: after a day an id may run again, by design. An invocation's error
may come at any time; one that invalidates the session comes with an HTTP status.
The two locked sections at the end of an invocation that outlived its turn are
one step.

### OperationLog and the code

Every action is one critical section that commits the ledger
(`commitLocked`, `commitCapacityLocked`). `sessions[o]` is the record of an
owner with its operation log; `live[o]` is `b.active[o]`; `principal` says that a
principal digest is pinned. `Invoke`, `Renew`, `Settle`, `SettleUnknown`, `Retire`,
`ClosePrompt` are the requests, `Sweep` the expiry of leases, `PinPrincipal` …
`Finish` the commits of a request in flight, `Prove` that of cleanup, `Restart`
`newLifecycleBroker`. `Recordable` is `brokerRecordOperation` with its three slot
limits, `Reserved` is `brokerLedgerReserveBytes`. A refused commit precedes all
I/O and leaves the old ledger, so a refusal is no step.

The bytes of the ledger are a weighted sum of its entries; state names have size
0, for the reserve covers their growth with its margin. The sender is the
supervisor that the comment of `store.go` describes: it freezes one settlement
identifier per prompt and one retirement identifier per owner, has a prompt's
settlement recorded before it asks for the next prompt, and sends no new
settlement to a retired owner. `SlotsForCleanup` promises a settlement its slot only while
no retirement is recorded: a retirement at a full log takes the last slot, and
closes the prompt by itself.

### AcpSession and the code

A section that holds `acpServer.mu`, or a step of one goroutine between two
waits, is one action.

| Variable | Code |
|---|---|
| `alive`, `loop` | `s.ctx`; whether `serveACP` is in its main loop, in the deferred joins, or has returned |
| `reader`, `inbox` | the goroutine of stdin: in the read, holding what it read, over; the channel `reads` |
| `writer` | the goroutine of stdout: waiting for a frame, in `output.Write`, over |
| `writes`, `done` | the frame being written and the queue behind it; the senders whose frame was written (the `done` channel of a frame) |
| `session`, `initialized` | `s.session`, `s.initialized` |
| `op` | `s.active` and where its goroutine is |
| `request`, `seen`, `batch`, `revoked`, `failed`, `calls` | `ResponseRequest`, the call ids of the prompt, and `executeTools`: the calls, group context, first error and goroutines |
| `cards`, `heard`, `ended`, `spoiled` | history: what was written of each call, the last response, the last ended turn, whether a prompt did not end |

* `AcceptNothing` … `AcceptCancel` take a line from `inbox`: the lines `accept`
  dispatches, and those it has no use for.
* `Handshake`, `OpenSession` are session/new; `Discover`, `BeginRound`,
  `ModelAnswers`, `ModelFails`, `Announce` … `EndBatch`, `OutputText` … `EndText`
  and `FinishPrompt` are session/prompt in order.
* `Acquire` … `EventSent` are the goroutine of one call: slot, MCP call, the
  critical section that records the error and revokes the batch, the release
  of the slot, the card.
* `Put`, `Refused`, `Flood` are the three outcomes of a put that never blocks: a
  full queue cancels the server. `Sent`, `GivesUp` are the wait of `send`.
* `BeginWrite`, `Write`, `WriteFails`, `WriterStops` are the goroutine of stdout,
  `ReadReturns`, `HandOver`, `ReaderStops` that of stdin. Each looks at the context between two
  calls on its descriptor and not during one: a call that has begun ends when the
  supervisor lets it.
* `ServeReturns` leaves the main loop, cancels and closes both descriptors; `Join` is
  `s.wg.Wait` and `transport.Wait`, after which `serveACP` has returned.
* `Announce` and `Show`, `OutputText` and `PrintChunk`: the look at the context is a
  step, and the put of the frame that follows it is another.

Abstractions: a line is the request it decodes to and whether its parameters are
accepted, and a read yields a line or the end of input; an HTTP exchange is a pending state and an outcome; text is a number of
chunks; every check of a body that refuses it is the failed outcome.

### DurableStore and the code

`at[p]` is where process p is in `makeDirectory`, `OpenLock`, `LockFile`, the load
and the save of a store. A version of the ledger has a number and the number of
the first version of its line, so a ledger that was started afresh is told from
its predecessor. `disk` is the set of versions that a power loss may leave.
A file is synced before it is renamed, so `state.json` is never torn.

`Fails` is an error at any step (a file of the wrong owner or mode included) or a
kill; `PowerLoss` loses any entry that was not synced, with everything below it;
`LedgerVanishes` removes the ledger of a closed store whose lock file is on disk.
Two facts the code chooses and the model does not claim otherwise: a version that
was read after a rename without a sync may be reverted by a power loss, and a
creator that dies between the lock file and the first save strands the store
(`LockIsFair` says that only a fault does that).

## 3. Runs

| Run | Shows | Bounds |
|---|---|---|
| `broker_session` | the safety of one owner, function calls answered once, nothing sent twice, and the refinement of `OwnershipContract` | 1 owner, 2 prompts of different attempts, 2 invocations each, 2 creations, 1 restart, clock 1..2, leases 0..2 |
| `broker_renewals` | an early acknowledgement is owned; one prompt key per task attempt | 2 prompt keys of one attempt, 2 invocations, 3 generations, clock 1..3, leases 0..3, 1 restart |
| `broker_zero_lease` | a lease of time zero is committed and the next start refuses the file (`StartupAccepts` is violated) | 1 owner, 1 prompt, 1 invocation, 1 restart |
| `broker_liveness` | closing prompts are settled, retiring owners retired | 1 owner, 1 prompt, 2 invocations, 1 restart |
| `operation_log` | settlement and retirement have slots and bytes; requests are recorded once | 2 owners with 2 prompts, 3 reusable identifiers, logs of 3 slots, 25 units |
| `hosted_restart` | one bootstrap, one supervisor and one creation over crashes; relays outlive shutdown | 2 gateway and 2 wrapper processes |
| `hosted_liveness` | loss of a channel ends both sides; shutdown ends | 1 gateway, 2 wrapper processes |
| `adapter_stream` | frames, tool rounds, retries and a reader | 1 turn, 3 invocations, 2 calls, 6 frames, 3 deltas |
| `adapter_sessions` | what turns of one session leave to each other; every turn ends and is deleted | 2 turns of one session, 2 ids (one with tools), 1 retained, 2 invocations each |
| `acp_session` | what the supervisor is told and what may still run | 2 prompts, 5 lines, 2 identities, 2 calls over 1 slot, a queue of 2 frames |
| `acp_liveness` | operations end; a cancelled child waits for nothing but the supervisor | 1 prompt of 1 round, 4 lines, 1 identity, 2 calls over 1 slot, a queue of 1 frame |
| `durable_store` | nothing acknowledged is lost; the creator keeps its right | 3 processes, 2 directories, 3 saves |

Why the bounds suffice: two prompts are needed for a successor that continues or
overtakes its predecessor, two creations for a refused one that is retried, two
invocations for a round of function calls, two clock values for a lease that
expires (three generations and three values where renewals are the question). A
restart forgets everything in memory, so a second one meets the states the first
one met. Owners share only the lock, the file and the sweep; the proofs
below cover any number of them, and do not depend on these bounds. In
`operation_log` two owners compete for one ledger that is small enough to fill
before the logs do, and logs that fill before the ledger does. For the lifetime,
a second gateway process and a second container are the first that can do harm;
a third would meet the same file. In the adapter, six frames let a turn with two
calls complete and one with output before its calls run out of room; the third
invocation comes after a second round of calls; two turns are enough for one to
meet what the other left: its session, its id, its running request or its place
among the retained turns. Admission of different sessions up to the limit
(`MaxConcurrent`) is in the model and not reached by these runs. In the child,
one slot for two calls makes one wait for the other, and two frames
behind the one being written let the queue fill with the cards of one batch; a
second prompt meets what the first left. Identities and call ids are interchangeable there
(symmetry); `acp_liveness` uses none, and with one place in the queue a second call floods it. In the store the third process meets a creator and an owner at once.

In `broker_session` and `broker_renewals` the two prompt keys are interchangeable (symmetry), for
the code compares keys and their attempts and never orders them.

The broker, hosted, child and operation-log configurations say `CHECK_DEADLOCK
FALSE`: a process that was stopped, or a bounded ledger, line count or identifier
set that is used up, has no step.

### A finding

`broker_zero_lease` ends in a start that refuses its own ledger. `brokerParseContext`
bounds the lease of a Responses request and of a renewal only (`protocol.go:107-117`), so a
settlement of an unknown prompt may name `0001-01-01T00:00:00Z`; `brokerEnsurePrompt`
commits it (`broker.go:192-200`), and `brokerPromptValid` refuses it
(`store_validation.go:80`). `docs/harness-v2.md:255` says that broker startup triggers cleanup, and
after such a settlement no owner of the ledger is cleaned up any more.
`OnlyZeroLeaseIsRefused`, checked and proved, says that nothing else the broker commits is refused.

### Fairness

`broker_liveness` assumes what the code schedules: the sweeper ticks
every 100 ms; a request goroutine goes on while it is bounded by the operation
deadline or cancelled (an open inference may stay open for ever); a worker that
was started ends. A provider call that is tried again and again is answered in
the end (strong fairness), and a session told to stop becomes idle. Nothing is
assumed of supervisors, children or ticks of the clock. The conclusion excepts
owners that are blocked by an unacknowledged request: the code refuses to guess
there, on purpose.

`hosted_liveness` assumes that handlers with a deadline, the watchers of the
channels, the start and signals of the supervisor and the join are not put off
for ever. A supervisor that is not told to stop may run for ever, and one that is
told to stop may survive SIGTERM and SIGKILL.

`adapter_sessions` assumes that deadlines pass and timers fire, that
`CreateSession` returns, and that a request whose context is cancelled returns.
Nothing is assumed of clients, of the provider, or of requests that prune.

`acp_liveness` assumes that goroutines which can run do run, and that every HTTP
exchange has an outcome (`acpHTTPTimeout` and `acpToolCallTimeout` bound it). Nothing
is assumed of the supervisor: it need not send a line, and a read of stdin or a
write of stdout that has begun may never return, for `Close` does not end a call
that blocks on a descriptor in blocking mode. So the property says what the child can
promise: every operation ends if writes return again and again; in a cancelled
child no operation and no call goes on waiting, whatever is not read; and `serveACP`
returns unless such a read or write holds its join. A child held that way stays until the
supervisor closes its end of the pipe or kills it.

## 4. Proofs

TLAPS proves, for every value of the constants:

| Module | Theorem | Property |
|---|---|---|
| `LifecycleBroker` | `Typed` | `TypeOK` |
| | `Invariant` | the inductive invariant `IInv` |
| | `SettledPromptsAreQuiet` | `SettledIsQuiet` |
| | `RetiredOwnersAreGone` | `RetiredIsGone` |
| | `AtMostOneSession` | `OneSession` |
| | `EverythingIsOwned` | `OwnedOnDisk` |
| | `CleanupRunsAlone` | `CleanupIsExclusive` |
| | `DispatchIsAuthorized` | `DispatchNeedsAuthority` |
| | `EverythingIsSentOnce` | `SentOnce` |
| | `DeletionsAreClean` | `DeletionIsClean` |
| | `OnlyZeroLeasesAreRefused` | `OnlyZeroLeaseIsRefused` |
| | `AttemptsHaveOneKey` | `OneKeyPerAttempt` |
| | `OpenPromptsAreServed` | `OpenIsServed` |
| | `QuietAnswersAreTrue` | `QuietAnswerIsTrue` |
| | `EarlyRenewalsAreOwned` | `AcknowledgedRenewalIsOwned` |
| | `CallsGetOneAnswer` | `CallsAnsweredOnce` |
| | `BrokerKeepsContract` | `KeepsContract`, the refinement |
| `OperationLog` | `LogTyped`, `LogInvariant` | types; the inductive invariant |
| | `CleanupHasSlots` | `SlotsForCleanup` |
| | `RequestsAreRecordedOnce` | `RecordedOnce` |
| | `RoomInvariant` | types, records and bytes: the inductive invariant `RoomIInv` |
| | `CleanupHasRoom` | `RoomForCleanup` |
| `DurableStore` | `StoreInvariant` | the inductive invariant `StoreInv` |
| | `AcknowledgedIsKept` | `NothingAcknowledgedIsLost` |
| | `LockStaysFair` | `LockIsFair` |
| `AcpSession` | `AcpInvariant`, `AcpTyped` | the inductive invariant `AcpInv`; `TypeOK` |
| | `PromptLeavesNothing` | `NothingOutlivesThePrompt` |
| | `ConversationIsChained` | `ConversationChains` |
| | `AnswersBelong` | `AnswersAreOwn` |
| | `EndTurnIsTrue` | `EndTurnIsEarned` |
| | `CardsAreTold` | `CardsOpenAndClose` |
| | `RevokedBatchIsOver` | `RevokedBatchAdmitsNothing` |
| `HostedLifetime` | `HostedInvariant` | the inductive invariant |
| | `OneLifetimePerDeployment` | `OneLifetime` |
| | `SessionIsCreatedOnce` | `OneCreation` |
| | `ShutdownKeepsRelays` | `RelaysOutliveShutdown` |
| `TurnAdapter` | `AdapterInvariant` | the inductive invariant `AdapterInv` |
| | `AdmissionStaysSound` | `AdmissionIsSound` |
| | `CheckpointStaysResolved` | `CheckpointIsResolved` |
| | `OutputsAlwaysAnswer` | `OutputsAnswerCalls` |
| | `RetryStaysSafe` | `RetryIsSafe` |
| | `StreamDoneStaysHonest` | `StreamDoneIsHonest` |
| | `StreamsStaySound` | `StreamsAreSound` |

*Assumptions* are the named `ASSUME`s of the modules: bounds are natural numbers,
positive where a lease, a sequence, a queue or a path needs one; `None`, `NoKey`,
`Me` and `NoOne` name nothing else; the frozen identifiers differ from each
other and from the ordinary ones; the owners are finite in number and an empty
ledger has room for a principal; a set of call ids is finite, and in the adapter a
set of numbers, of which two events at least fit a turn.

*The broker.* None of the safety properties is inductive: that a settled prompt
is quiet depends on the worker that settled it having known of no unanswered
request, that on no invocation running beside the worker, and that on the table
of live requests agreeing with the ledger. `IInv` says for each owner: the
record in memory and the one in the file each cover what the provider may have
(`RecordOK`); an idle session runs nothing (`ProviderOK`); the position of a live
request determines the state of its invocation, its request and the creation,
and a request whose prompt is closed is cancelled (`CallOK`); what a worker
captured still holds and its evidence rules out unanswered requests (`WorkerOK`).
`RecordOK` also says that a record is one the validator of the next start accepts,
a zero lease of a prompt without invocations apart (`PromptsFit`, `KeysFit`, `CreateFits`):
`OnlyZeroLeaseIsRefused` and `OneKeyPerAttempt` are read off it. `Tended` says that what is incomplete in an open prompt is the invocation
of the live request, and that a request about to answer calls answers those of
the last completed one; it holds while the store is healthy, for after a lost
write the request that ends can no longer close its prompt.
Outside of a storage failure file and memory agree (`StoreInv`). Each change of
a record preserves `RecordOK` (one lemma per operator of `BrokerLedger`), each
action preserves `IInv` (one lemma per action), and the properties follow
(`InvImplies`). For the action properties, `LifecycleBrokerSafety` shows which
action a new request or deletion comes from (`OnlySendInferenceFlies`,
`OnlySendCreateCreates`), and reads the rest off the invariant. That calls are
answered once needs one more layer: a response whose calls were answered has a
later invocation of the same prompt that was sent (`AnswersWereSent`), and `Tended`
leaves no such invocation beside a request that is about to answer those calls.

*The refinement.* The contract sees the file and the provider. Every step but
`Prove` changes each record on file by granting or closing authority, or by
starting a retirement (`FileRegulates`): a commit of one owner, durable or lost;
the sweep and a restart, of all owners at once; or nothing. If the provider stays as
it is, that is the contract's `Regulate`. `Prove` is `Settle`, where the evidence of
`WorkerOK` is needed; `SendCreate` is `Create` and `SendInference` is `Dispatch`;
`StopSession`, `DeleteSession` and what the provider does are `Quiet`, or `Refuse`
for a creation that is refused. One fact had to be added to `IInv`: a session that was
deleted was deleted for a retirement that is on file (`DeletionsRecorded`), so no
inference and no second creation finds it.

*The operation log.* `LogStep` abstracts what a commit may do to an owner: keep
the log, take an ordinary slot, record a settlement, record a retirement. Every
action is one of them (`OneChanges`), and the invariant, which counts the slots
that settlements and retirement still have to themselves, is preserved by each.
Up to here the bytes do not enter: those proofs hold whatever fits the file.

*The room in the file.* `Need` is the size of a record and what its owner is still
owed (`Owed`), and `Covered`, the inductive part of `RoomIInv`, says that the sum of
the needs and a principal fit the file. A commit that may spend the reserve leaves
no more entries needed than before (`Spends`, and one lemma per change of a record), so the
sum does not grow; ordinary growth was admitted with the reserve of every owner,
and the reserve is at least what an owner is owed (`GrowthStep`). The size is a
fold over the owners, and what it says of any number of them is proved by way of
a smallest set that breaks it (`SmallestSet`, `SumLaw`): sums exist, do not depend on
what else is summed, and are bounded as their terms are (`TotalBound`).

*The store.* `Path`: whoever is past the directories finds them all on disk.
`Rights`: one holder of the lock, one creator of the lock file. `Contents`: what
the file is while somebody may write it. `Kept`: every version that a power loss
may leave descends from what was acknowledged, or the ledger vanished and nobody may begin
another. The last is the point: it holds only because the save that acknowledges a version syncs the
directory in which the lock file lies too.

*The child.* `Conversation` ties the request to the last response at every
position of the prompt; `BatchShape` says that a batch has no call twice;
`CallsRun` that calls run only while the prompt waits for them and that an error has
revoked the batch unless its call has yet to report; `QueueOwned` who
waits for which frame, behind the one being written; `CardsTold` what the supervisor has seen of each call at
every position of an announcement, a withdrawal or a batch. The last two hold while
the transport is up: once it is cancelled, senders give up and frames lose
their owners. `StepQueues` then says what a step may do to the queue, and the
action properties are read off it.

*The hosted lifetime.* The ledger a gateway holds is the one on disk until a save
fails, and from then on that gateway claims nothing. The channels of an attempt
are untouched before it dials; a wrapper that accepted a channel was dialed by
the attempt the channel names; and exposure is on disk before a bootstrap can
leave. From these, whatever crashes in between, a second attempt finds the first.

*The turn adapter.* Three parts of `AdapterInv` speak of one turn: its frames show
exactly the calls, results and text it recorded (`FrameInv`, `TextInv`); while it
is with the provider, what it asked are its open calls, and it is uncertain until
the provider answered (`ControlInv`); the stream of an ended turn is over
(`ClosedInv`). The rest relates turns: those that are not done, or have a request
out, are in the maps and counted (`MapInv`, `PlaceInv`); a checkpoint rests on an
outcome the turns agree on; a reader has a prefix of what it may be told. Nearly
every action is one section of one turn under its lock, and leaves the others as
they are (`Moves`, `MovesKeep`). `StartTurn` is the exception, since it admits,
evicts and counts: `HoldersCount` says that the counter is the number of holders.

*Only model-checked:* the liveness properties, which are out of the prover's
reach.

## 5. Not modelled, and the plan

Parts without a module, and why:

* configuration, route filters, redaction, strict JSON, the translation of
  bodies, file modes: functions on data that tests reach well;
* the signed hellos and the HTTP/2 transport of the hosted pair: a message that
  arrives is taken as made for its receiver, so forgery and relaying are out of the model;
* `internal/harness` and `conformance`: clients of the turn protocol for tests,
  with no state that a server depends on;
* in modelled parts: the back-off and deadlines as durations (they are actions that
  may come at any time), byte limits of frames and bodies (they are error
  branches), conflicting requests and other owners in the adapter (refused
  without a change).

One hazard has no property: pruning in the adapter spares turns whose request is
at the provider and not ended turns that still create their session
(`adapter.go:1024`). It takes more than 256 ended turns (`maxRetainedTurns`) or 64 MiB of them, or ten
minutes (`defaultStateRetention`), during one creation; the bounds of a run that reaches it would hide everything else, and
what the code ought to promise there is not stated anywhere.

Next modules: a run of `TurnAdapter` with turns of different sessions at the
concurrency limit; the order of frames that `internal/harness` accepts.

Next proofs: theorems about the new run of `TurnAdapter`; that the frames of a
turn are an order the harness accepts, from `FrameInv`.
