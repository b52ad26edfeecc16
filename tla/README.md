# EdgeFort-AI: a TLA+ verification project

EdgeFort-AI (package `edgeai`, under `src/src/edgeai/`) is the runtime of an
edge device that serves signed machine-learning models. It installs releases
in two slots, protects them against rollback with a floor that may live in an
external monotonic anchor, answers prediction requests through a bounded
executor that may isolate the backend in a child process, and spools telemetry
while it is offline. This directory models the parts of it that have a protocol, checks
them with TLC on small instances and proves the central results with TLAPS.

## 1. Inventory

| Component | State | Operations | Interacts with |
|---|---|---|---|
| A/B deployment manager `deploy.py` | `state.json` (generation, active and previous slot, slots, floor, status), `slots/A` `slots/B`, `.backup-*`, `.candidate-*`, `.pending-anchor-commit.json`; per process `_trusted_floor`, `_anchor_recovery_required` | constructor with `_recover`, `deploy`, `rollback`, `state`, `active_identity`, `active_snapshot`, `active_artifact_snapshot` | file lock, registry, anchor, qualification; read by the engine |
| Rollback anchor `rollback_anchor.py` | one integer that never decreases | `read_floor`, `advance_to` | called by the deployer |
| File lock, atomic write `util.py` | `flock` holders; temp file and rename | `shared`, `exclusive`, `atomic_write` | deployer, registry, spool |
| Executor and queue `runtime.py` | deque, tasks, counters, worker threads, `_closed` | `submit`, `submit_async`, `ensure_ready`, `close`, `stats`, `_worker` | service above, engine or process runner below |
| Process runner, restart budget `runtime.py` | child process, socket, loaded generation, request id, restart times | `start`, `load`, `execute`, `abort`, `close` | executor workers, `ensure_ready`, IPC |
| IPC framing `ipc.py` | none | encode and decode of bounded frames | runner, child, qualification |
| Engine `engine.py` | runtime and artifact cached per generation | `prepare`, `predict`, `isolated_runtime_snapshot` | deployer |
| Registry `registry.py` | one directory per published version, staging directories, the keyring of each process | `add`, `inspect`, `assert_release_sequence_identity`, `open_verified_model` | deployer, key ring |
| Qualification `qualification.py`, `sandbox.py`, `health.py` | a child process per qualified model | `qualify_model_bytes`, `benchmark`, `enforce` | deployer's gate |
| Telemetry spool `telemetry.py` | a file of records, drop and corruption counters | `append`, `flush`, `flush_records`, `stats` | any sink |
| HTTP service `service.py` | number of requests in flight, the guard of that number | middleware, `/readyz`, `/v1/predict`, lifespan | executor, engine |
| Artifacts and key ring `artifact.py` | trusted and revoked keys | signing, verification | registry |
| Models, datasets, metrics, CLI | – | parsing, cryptography, numerics | – |

What is hard in this code:

* *Crashes.* A deployment is four durable steps (two renames, the journal, the
  anchor, `state.json`); a process may be killed between any two, and a
  recursive copy or delete may be cut short.
* *Two authorities.* The floor in `state.json` and the external anchor cannot
  be changed in one step; the journal has to explain every disagreement.
* *Several agents on one root.* They serialise on a file lock, but what they
  remember (the cached floor) and what a killed one leaves behind cross it.
* *Four locks in the executor.* A request is removed from the queue in one
  critical section and completed in another, while its timer, a cancellation,
  an eviction, `close()` and a worker compete for it.
* *One socket, several threads.* The runner's lock guards its fields, not the
  exchange of frames, which are sent and received in pieces; the worker, the
  readiness probe and `close()` meet on it while the backend hangs, dies or is
  respawned.
* *A file as a queue.* The spool is appended to by one write that may be cut
  short, and rewritten after a sink had its side effects.
* *Readers without a lock.* A request reads the state, the journal's existence,
  the cached floor and the anchor one after the other, shares the floor and the
  runtime cache with other threads, and deployments commit in between.
* *A verdict from another process.* The health gate asks a child that may crash,
  hang or outlive its signal, while the agent holds the deployment lock.
* *One thread for everybody.* The service's limiter holds a lock over an await,
  and its shutdown blocks the event loop its requests need.

What makes each component correct: the deployer serves only complete releases,
never goes below its floor, and can always recover what a crash leaves; the
executor answers every admitted request exactly once, runs no request that was
given up, and can be closed; the runner returns the answer to this request, with
the inputs it sent, from this generation, contains a backend that hangs and leaks
no process; the
spool stays within its limit and neither loses nor reorders the records it
acknowledged. The engine serves the bytes of the generation it names, not an
older one than was committed when the request came, and refuses only with
reason; the registry keeps versions and release sequences unique and whole; the
health gate passes only what was measured and always ends; the service gives
back every slot it took.

## 2. Modules

| Module | Role |
|---|---|
| `ABDeployer` | the deployment manager, its lock and the anchor, for any number of agents |
| `ReleaseStore` | what the deployer promises: a store with a served release, a fallback and a floor, changed atomically |
| `MCDeployer` | the deployer for TLC |
| `InferenceExecutor` | the executor in thread mode, with its queue and tasks |
| `MCExecutor` | the executor for TLC |
| `ProcessRunner` | process mode: one runner, its children and the threads that use it |
| `MCRunner` | the runner for TLC |
| `OfflineSpool` | the telemetry spool, shared by processes |
| `MCSpool` | the spool for TLC |
| `EngineCache` | the engine's requests on top of `ABDeployer` (a composition) |
| `MCEngine` | engine and deployer for TLC |
| `Registry` | publication, identity checks, key revocation |
| `MCRegistry` | the registry for TLC |
| `PredictService` | the HTTP service on top of `InferenceExecutor` (a composition) |
| `MCService` | service and executor for TLC |
| `HealthGate` | the deployment's gate: agent and qualification children |
| `MCGate` | the gate for TLC |
| `ABDeployer_proof`, `EngineCache_proof` | the theorems about the deployer and its refinement of `ReleaseStore`, and about the engine on top of it |
| `InferenceExecutor_proof`, `PredictService_proof` | the theorems about the executor and the service in front of it |
| `ProcessRunner_proof`, `OfflineSpool_proof`, `Registry_proof`, `HealthGate_proof` | the theorems about these components |

A definition `X_Y` next to a definition `X` is a mutant: `X` with the named
mistake. It is used only to see that a property notices the mistake.

### ABDeployer

One action is one durable effect together with the code around it. Between two
actions the process may be killed (`Crash`), and since all mutation happens
under the exclusive lock, nothing else would be visible to another agent.

| Code | Actions |
|---|---|
| `__init__` | `Boot` (reads the anchor, without the lock) |
| `_recover` | `RecoverBegin`, `RecoverAnchorCommit`, `RecoverUnjournal`, `RecoverBackup`, `RecoverBackupsDone`, `RecoverCandidates`, `RecoverSlots`, `RecoverFinish`; `RecoverRaises` (a file operation of any of them fails) |
| `deploy` | `DeployBegin`, `Stage`, `GatePass` / `GateFail`, `Backup`, `Install`, `WriteJournal`, `AdvanceAnchor`, `Commit`, `Unjournal`, `Cleanup`, `Undo` (the exception handler) |
| `rollback` | `Rollback` |
| `active_snapshot`, `active_artifact_snapshot` | `ReadState` (its steps are in `EngineCache`) |

A directory is abstracted to what verification can tell: the complete release
of a version, `Torn` (partly copied or deleted; verification fails), or
`Absent`. Signatures, metrics and error texts are abstracted to their verdict.
`Faults` selects the calls that may raise: `"io"` a write, a rename, a recursive
copy or delete; `"restore"` the delete or the rename with which deploy's own
exception handler (`Undo`) puts the old slot back; `"anchor"` the anchor adapter
(before or after the update took effect); `"unlink"` the removal of the journal,
in a deployment and in recovery. `rmtree(..., ignore_errors=True)` goes on over
whatever it left (`RmTree`), and a rename over such a residue fails.
`"restore"` is apart from `"io"` because it is a second failure, in the handler
of the first, and what it breaks is a finding of its own (section 6).
A crash, and a recovery that raises, tear exactly the directories a recursive
operation of the current step is working on.

### InferenceExecutor

The queue's condition lock, the task lock and the counter lock are each held
for one section, so a section is a step. `_state_lock` spans several and is a
variable: an evicting caller holds it from `EnqueueEvicting` to
`CompleteEvicted`, `close()` from `Close` to `EndDrain`. Time is abstracted to
the set `due` of tasks whose deadline has passed; the caller's timer
(`TimeOut`) and the worker's test (`StalePrefix`) both need it. The timed waits
of `pop_with_expired` and `join` may end at any time. A prediction returns or
raises. `LoopCloses` lets the event loop of a cancelled call be closed while its
task still runs, which makes its callback raise.

### ProcessRunner

`pc` of a thread is its place in `start` / `load` / `execute` / `abort`; `phase`
is the exchange (hello, load, predict, close) it sends and receives for. A section of
the runner's lock is a step (`Start`, `Respawn`, `Detach`), everything that is
read outside it (`cur`, `gen`, `rid`, the socket) is read when the code reads it.

| Code | Actions |
|---|---|
| `_process_predict`, `execute` | `BeginRequest`, `Loaded`, `HandlePredict` |
| `ensure_ready` | `Probe`, then `Start` and `Load` of the `monitor` thread |
| `start` | `Start`, `Respawn` (which may fail with the restart spent), `HandleHello`; the budget is `BudgetExhausted`, `WindowSlides` |
| `load` | `Load`, `HandleLoad` |
| `_send_frame`, `_socket_send_frame` | `SendHead` (captures the channel), `SendRest`, `SendTimeout` |
| `_receive_frame`, `_socket_recv_frame` | `Await` (captures the channel), `ReadHead`, `ReadBody`, `ReadError`, `ReadTimeout` |
| `abort`, `close` | `Detach`, `Kill`; `Close`, then the steps of a send and of `abort`, `Join` |
| `_isolated_backend_main` | `ChildBoot`, `ChildReceive`, `ChildServe` (`ChildLoad`, `ChildPredict`, `ChildExit`), `ChildFinish`, `ChildCrash` |

A frame carries what the receiver checks (kind, request id, generation) and
whether its contents are the ones that were encoded. It is sent and received by
loops of `send()` and `recv_into()`, without a lock, so it travels in two
pieces, its head (the length prefix with what went out together with it) and
the rest. Two senders can put a piece of one frame into the other, two readers can
share a frame, and a deadline or a death can fall between the pieces. `Received`
says what is decoded of a head and the piece that follows it: the frame, if the
two belong together; otherwise nothing that decodes or, where the frame has a
payload, the frame with another payload (`Spoilt`). A stray body read as a
prefix is out of bounds, or is believed and swallows the next piece. The answers
of a child need no split on its side: it alone writes there, and a reader that
gets half of one sees the end of the stream next. `Faults` selects whether
backends crash, deadlines pass, a backend refuses a model, and a process cannot
be started. A deadline may pass at any time, so a late answer is one of the
interleavings.

### OfflineSpool

The file is a sequence of lines, each the event it decodes to (or `None`) and
its length; `open` says that the last one has no newline. `append` is one step
under the lock: `AppendDuplicate` (the id is there with the same content),
`AppendLine`, `AppendEvicting`, or `AppendTorn`, the write that a full disk or a
kill cuts short. `_flush` holds the lock over `FlushBegin`, one `FlushSend`,
`FlushSinkRaises` or `FlushCorrupt` per record, and `FlushEnd`, which rewrites the
file; `Crash` is a kill in between. `written`, `acked`, `glued`, `evicted` and
`delivered` record history; `glued` are the events whose append met a torn
line, the ones that are at risk (section 6). Callers retry an event until it is
delivered or evicted, not after.

### EngineCache

It extends `ABDeployer`: one process, `Server`, starts and then only reads; the
others deploy, roll back, are killed and recover through the actions of
`ABDeployer`. `_active` and `isolated_runtime_snapshot` have the same control
and differ in what they cache, so `cache` stands for either.

| Code | Actions |
|---|---|
| `_validated_array`, `prepare` | `Arrive` |
| `active_identity`: `_read` | `ReadIdentity` |
| `_validate_state_anchor` | `LookForJournal`, `CompareCached`, `ReadAnchor`, `StoreFloor`, `CompareFloor`: every access of the shared `_trusted_floor` and of the anchor is a step |
| the engine's `_lock` and its test | `LookUp` (`CacheHit`, `EngineFree`) |
| `active_snapshot`, `active_artifact_snapshot` | `TakeSnapshot`, the same anchor check again (`phase` is then `"snapshot"`), `OpenSlot` |
| assignment of the cache, return | `InstallSnapshot` |

`since`, `met` and `named` are history: what was committed when a request
arrived, which requests overlapped with it, and which version each generation
made active.

### Registry

`AddBegin` is the verification before the lock, `AddCheck` the checks with it,
`CopyToStage` the staging directory, `Publish` the second verification and the
rename, `Abort` the exception handler. `Inspect` and `AssertIdentity` are what
`deploy` asks. A source file may change at any time (`SourceChanges`), a key be
revoked (`Revoke`, seen by processes that start later), a process be killed
(`Stop`), which leaves its staging directory on disk (`litter`). A directory is
the package it was copied from and whether its model matches the manifest.

### PredictService

It extends `InferenceExecutor`; a task is a request and its caller the handler
coroutine. `Admit` and `Shed` are the limiter's first critical section (held
over the sending of a 429), `ReadBody` and `RefuseBody` the body limiter's
verdict, `Handle` the steps of `submit_async`, `Respond` the response, `Release`
the `finally` block. `Lifespan` starts the executor and closes it once; while
`close()` drains and joins, no coroutine runs (`LoopRuns`), since it is called on
the event loop's thread. The server cancels no handler.

### HealthGate

| Code | Actions |
|---|---|
| `_health_metrics` and the gate of `deploy` | `InProcess`, `Qualified`, `Verdict` (`Enforce`) |
| `qualify_model_bytes` | `InputRefused`, `Spawn`, `Receive` (the three exchanges), `BadAnswer`, `Deadline`, `Leave` (the way out of `finally`) |
| `_terminate` | `Reap` (SIGTERM), `JoinTerm` (SIGKILL), `JoinKill` |
| `_qualification_worker` | `ChildBoot`, `ChildLoad`, `ChildMeasure`, `Report`, `ChildDies` |

`Init` chooses the mode (isolated or in-process), whether there is a baseline and
how accurate both models are. `ABDeployer` has the result as `GatePass` and
`GateFail`.

## 3. Runs

| Run | Instance | Shows |
|---|---|---|
| `deployer_anchored` | 1 agent, 3 releases, anchor, `io` and `anchor` faults, kills, failing start-ups | every residue is recoverable (`AnchorRecoverable`; `Recoverable`: slots, start-up, rollback target), the anchor-first commit is eventually completed |
| `deployer_local` | 1 agent, no anchor, downgrades, `io` faults, kills | recovery restores the durable state; the floor never falls |
| `deployer_shared` | 2 agents (symmetric), 3 releases, all faults, kills | what holds however agents interleave; refinement of `ReleaseStore` |
| `deployer_stale_floor` | 2 agents, kills | expected violation of `AnchorRecoverable`, see section 6 |
| `executor_evict` | 3 requests, 2 workers, capacity 1, drop-oldest, closing event loops | no request lost, run after it was given up, completed or counted twice; `close()` is final |
| `service_live` | 3 requests, 1 worker, capacity 1, two slots, shutdown at any time, fairness | every admitted request is answered and gives its slot back, the counter is exact, the worker ends after `close()` |
| `runner_worker` | worker and `close()`, 2 generations, 2 requests, all faults, fairness | no orphan; a clean channel and the right generation between calls; results computed from the bytes that were sent; a call ends whatever the backend does |
| `runner_shared` | worker and probe, 2 generations, 2 requests, timeouts, mixing frames | a result carries the id of this request and comes from its generation |
| `spool_shared` | 2 processes, 3 events, room for two, kills, torn writes, fairness | `max_bytes` holds, cleanly acknowledged events are kept, order is kept, the spool drains |
| `engine_bind` | a server with 2 requests, 1 deploying agent that is killed, 2 releases, anchor, 3 generations | a request is bound to bytes, version and generation that belong together and are not stale; the cache never goes back; a refusal has a reason |
| `registry_publish` | 2 processes, 3 packages that compete for a version and a sequence, 2 keys, kills, failing copies | versions and sequences unique and whole, what a deployment accepted stays published, only distrust blocks a publication |
| `gate_isolated` | candidate and baseline, both modes, accuracies 0..2 | a pass is earned by measurements of both models, no child is left, the gate ends whatever the children do |

Bounds. `MaxGeneration` is the only cap in the deployer: transitions start
only below it. Four to five generations fill both slots, replace each of them
and leave room for a failed gate or a rollback in between, so a step can meet
the residue of any earlier one. Two agents are enough for each to be the one that
crashed, the one that waits and the one that goes on; they are interchangeable,
hence the symmetry set of that run, which checks no liveness. In the executor, capacity
one makes every second request overflow, three requests allow an eviction of a
request that a worker or its timer is about to take, and two workers compete
for them; the worker threads are interchangeable, hence the symmetry set in
runs that check no liveness. No counter needs a cap, since each request is
submitted once.

The runner has four caps: `MaxRequest` ids, `MaxGeneration` deployments,
`RestartLimit` of the budget (a parameter of the code) and `MaxSlides` restarts
that leave its window. Two requests let the second meet what the first left on
the socket; two generations let a load lie between two requests; one restart lets
two threads meet a fresh child; `MaxSlides` adds a second one in
`runner_worker`. Two pieces per frame are enough for every way in which another
frame's bytes can be inside, before or behind a frame's own, which is all that
`Received` tells apart. In the spool the events bound everything: sizes
2 and 3 against a limit of 5 or 6 fill the spool with two of them, so that
the third is evicting; two events share an id.

The engine takes the deployer's cap. Three generations are two commits and a
rollback or a failed gate between the reads of a request; two requests are
needed for one to store an older floor or install a snapshot around the other, and
they are interchangeable (symmetry). The registry needs no cap: each package is
rewritten and each key revoked once, each version published once; two of the three
packages share a version and two a sequence, and the keys make the third refusal
possible. The service has two slots for three requests, so that one is shed.
In the gate the accuracies 0..2 with a minimum of 1 and no drop allowed tell
"too low", "enough but a regression" and "enough" apart.

Deadlock is checked for the deployer, the engine on top of it, and the
registry. It is not for the others, which may stop: executor, service and runner
were closed and have answered everything or have used up their request ids, the
callers of the spool have no event left, the gate has its verdict.

Fairness. Deployer: a running call continues (`DeployStep`, `Recover`); an
agent that is down, refused or poisoned is started again, as the service
supervisor does and as `_anchor_recovery_required` demands; deployments
themselves are not fair. `AnchorEventuallyCommitted` assumes in addition that
kills and failing start-ups stop. Service and executor: each admitted coroutine is scheduled while
the event loop runs (weak fairness of `LoopRuns /\ Proceed(t)`), clients send
their bodies and take their responses, refusals included, threads are scheduled
and a prediction returns (`WorkerStep`), `close()` continues and its bounded
join ends. Nothing forces a request to arrive, a deadline to pass or the server
to shut down. Weak fairness suffices for the contended guard and `_state_lock`,
because each request and `close()` hold them at most once over several steps.
Gate: the agent runs and its deadline passes (weak fairness of `AgentStep`, all
of whose waits are timed); nothing is assumed of a child. Runner: the worker
thread is scheduled and its deadlines pass; nothing is assumed of the other
threads or of the children. Spool: unlimited flushes are called again and again and win the lock
(strong fairness of `FlushBegin` without a limit), a running flush continues, and the
sink does not refuse for ever (strong fairness of `FlushSend`); both are the
environment's part, without which no spool drains. `SpoolDrains` assumes in
addition that kills stop.

## 4. Proofs

Every theorem is for all values of the constants that satisfy the named
`ASSUME`s: any number of agents, requests, workers, packages, keys and
releases, every choice of faults, every bound. Each rests on an inductive invariant,
the first definitions of its `_proof` module, that TLC has also checked on the
instance of a run. "Property" is what a run checks and the theorem states.

| Module | Theorem | Property |
|---|---|---|
| `ABDeployer_proof` | `TypeCorrect`, `ActiveSlotAlwaysIntact`, `FloorsAlwaysOrdered`, `FloorMonotone`, `GenerationsIdentifyStates` | `TypeOK`, `ActiveSlotIntact`, `FloorsOrdered`, `FloorNeverDecreases`, `GenerationIdentifiesState` |
| | for one agent, with every fault: `AnchorAlwaysRecoverable` | `AnchorRecoverable` |
| | for one agent, without `"restore"`: `SlotsAlwaysRecoverable` | two of the three parts of `Recoverable` |
| | for one agent, without `"restore"` and `"unlink"`: `AlwaysRecoverable` | `Recoverable` |
| | `Implementation` | `ImplementsStore` |
| `EngineCache_proof` | `AlwaysBoundCoherently`, `CacheAlwaysAdvances`, `RefusalAlwaysExplained` | `BoundCoherently`, `CacheAdvances`, `RefusalExplained` |
| | `NeverOlderThanArrival` | the state's half of `NeverStale`, for any number of agents |
| | for one agent next to the server: `NeverAnsweredStale` | `NeverStale` |
| | `DeploymentSafe` | the deployer's state properties, next to a server |
| `InferenceExecutor_proof` | `TypeCorrect`, `RefusedNeverRuns`, `NoRequestEverLost`, `CloseAlwaysFinal`, `CompletedAtMostOnce`, `CountedAtMostOnce` | `TypeOK`, `RefusedNeverRun`, `NoRequestLost`, `CloseIsFinal`, `CompletedOnce`, `CountedOnce` |
| `PredictService_proof` | `SlotsAlwaysExact` | `SlotsExact` |
| | `ServiceRefinesExecutor`, `ServiceKeepsPromises` | the service is a use of the executor, whose properties carry over |
| `ProcessRunner_proof` | `TypeCorrect`, `NoOrphanEver`, `ResultAlwaysBound` | `TypeOK`, `NoOrphan`, `ResultBound` |
| | without a probe thread: `BackendReadyWhenIdle`, `ResultAlwaysIntact` | `IdleBackendReady`, `ResultIntact` |
| `OfflineSpool_proof` | `SpoolAlwaysBounded`, `CleanlyAlwaysKept`, `AlwaysDeliveredInOrder` | `SpoolBounded`, `CleanlyKept`, `DeliveredInOrder` |
| `Registry_proof` | `SequencesAlwaysUnique`, `PublishedAlwaysIntact`, `AcceptedStaysForever`, `AlwaysBlockedOnlyByTrust` | `SequencesUnique`, `PublishedIntact`, `AcceptedForever`, `BlockedOnlyByTrust` |
| | `PublishedImmutable` | no step changes a published directory |
| `HealthGate_proof` | `PassAlwaysEarned`, `NoChildEverLeft` | `PassEarned`, `NoChildLeft` |

Assumptions. Most of them say that the model's sentinels (`None`, `Free`, `Torn`)
are not releases, processes or requests, and that bounds are numbers. Five have content:

* release sequences are unique (`VersionAssumption` of `ABDeployer`). This is what
  `Registry.add` and `assert_release_sequence_identity` enforce, and what
  `SequencesAlwaysUnique` and `AcceptedStaysForever` prove of them;
* the server of `EngineCache` is not one of the agents that are killed
  (`ServerAssumption`): its own start-up is the deployer's matter;
* tasks and workers are finitely many (they are counted), and the capacity is
  not zero (`runtime.py` rejects zero);
* the threads of a runner are one worker, at most one probe and at most one
  `close()`, as `BoundedInferenceExecutor` creates them;
* a record is at least two bytes long, its text and its newline (`SizeAssumption`
  of `OfflineSpool`).

*Deployer.* The inductive invariant `IInv` is
`TypeOK /\ LockInv /\ TransactionInv /\ CacheInv /\ Safe`.
`Safe` is the conjunction of the state properties to be proved; it is not
inductive, because a commit writes a state computed from local variables.
`LockInv` says that an agent inside a call holds the lock (a reader may hold it
too), so there is one at a time. `TransactionInv` ties that agent's locals to
the disk: its copy of the state is the durable one, its target is not the active
slot, from the installation to the commit the target holds the release, and
after the anchor advanced the anchor is at least its sequence. `CacheInv` bounds
what the agents remember of the anchor by the anchor itself. The refinement
needs `JournalInv` in addition: a journal that follows the present generation
never names the active slot, so completing it from recovery is an `Activate` of the
store and leaves the bytes of the former active slot as the fallback.

*Recovery.* These theorems assume one agent (`Proc = {a}`), because with two the
properties are false (section 6). `AloneInv` says that whenever the anchor is ahead, the
journal on disk is the one of that advance, its target is whole, and the agent
either is about to commit it, has stopped trusting itself, or is down or
recovering. `DiskInv` says, for every point of a call and of recovery, which
slots are as the state names them, which are only in the backup, and which a
recursive delete may have torn or left where it was; `PoisonInv` ties it to
`_anchor_recovery_required`. `StartInv` says what start-up can meet: a journal that
exists follows the state or describes exactly its last commit, so
`_recover_anchor_commit` always finds a case. Two faults are excluded, each
because the theorem is false with it, as a configuration of section 6 shows. `SlotsAlwaysRecoverable`
needs `"restore" \notin Faults`: an agent whose handler could not move the backup
back goes on with a rollback target that is only in the backup, and deletes that
(`deployer_undo`). `AlwaysRecoverable` needs `"unlink" \notin Faults` too: a
journal that cannot be removed survives into later generations
(`deployer_unlink`). All other failures are allowed: kills, writes,
renames, incomplete deletes, the anchor, and a recovery that raises at any of its
steps.

*Engine.* `EngineCache_proof` extends the deployer's proof: every step of a
request is shown to preserve `IInv`, then the engine's lock orders the refreshes
of the cache (`HoldInv`, `CoherenceInv`), and what a request has read lies
between its arrival and now (`ReadInv`). For `RefusalExplained`, `VerdictInv`
follows the floor that threads share without a lock: when a request compares,
the floor is the one it read, or one that some request under way at the same time has
read back from the anchor after it read the state.
For the anchor's half of `NeverStale`, `AgentInv` carries `AloneInv` over to an
agent next to a server that came up before it: while the anchor is ahead, the
journal is on disk, so a request that meets the older state reads the anchor
again. `AnchorInv` follows that value: a request past its check has found a
state that caught up with the anchor of its arrival (`Caught`), or was under way with
a request older than that anchor; when it compares, the shared floor may stand
in for the state. With a second agent the journal may be deleted while the
anchor is ahead, and the property is false (section 6).

*Executor.* The argument is about where a task is: queued once, leaving in the
hands of whoever evicts, drains or expires it, held by one worker, or nowhere
(`PlaceInv`). `WaitInv` says that a caller waits only for a task that is
somewhere, `ReplyInv` that an answer "did not run" is final. `CountedOnce` is
proved by shifting the cardinality of the sets of counted and of entered
tasks with each action. The queue's operations are handled by lemmas
about sequences; where the stale prefix of the queue needs a least index,
`LeastExists` takes it from `WFMin` (well-founded minimum) in place of an
induction. The service's steps are steps of the executor or leave it
alone, so every theorem holds of it; its own invariant counts the slots.

*Runner.* A frame about a request is about one that was made, and one about the
current request names the generation of its snapshot, wherever the frame or a piece
of it is, and whatever payload it is given on the way (`FrameInv`). That is the
closure of a set of frames: a step moves pieces, makes a frame that is in the
set, or replaces a payload, and payloads do not count (`FramesNext`, which
serves the types as well). A running child computes with the generation its
predict frame names (`RunInv`), so a result that is accepted by its id comes
from the right generation, with the probe's frames mixed in too; more is
not true then (`runner_mixed`). A child that is spawned is counted by the restart
budget (`BudgetInv`). For a worker without a probe, `TurnInv` follows the two
pieces of its one frame to the child and those of the answer back, as long as
`close()` has not begun (`Alone`): before a send nothing is on the socket, after
the head at most that head, a half-sent or half-read frame ends in an abort. Hence
nothing is left between calls, and every frame that is read is whole (`Intact`).
With a probe thread both are false (section 6), which is why
`BackendReadyWhenIdle` and `ResultAlwaysIntact` exclude it.

*Spool.* `SpoolBounded` alone is not inductive: the rewrite of a flush gives a
torn line the newline it lacks. `RoomInv` says that there is room for it.
`CleanlyKept` needs `TornInv` (a torn line, which the next append joins to its
own and thereby loses, is not the only copy of an event that was acknowledged
cleanly) and `FlushInv` (what a flush has passed, and its rewrite drops, was
delivered or does not decode). `OrderInv` says that file and deliveries are each
in the order of the last writes, and that what was delivered was written before
what is still to be delivered; `WrittenInv` that neither holds anything else.
The length of the file is a recursive function over its lines (`Total`). That it
is a number, grows with each line by that line's length and does not grow when
lines are dropped is shown by minimal counterexample, from `LeastExists`, in
place of an induction.

*Registry.* What `add` checked under the lock still holds when it renames
(`CheckedInv`), since only a rename changes what is published. *Gate.* A measurement
can be traced through frame and child to the model that was loaded
(`MeasuredInv`), and the comparison comes after every measurement it needs
(`OrderInv`).

Only model-checked: liveness (`AnchorEventuallyCommitted`, `SlotsReturned`,
`WorkersStop`, `BackendContained`, `GateReturns`, `SpoolDrains`), which is
outside the prover's reach. Every other property of a passing run is stated by a
theorem above. Three of them (`AnchorRecoverable`, `Recoverable`, `NeverStale`)
are proved for one agent, `Recoverable` without two of the faults, and
`IdleBackendReady` and `ResultIntact` without a probe thread, since
they are false otherwise.

## 5. Plan

1. Power loss for the deployer: a synced and a visible copy of each directory.
2. An abstract specification of the spool (at-least-once delivery) and of the
   executor (each request answered once), refined by the modules here.
3. The executor composed with the process runner (process mode).

## 6. Where code and documents disagree

* `deployer_stale_floor`: the constructor reads the anchor before it waits for
  the lock. With two agents, one of which is killed after it advanced the
  anchor, the other deletes the journal it should have completed (REQ-026).
  A server that starts next to a dying deployer does the same and then, with
  the old floor cached and the journal gone, serves below the anchor.

Eight configurations are kept beside the runs because TLC refutes what they
check; each is a question the code answers with "no".

* `deployer_undo` (`ReleasesKept`): a commit fails, and the rename with which
  the handler puts the old slot back fails too (`deploy.py:689`). The agent is not poisoned and
  has its rollback target only in the backup; its next deployment deletes that
  first (`deploy.py:635`). From then until that deployment commits, the release
  `state.json` names as previous exists nowhere, and a kill makes start-up refuse
  the root. ARCHITECTURE.md says that recovery restores pre-commit backups. One
  agent and no kill are enough for the loss. What is served is not affected
  (`ActiveSlotIntact`, `ImplementsStore` hold with this fault, in
  `deployer_shared` and by proof).
* `deployer_unlink` (`StartupNeverRefused`): an agent commits, cannot remove
  the journal (`deploy.py:677`), and goes on; a later failed gate moves the generation past
  that journal, and the next start refuses it (`deploy.py:328`) where ADR 0005
  wants it removed. The slots and the rollback target are intact then
  (`SlotsAlwaysRecoverable`), but the agent does not come back by itself.
* `runner_mixed` (`ResultFaithful`): the probe's load frame gets between two
  `send()` calls of the worker's predict frame. The child reads the first bytes of the probe's frame as
  inputs, answers with the right id and generation, and `execute` returns logits
  for inputs nobody sent. It takes a predict frame that does not fit into the socket
  buffer in one call and inserted bytes that decode as numbers; what follows on the
  socket is garbage, which ends the child. The docstring of `ensure_ready` says
  that it does not interrupt a running request (`runtime.py:1131`).
* `executor_lost_worker` (`WorkersAvailable`): a callback on a closed event loop
  ends a worker thread (`runtime.py:1124`); `ensure_ready`, "Ensure executor
  workers are available" (`runtime.py:1129`), does not notice.
* `runner_probe` (`ProbeHarmless`): the readiness probe loads a model over the
  socket on which a request is waiting and makes it fail; the docstring of
  `ensure_ready` says that it does not interrupt a running request.
* `spool_glued` (`AcknowledgedKept`): a record appended after a write that was
  cut short is lost with it, although `append` returned `True` (REQ-013).
* `engine_gate` (`GateKeepsServing`): a request that misses the cache waits for
  the deployment lock, with the engine's lock held, while the holder runs the
  health gate (`engine.py:87`, `deploy.py:721`); the comment in `state()`
  (`deploy.py:552-554`) wants inference available during that phase. The
  cache is stale after every commit and every failed gate, so a deployment
  that follows soon after another meets such a request.
* `engine_stale_floor` (`AnchorRespected`): REQ-025 wants a read to fail closed
  while the anchor is ahead of the state. Two late requests that still hold
  the old anchor value store it, one before and one after a third request's
  own store (`deploy.py:187-190`); the third finds its comparison satisfied and is
  bound to the old release although the anchor was ahead when it arrived. The run
  `engine_bind` therefore checks `NeverStale`, which promises the anchor's part
  only when no request older than that anchor is under way.

The same modules answer more questions with "no" on variations of the runs:

* `StartupNeverRefused` with the constants of `deployer_stale_floor`: an agent
  that read the anchor before a peer's commit refuses the state it then finds
  (`deploy.py:304`); and a peer's failed gate moves the generation past an
  abandoned journal, which start-up refuses instead of discarding (ADR 0005,
  `deploy.py:328`).
* `SlotsRecoverable` with two agents and no anchor: a live peer backs up the
  uncommitted slot of a killed agent; if it is killed too, recovery refuses the
  backup (`deploy.py:635`).
* `NeverStale` with the constants of `engine_bind` and a second agent: an agent
  is killed after it advanced the anchor, the other one, which had read the anchor
  before, deletes its journal, and a server whose cached floor is the old one is
  satisfied with it (`deploy.py:187-190`) and answers below the anchor.
* `GenerationOwned` with the threads worker and monitor and the faults crash and
  timeout: `load` records the generation of a child that was replaced meanwhile
  on its successor (`runtime.py:743`).
* `ResultFaithful` with the threads worker and closer: the close frame can get
  into a predict frame the same way (`runtime.py:817`), so `ResultIntact` is about
  results returned before `close()`.
* "No child is alive once `close()` returned", with the threads worker and closer
  and no faults: a worker that began before `close()` respawns the backend
  (`runtime.py:567`).
* `RefusalExplained` with only `r` itself in its last disjunct: a thread
  that read the anchor before a commit may store that value between another
  thread's store and its comparison (`deploy.py:189-190`). A request on a
  settled device is then refused once; the next one reads the anchor again.
* `BlockedOnlyByTrust` says when `add` refuses an unverifiable registry. After
  the key of one published entry is revoked it refuses every package, also
  those signed by a new key, and `deploy` refuses every version, until the old
  entry is removed by hand (`registry.py:139`); the threat model describes
  rotation as "new-key acceptance and old-key rejection".
* `SlotsReturned` without fairness for refused clients: the limiter sends its
  429 with the guard held (`service.py:88`), so a client that does not take it
  keeps every finishing request from releasing its slot.

When `process.start()` fails, the `finally` block of `qualify_model_bytes` calls
`_terminate` on a process that never started, and the assertion of
`multiprocessing` replaces the original exception; the gate is refused either
way, which is what `Spawn` models.

The deployer's cases other than `deployer_undo` and `deployer_unlink` need two
agents on one root, which ADR 0004 provides for.

## 7. Not modelled

* Cryptography, manifest fields, numerics, datasets and tooling (see the
  component list of `PROJECT.json`): no protocol, or out of TLC's reach.
* Actors that ignore the locks or tamper with files.
* Power loss (section 5): a crash kills a process and keeps the file system.
* Frame lengths, resource limits and metrics of the child processes: a limit is
  one of the reasons for which a child dies. Of the bytes of a mixed frame only
  whether they decode.
* Authentication, settings and status codes of the service; `/metrics`.
* A server that starts while another agent deploys: in `EngineCache` the server
  starts first (start-up is `ABDeployer`'s matter, section 6). The shared mode of the
  deployment lock has one holder there, since the engine's own lock admits one
  request at a time; `ReadState` of `ABDeployer` ends in one step.

## 8. Running

In this directory: `tlc -config deployer_shared.cfg MCDeployer` and likewise
for the other configurations (`MCExecutor` for `executor_*`, `MCService` for
`service_*`, `MCRunner` for `runner_*`, `MCSpool` for `spool_*`, `MCEngine` for
`engine_*`, `MCRegistry` for `registry_*`, `MCGate` for `gate_*`);
`tlapm ABDeployer_proof.tla` and likewise for the other `*_proof` modules, each
of which takes from a few seconds to a few minutes from nothing.
