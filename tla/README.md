# Verification of rust-model-inference

TLA+ models of the concurrent and stateful parts of this inference engine, the
TLC configurations that check them, and TLAPS proofs about them.  Paths below
are relative to the repository's checkout in `src/`; `src/core/thread_pool.rs`
is the file `src/src/core/thread_pool.rs` of `PROJECT.json`.

## The system

A single binary loads a model (GGUF or the project's own GGUFRS packages),
plans where its tensors live, and runs it on CPU threads or a Vulkan device,
from the command line or behind an HTTP server.

| Part | State it keeps | Operations | What is hard, and what must hold |
|---|---|---|---|
| **ComputePool** `core/thread_pool.rs` | shared atomics `call_fn`, `call_data`, `n_complete`, `epoch`, `shutdown`, `chunk_counter`; `park` mutex and condvar, `parked`; each worker's `my_epoch` | `new`, `compute`, `compute_with_chunks`, `drop`, `worker_loop` | Hand-made epoch protocol between the caller and `n - 1` workers that spin, yield, park. No closure is used after its box is freed, every index runs once, no wake-up is lost, every call returns, a drop leaves no thread. |
| **HTTP generation path** `app/server/api.rs`, `app/server/mod.rs` | one generation permit, a response store bounded in records, bytes and age, a cancellation flag per request, a worker thread with a bounded channel to the client | create, get and delete a response; stream; disconnect | The permit is given back on every way out (answer, error, disconnect, panic); a stored response is one its client was told of; eviction, expiry and deletion race with a continuation. |
| **Streaming text filters** `app/server/api/stop.rs`, `think.rs` | the tail of the text not yet decided | push a piece, finish | What is emitted must not depend on how the text was cut into pieces; no part of a stop string or of reasoning may leak, no text may be lost. |
| **Response protocol** `app/server/api/protocol.rs`, `tools.rs` | the encoder's sequence number and open items; the parser's phase | events of a streamed response, tool calls found in text | Event grammar: every item opened is closed once, numbers are consecutive, the last event matches the stored response. |
| **Vulkan submission** `vulkan.rs`, `ops/float.rs` | command buffer and fence state, generation counters, weight cache keyed by address, buffers to destroy | begin, submit, wait, recover, shutdown | No buffer is reused or destroyed while the device reads it; a failed submission leaves a usable context or a broken flag. |
| **Token commit and KV state** `compute/state.rs`, `core/scratchpad.rs`, `core/prefill.rs` | the KV cache, its length, the tokens committed | chunked prefill on the device with recomputation on the CPU | A chunk that failed on the device leaves no half-written position behind the committed length. |
| **GGUFRS packages** `format/ggufrs.rs` | a pending temporary file, the published name, the index | plan, write, publish by hard link, open, load | A crash at any point leaves either no package or a whole one; two exporters never overwrite each other. |
| **Load plan** `format/load_plan.rs` | the plan's entries, the bytes a logical load holds | build, validate, load, release | A plan that validates covers every tensor once; releasing never frees twice. |
| Loaders, tokenizers, prompt templates, models, kernels, shaders, front ends | none shared between requests, apart from what is above | parse, encode, render, multiply | Sequential or numeric: left to tests. |

How they meet: a request takes the generation permit and starts a worker
thread, which renders the prompt, calls a model, and sends pieces of text
through the filters and the encoder to the client.  The model calls
`ComputePool::compute` for each operator (thousands of times a token) or
submits a Vulkan command buffer and waits; prefill goes chunk by chunk and
commits each to the KV cache.  Backends that keep one pool for all requests
serialise them with a mutex of their own (the text runtimes, Audio8); the CLM
scoring backend does not.

## Modules

| Component | Modules | Abstract specification | Proofs |
|---|---|---|---|
| ComputePool | `ComputePool` | `ForkJoin` | `ComputePoolProofs` |
| HTTP generation path | `ResponsesStore`, and `GenerationServer`, which extends it | `SingleSlot` | `ResponsesStoreProofs`, `GenerationServerProofs` |
| Streaming text filters, response protocol | `TextFilters`, and `ResponseStream`, which extends it | (the whole text, and the result of the request) | `TextFiltersProofs`, `ResponseStreamProofs` |
| Vulkan submission; products on a pool | `CommandStream`, and `DeviceMatmul`, which extends it | (`CommandStream`, for the pool's use of it) | `DeviceMatmulProofs` |
| GGUFRS export | `PackagePublish` | `AtomicPublish` | `PackagePublishProofs` |

Each has an `MC` module with the definitions its configurations need.
`NatRecursion` has what the proofs about sequences rest on.  The library's
induction theorems take an operator, which the provers cannot instantiate; there
induction is stated for *sets* of numbers, from the least element of a set, and
recursion for functions (`Recursion`: the iterates of a function of steps exist).
So the loops of the store, the encoder and the parser are recursive functions in
the models, and each is unfolded by a lemma before anything is proved about it
(`RunningDef`, `RetainDef`, `HeardIs`, `DeltedIs`).  The
models meet at three places: the closures of `DeviceMatmul` are what one call of
`ComputePool` runs (`Joined` is its join); the outcome a worker of
`GenerationServer` tells is the stream `ResponseStream` spells out; and the
response both store is a record of `ResponsesStore`.

Open: the commit of a prefilled chunk and the load plan, which are sequential.

## ComputePool

`ComputePool.tla` models a pool of `NThreads >= 2` (a pool of one calls the
closure inline and keeps no state).  Each atomic access another thread can
observe is a step of its own.

| Code | Model |
|---|---|
| `struct Inner` | `callFn`, `callData`, `nComplete`, `epoch`, `shutdown`, `chunkCounter`; `parkLock` (the mutex's holder), `parked` |
| `worker_loop` | `wpc[w]` with one action per access: `SeeEpoch`, `Idle` (spin, yield or park), `AnnouncePark` .. `Resume` (the parking path and both ways out), `AdoptEpoch`, `Gate`, `FetchFn`, `FetchData`, `RunWorker`, `Acknowledge` |
| `compute_dispatch` | `Begin`, `AwaitIdle`, `ResetComplete`, `StoreFn`, `StoreData`, `Publish`, `PeekParked`, `WakeParked`, `RunShare`, `CountSelf`, `Join`, `FreeClosure` |
| `compute_with_chunks` | the same with `SpawnPullers`, `ClearCall`, `AwaitAcks`, `PassBarrier`, `FetchChunk`, `RunChunk`, `OwnChunksDone`, `ClearAfter`, `JoinPullers` |
| `drop` | `Begin`, `AwaitIdle`, `ResetComplete`, `RaiseShutdown`, `Publish`, the wake-up, `JoinWorkers` |
| a closure | its call's number: `wFn` is whose code a worker runs, `wData` whose captures; `live` the calls whose captures exist; `applied` how often each index has been run |
| a panic | `RunWorker`, `RunShare` and `RunChunk` may end in `dead` or `unwound` when `Panics` allows it |

Abstractions.  The bounded spinning and the clock of the idle loop are a free
choice between looking again and parking.  The stores between the two fences of
a publication (`call_fn`, `call_data`, counters) are seen in order by a worker
that acquires the new epoch, so they are plain steps; the GPU flag published
with them travels with `call_data`.  The one load ordered with nothing, of
`parked` in `wake_parked`, may miss increments when `StaleParked` is TRUE.
`Condvar::wait_timeout` releases the lock and sleeps in one step, and may end at
any time.  The barrier of a chunked call releases its threads in one step.  A
call made from inside a closure is not modelled (it waits for itself).

`ForkJoin.tla` is what a caller relies on: a call opens with a set of items,
each is applied once while it is open, and it closes when all were.
`ImplementsForkJoin` checks that `ComputePool` refines it, with `open` the calls
whose callers are inside and `wanted` the thread indices (`compute`) or chunk
numbers (`compute_with_chunks`).

### Runs

* **pool_safety** (pass): 3 participants, 2 callers behind a lock of their own,
  3 calls of any kind (the last may be the drop), 3 chunks, an epoch that wraps
  after one call, panics in all three places.  With three participants a worker
  can be a whole call behind another; three calls let a closure be freed, a
  second call published and a third begin while a worker is still on its way
  out of the first; the wrap at 1 makes every second epoch equal to an old one,
  the worst case of the u32.  Checked: `TypeOK`, `ParkedIsExact`,
  `ClosureAlive`, `ItemsRunOnce`, `NoSleepThroughEpoch`,
  `CallStableWhileEngaged`, `ImplementsForkJoin`.  The two callers are symmetric
  (they appear in no constant but their set).
* **pool_liveness** (pass): 2 calls of one caller, and the stale view of
  `parked` allowed: `EveryCallReturns`, `WorkersLeave`.
* **pool_shared** (violation): two callers without a lock.  `ClosureAlive` fails
  in a few steps: the second caller stores its function between the first one's
  store and its publication.  That is how the CLM scoring requests use the pool.
* **pool_lost_wakeup** (violation): with `StaleParked` the comment on
  `wake_parked` does not hold; `pool_liveness` shows the cost is one
  `PARK_TIMEOUT`, not a hang.

Deadlock is not checked in any of them: a pool whose calls are used up has
stopped, and so has one whose worker panicked, whose caller spins for ever.

Fairness (`FairSpec`): every thread runs (weak fairness of each worker, caller
and puller).  Strong fairness only for taking the parking lock: the lock is held
for two loads or one `notify_all`, and each worker takes it at most once in
20 ms, so a thread asking for it gets it although it is taken again and again by
others.  Starting a call and panicking are never forced, and `PARK_TIMEOUT`
elapses (part of the worker's own fairness).

### Proofs

`ComputePoolProofs.tla`, for every number of threads, callers, calls, chunks and
epochs (`ConstantsOK` is the only assumption):

* `TypeCorrect`: the type invariant.  It needs `Phases`, which says which
  operation a caller at each program point is running.
* `ParkedExact`: `parked` is the number of workers in the parking path, from a
  case analysis of what a step does to that set (`ParkingStep`).
* `Serialised`: when `Exclusive` holds, `TypeInv /\ IInv` is invariant.  `IInv`
  is the argument of the protocol: one caller inside (`OneInside`); `n_complete`
  is the number of workers that have acknowledged the *current* epoch, plus the
  caller once it has counted itself (`Counting`); the shutdown flag is up only
  inside a drop (`ShutdownPhase`); and the atomics hold the current call
  (`Published`).  Neither `ClosureAlive` nor `CallStableWhileEngaged` is
  inductive alone: both need that a worker which has not acknowledged keeps the
  caller between its publication and its join, the lemma `RunningWhileUnacked`,
  which is read off `Counting`.
* `ClosureSafe` and `CallStable`: the two properties, from `Serialised`.

* `NoLostWakeup`: `NoSleepThroughEpoch`, from an exact count (`ParkedExact`) and
  the lock (`LockHeld`): a worker that looked at the epoch under the lock and
  is going to sleep was counted before, so a caller that reads the count fresh
  goes on to take the lock, and finds it asleep.  It needs `~StaleParked`, which
  is what `pool_lost_wakeup` refutes without it, and no `Exclusive`.

The rest of the module follows each index to its application.  `ItemsInv` says,
of the one call that is running: before the publication nothing is applied;
after it a thread's index is applied exactly if that worker has acknowledged the
current epoch, is about to, or died in the closure (`ComputeItems`); a chunk is
applied exactly if it is below the counter and in no puller's hands, and no two
pullers hold the same one (`ChunkItems`).  `ItemsRunOnce` alone is not inductive:
it does not say why a worker that runs again belongs to another call.  The step
that needs the whole protocol is `Publish`: every worker has acknowledged the
old epoch, hence none the new one, wherever the counter wraps.

* `ItemsOnce` (`ItemsRunOnce`) and `PoolImplementsForkJoin`
  (`ImplementsForkJoin`): every step opens a call with a set of indices nobody
  has used, applies a wanted index for the first time, closes a call that is
  complete (`ItemsDone`), or leaves fork-join where it is.

The assumption `Exclusive` is what the callers have to provide; `pool_shared`
shows it is needed.

Only model-checked: the two liveness properties, which the prover cannot do.

## ResponsesStore

`ResponsesStore.tla` is `struct ResponsesStore` of `app/server/api.rs`:
`records` (oldest first), the running total `bytes`, and a clock `now`.  Each
operation runs under the store's mutex and is one step.

| Code | Model |
|---|---|
| `prune` | `Unexpired`, `Prune` |
| `insert` | `Accepts` (the refusal comes before any pruning), then `StoreInsert`: prune (`Unexpired`, by `Retain`), drop the older record of the id (`Without`, `Freed`), pop records by the running total (`Pops`), append |
| `get`, `remove` | `Holds` and `Messages` after `Prune`; `StoreRemove` |

A record's value is left out and its history is the sequence of turns it is made
of; its size is one of `Sizes`.  `Pops` is how often the loop of `pop_front` runs:
it goes by the *running* total, so a total that had drifted would show in it.

* **store_ops** (pass): four ids, sizes 1, 2, 3 and 7 against a budget of 6 bytes
  and 3 records, so that a record may be refused, evict one or several others by
  bytes, or evict one by number; a time to live of 2 in 5 ticks, so that records
  expire while others live.  `StoreTypeOK`, `StoreConsistent` (the running total
  is the true one, both bounds hold, ids are distinct, the oldest expires
  first), `EvictsOnlyWhatItMust`.

`ResponsesStoreProofs.tla` proves all three for every set of ids and sizes, every
budget and time to live (`StoreIsConsistent`, `StoreTypes`, `EvictsLittle`).  The
invariant `StoreInv` adds to `StoreConsistent` that no record expires later than
one stored now would: without it an insertion could put a record behind one that
outlives it.  The lemmas say what each loop does to a sequence in order:
`Retain` and `RemoveAt` keep distinct ids and the order of expiry, the running
totals grow with each record, and a removal takes exactly the removed record's
bytes from the total.  From these `bytes` stays `Total(records)` although
`insert` never adds the records up again, and `Pops` finds a place to stop: with
every record gone the total is 0, and `Accepts` has compared the size.  That the
true total is what `Pops` subtracts from is also why it pops no more than it must.

## GenerationServer

`GenerationServer.tla` extends the store with the requests that use it.  A
request has a handler (`hpc`), an async function that is dropped where it waits
when its client leaves, and a worker (`wpc`), a blocking task that nobody drops.

| Code | Model |
|---|---|
| `AppState.generation_slot` | `permits`, and `holding[r]`: who owns the permit of `r` |
| the runtime's mutex in `generate` | `lock`, `poisoned` |
| `CancellationGuard`, `tx.is_closed()` | `cancelled`, `rxOpen`; `Stopped` |
| the channel of a streamed answer | `chan`, `rxOpen`, `txOpen`; `Send` waits for room, `SendFails` when the receiver is gone |
| `resolve` | `Resolve`, with `CheckHistory`: the history is copied from the store before the permit is asked for |
| `handle` | `Acquire`, `Refuse` (429), `PromptFails`, `Spawn`, `Reply`; a client reads with `Receive`, `EndOfStream` |
| the handler dropped by the runtime | `Disconnect`, at each of its awaits and while a stream is read |
| `generate` | `Generate` (first look at the client), `LockRuntime`, `NextToken`, `EmitPiece`, `AfterTokens`, `Flush`, `Panic` |
| `store_response`, `send` of the last events | `Finish`, `Fail`, `Tell` |
| end of the closure | `WorkerEnds`: `_permit` is a local and goes first, the captured sender after it |
| AuK, Hy-SimulMT, WeVisOne prediction | a request of kind `job`: `ArriveJob`, `AcquireJob`, `RunJob` |
| JEV scoring | kind `jev`: `ArriveJev`, `ScoreJev`; it runs in the handler, without the permit |
| `GET`, `DELETE /v1/responses/{id}`, time | `OtherStoreUse` |

Abstractions.  An event is one of `start`, `delta`, `done`, `failed`: several
deltas sent for one token are one, and the last events of a stream are the one
that carries its outcome.  A token yields text or ends the loop by a free choice
(the filters, the parser and the sampler decide it in the code).  Requests that
are refused while they are parsed never start.  The store's mutex is not
poisoned: nothing that is run under it panics.

`SingleSlot.tla` is the promise to clients: at most one request is served, a
response is kept only while its request is served, and an outcome is told once,
"done" only after a response that is to be kept was.  `ImplementsSingleSlot`
maps `serving` to the owner of the permit, `kept` to the responses that have
entered the store and `told` to what each client has read or been answered.

### Runs

* **server_safety** (pass): two requests, each of six kinds (streamed or plain,
  kept or not, continuing from the other's response or not; a job; a scoring),
  two pieces of text, a channel of one place (so that every send may find it
  full; 32 in the code), a store of one record (so that the second response
  evicts the first), one tick to expire it, and panics.  With two requests every
  pair of parts interleaves: handler and worker of one request, two handlers for
  the permit, a worker whose client has left and the next request.  The requests
  are interchangeable.  Checked: `TypeOK`, `OneGeneration`, `ToldMatchesStore`,
  `StreamEndsInOutcome`, `AnsweredMeansFree`, `ImplementsSingleSlot`.
* **server_liveness** (pass): the same with kept generations and jobs and one
  piece of text: `AbandonedNotStored`, `PermitReturns`, `RequestsSettle`.
* **server_jev** (violation): a scoring request beside a generation, against the
  comment in `app/server/prediction.rs:88` that the JEV routes take the slot:
  `OneModelUser` fails.  Text backends build a pool per scoring request, so there
  it is the model, the device and the memory that are shared; the CLM backend
  shares its pool too, which is the run `pool_shared`.

Deadlock is not checked: requests are finite in number, and all may be settled.

Fairness (`FairSpec`): weak fairness of each handler that has begun and of each
worker (the async runtime polls what is ready, a blocking task has a thread of
its own, and at most one of them contends for the mutex).  It includes
`Receive`: a client reads what it is sent, or leaves.  A client that keeps its
connection and never reads would hold the slot for ever, for the code has no
timeout on a blocked send.  Arriving, leaving and using the store are never
forced; panicking and failing are choices inside a worker's step.

### Proofs

`GenerationServerProofs.tla`, for every number of requests, every mix of wishes,
every channel capacity and any store:

* `PermitInvariant`: `PermitInv` is inductive.  Its core is `Stage`: who owns the
  permit is determined by where the two parts of a request are (`handler` exactly
  at the prompt, `worker` from the spawn to the end of the closure).  `Conserved`
  alone is not inductive: a release could add a second permit if the releasing
  worker did not own one, which `Stage` excludes.  `Stage` also says that a
  stream whose sender is gone has an exited worker, which is what `EndOfStream`
  needs.  `Locked` ties the runtime's mutex to the worker inside it.
* `PermitConserved` (`OneGeneration`) and `AnswerFrees` (`AnsweredMeansFree`)
  follow.  The only assumption used is that the value `Free` names no request.

The second part of the module follows the outcome of a request.  `OutcomeInv` says, request by request: which
kinds of request can be where (`Kinds`); that the worker decides once, and that a
response is in the store exactly if it was to be kept and its worker says "done"
(`Decided`); that the outcome is the last event in the channel and the last one
read, and that a client still connected after the worker decided has it before
it (`Sent`); that an answer is given only when the worker is gone, and is its
outcome (`Answered`).  `PermitInv` is needed beside it: `Stage` says that a worker
exists only after its handler has handed over.

* `ToldIsStored` (`ToldMatchesStore`) and `StreamTellsOutcome`
  (`StreamEndsInOutcome`) are read off it.
* `ServerImplementsSlot` (`ImplementsSingleSlot`): in the abstract every step of a
  request leaves the others alone (`Apart`) and is one of six for its own:
  admitted, turned away, stored, told, released, or none of these
  (`AbstractStep`).  One lemma turns those into steps of `SingleSlot`, one lemma
  for each part shows that its steps are among them.
* `AbandonedLeavesNoTrace` (`AbandonedNotStored`): a client that leaves sets what
  its worker looks at (`LeavingInv`); a worker that is still to look before it
  stores is doomed, and stays so (`Doomed`, `DoomedStep`).

The third is the store as the requests use it.  `ServerTypes` (`TypeOK`) and
`ServerStoreConsistent` (`StoreConsistent`) take the lemmas of
`ResponsesStoreProofs` about one insertion, removal or pruning, with the ids and
histories the requests have: a history is a sequence of requests because it was
copied from a record, or is empty.

Only model-checked: `PermitReturns` and `RequestsSettle` (liveness).

## PackagePublish

`PackagePublish.tla` is `export_ggufrs` and `struct PendingOutput` of
`format/ggufrs.rs`, for any number of runs in one directory.  Files are inodes: a
run makes one, named like the run, and names lead to inodes.

| Code | Model |
|---|---|
| the output's name | `out`, what it leads to now; `kept`, what it may lead to after a power loss (the directory is not durable until it is synced) |
| temporary names `.ggufrs-{pid}-{id}.tmp`, `PENDING_OUTPUT_ID` | `temp`, `TempName(e)`, `id` |
| the file's bytes, `sync_all` | `data` (`none`, `partial`, `mismatch`, `package`), `durable` |
| `export_ggufrs` to `PendingOutput::create` | `OutputCheck`, `FailsEarly`, `OpenTemp` |
| writing, `sync`, `verify` | `WritePackage`, `SyncFile`, `Verify` |
| `publish` | `Rename`, or `HardLink` / `LosesRace` and `Unlink`; then `SyncDir` |
| any `?` on the way | `Fails`, which leads to `Drop` |
| `impl Drop` | `Drop`, the look at the name, and `Remove`, the removal by name |
| `SIGKILL`, another program's file, power loss | `Kill`, `Replace`, `PowerLoss` |

Abstractions.  The two looks at the output, before the sources are read and in
`create`, are one: what appears between them the link finds.  A package is what
the reader's checks tell apart: partial, whole with a segment that does not match
its hash, or good.  `Drop` removes the file it decides to remove (the code
ignores an error there).  A
temporary name survives a power loss, the worse case for the next process of the
same id.  `Prior` is any file: nothing looks into it.

The code compares what the temporary name leads to with its handle
(`path_matches_file`) and afterwards renames, links or removes *by name*.
`Replace` puts another program's file under the name at any moment: found by the
comparison when it comes before it, missed when it comes after.  The steps by
name take whatever the name leads to at that moment, so in the window between a
comparison and the step that relies on it the model publishes, or removes, the
other program's file, as the code does.  The history variable `swapped` records
that a run was overtaken in the window before publishing, or before removing,
and the properties that could be upset by it say so: outside the window they
hold without exception.  The comparison is that of Unix, by device and inode;
the one for Windows compares lengths only, so there the window reaches back to
the creation of the file for any other file of the same length
(`docs/develop/GGUFRS.md` calls it weaker than on Unix), and on other systems
the comparison fails: nothing is published and the temporary file stays.

A run can end in an error although the output is its package: the unlink or the
directory's sync failed after the link.  The model has it, and no property
forbids it: an error promises nothing.

`AtomicPublish.tla` is the promise of `docs/develop/GGUFRS.md:151`: the name is
one cell that a run sets whole, and over another file only when asked to; what
was exchanged for the package in the window goes out in its place (`Swap`).
`ImplementsAtomicPublish` checks that the runs refine it.

* **publish** (pass): three runs, one of which overwrites; the first two share a
  process id and so their temporary names, of which there are two; two faults
  among kills, replaced files and power losses; the output present or not.  With
  three runs a loser of the race, its winner and an overwriting run are in
  flight together; with two faults a killed run leaves its file and the power
  goes while the next one publishes.  Checked: `TypeOK`, `OutputWhole`,
  `SuccessIsDurable`, `NoLitter`, `OthersFilesKept`, `MappedPackageStable`,
  `ImplementsAtomicPublish`.  Deadlock is not checked: runs end.

`PackagePublishProofs.tla` proves all seven for every set of runs and process
ids and every number of faults, from `PublishAssumption` (the three special
files are no run's).  The inductive invariant `IInv` follows one package:
`Written` (a package that has been verified is good and durable), `Fresh` (until
it is published it neither is nor was the output), `Owned` (it is under its own
temporary name and no other), `Held` (no two runs hold one name; it leads to the
run's file or to another program's, and to the latter after a look only when
`swapped` says so) and `Lasting` (after a run has published, only overwriting
runs come after it).  `OutputWhole` needs `Written` and `Fresh`,
because a rename publishes whatever the step before it has left, and `Held`,
because it takes that from a name;
`SuccessIsDurable` needs `Lasting`, because the sync of a directory makes
durable what is there *now*, which may be another run's.  The refinement
(`PublishImplementsAtomic`) maps each publishing step to `Put`, a `Replace`
in the window before it to `Swap`, the sync to `Settle`, and every other step to
a stutter.

## CommandStream and DeviceMatmul

`CommandStream.tla` is the Vulkan context of `vulkan.rs`: one queue, one command
buffer and one fence behind one mutex.  A submission that fails, or a fence that
is not signaled in time, leaves it *uncertain*: the device may still be at work.

| Code | Model |
|---|---|
| the command mutex | `holder`; the threads inside it are at `begin` .. `read` |
| `CommandSubmission` | `shutdown`, `uncertain`, `retired` (weights forgotten and not yet destroyed) |
| `weight_cache`, `io_state` | `cache`, `content` (which weights were uploaded), `io` |
| the allocator's memory | `host`: a model's weights at an address, which another model may get later |
| the device | `running`: the buffers it may use; `DeviceIdle` |
| `begin_commands`, `recover_commands`, `submit_commands` | `Begin`, `Recovers` / `CannotRecover`, `Submit`, `FenceSignaled`, `FenceTimeout` |
| `matmul_q8_0` | `StartMatmul`, `WeightFor`, `EnsureBuffer`, `RecordFails`, `ReadOutput` |
| `TokenCommands`, sessions | `StartSession`, `Record`, `SubmitRefused`, `AllocateStatic`, `DropSession` |
| `upload_device_static` | `StartUpload`, `StartCopy`, `Unstage`, `Cleanup` |
| `upload_static`, `upload_static_filled` | `AllocateStatic`, and `LoseStatic` when the flush fails |
| `release_cached_weight`, `shutdown` | `Unload`, `Shutdown` |

`DeviceMatmul.tla` composes it with the threads of a pool in
`ops/kernel/q8_0/parallel.rs`: each decides from `GPU_BROKEN` whether the device
takes the product (`Dispatch` by thread 0, `LeaveToLeader` by the others) or it
computes its own rows (`ComputePart`); thread 0 falls back to all rows
(`Fallback`).

Abstractions.  A session has one buffer of its own (two while it uploads), and
the input, output and parameter buffers of a product are one.  A call either
touches a buffer through the command buffer (`refs`) or not at all.  A model is
unloaded between closures: its owner waits for them.  Any other user of the
device may set `GPU_BROKEN` (`mark_gpu_broken`), between closures or inside one
(`BrokenElsewhere`); the history variable `disturbed` records that it was inside
one.  The flag is one memory location: a thread that reads it late is a thread
that decides late.  The
host's arithmetic writes the values the device would have.  Not modelled: device
selection, pipelines, descriptors, the software fallback of a missing driver;
the caches of the other quantizations, which are process-wide and keyed by
address too but have no release (`models/pig.rs` and `z_image/mod.rs` call the
product on slices that no kernel object owns), so that `WeightsAreCurrent` is
about weights whose owner releases them; the writes of a session into its own
arena, which come before `begin_commands` (`vulkan/ops.rs:1583`), so that
`RecordedWhileIdle` is about the command buffer, the fence and the I/O buffers;
what callers of the context do with buffers it gave them when a later call of
theirs fails; an upload that is still copying when the context is shut down.

`upload_static` and `upload_static_filled` return on a failed flush
(`vulkan.rs:1139`, `:1164`) without destroying the buffer they have allocated.
`LeaksOnlyInDoubt` names that step as the one that abandons a buffer on a
context that is certain and in use; every other step that does so has found the
device in doubt or the context shut down.

### Runs

* **device** (pass): thread 0 of a pool, one worker, and a session on a thread of
  its own; four buffers (two of an upload, one weight, one I/O buffer: every
  allocation may find none left); one address, where two versions of a weight
  may follow each other.  Every call may fail or time out and the device may
  finish at any time or never.  Checked: `TypeOK`, `DeviceBuffersLive`,
  `RecordedWhileIdle`, `WeightsAreCurrent`, `ShutdownIsFinal`,
  `RowsCompleteAlone`, `LeaksOnlyInDoubt`.  Buffers are interchangeable handles.
* **device_fused** (violation): the same with two products in one closure, as the
  gate and up projections are run.  `RowsCompleteAlone` fails: a worker leaves
  both products to thread 0, whose first dispatch fails and breaks the device; at
  the second product thread 0 computes only its own part.

`RowsCompleteAlone` makes an exception for a disturbed closure, and needs it; the
comment at `parallel.rs:26` makes none.  Without it TLC finds the closure of one
product that loses rows: a worker reads `GPU_BROKEN` and leaves its rows to
thread 0; another request's use of the device fails and sets it
(`ops/kernel/vulkan.rs:183`, `:274`); thread 0 reads it then, and computes its
own part only.

Deadlock is not checked: a process whose context is shut down and whose models
are gone has stopped.  There is no liveness: the code waits for the device for a
bounded time and then gives up on it, which is a property of the timeout's
argument and not of an order of steps.

### Proofs

`DeviceMatmulProofs.tla`, for every number of threads, buffers, addresses and
versions, from `StreamAssumption` and `MatmulAssumption` (names do not collide,
the leader is a thread of the context, workers are not).  None of the properties
is inductive alone.  `IInv` is

* `MutexInv`: who is inside holds the mutex, so two threads are never both
  between `begin` and `return`;
* `IdleInv`: `~uncertain` means the device is idle, and a thread that records or
  reads does it while `~uncertain`;
* `OwnerInv` (`SharedInv`, `MineInv`, `ApartInv`): every buffer that exists for
  someone is alive and has one owner, the context or one thread: without it a
  session's drop could destroy what another submission refers to;
* `RefsInv`: what was recorded belongs to the thread that records or to the
  context, and what runs is alive;
* `CacheInv`: a cached address has a model, and the weights uploaded are that
  model's.

`Types`, `BuffersLive`, `RecordsIdle`, `CurrentWeights`, `ShutdownLast` and
`LeaksInDoubt` follow, for the context with any users (`StreamSpec`);
`PoolUsesStream` shows that the composition is such a use.  `OneProductComplete`
is `RowsCompleteAlone` under the assumption `Products = 1`: `device_fused` shows
that the assumption is needed.  Its invariant `LeftInv` says that a part left undone is
left while thread 0 is still at the product and has not found the device broken,
unless the closure was disturbed.

## TextFilters and ResponseStream

`TextFilters.tla` has the three things generated text passes through:
`ThinkFilter` (`think.rs`) as `ThinkPush` and `ThinkFinish`, `StopFilter`
(`stop.rs`) as `StopPush`, `OutputParser` (`tools.rs`) as `ParserPush` and
`ParserFinish`; its `drain` is a recursive function of turns (`Turn`: a call ends
or one begins), as many as there may be tags in the text, and what it does when
it leaves the loop (`Settle`).  They are operators from a filter and a chunk to the filter and
what it lets through.  `ResponseStream.tla` is one streamed response:

| Code | Model |
|---|---|
| `Encoder` (`protocol.rs`) | `encoder`, with `Start`, `Deltas`, `EncoderFinish`, `Failure`; each appends the events it returns |
| `generate` (`api.rs`), `on_token` | `OnToken`; `Rest` is what it does when the model has stopped |
| the end of the worker's closure | `Finish` (stored first, then told), `Fail` |
| what the client reads | `wire` |

Abstractions.  Text is a sequence of symbols that keeps what the tags have in
common, so that one tag's start may be another's: `<` `t` `h` for `<think>`, `<`
`t` `o` `>` for `<tool_call>`, and their closes.  A chunk may cut a tag anywhere
between two symbols.  Left out: the tags of functions and parameters inside a
Qwen3.5 call, the escape inside a JSON string, the limit of 1 MiB, the
validation of arguments, and cuts inside a character (the code gets whole
`&str`s).  Events carry their type, the index of their item, their text and,
for Responses, their number.  The client reads everything: one that leaves is
`GenerationServer`'s.

* **stream** (pass): four chunks, each any of fourteen (single symbols, halves of
  tags, and four longer ones that hold the end of one thing and the start of
  another), five settings of protocol, parser and `tool_choice`, two stop
  sequences of which one overlaps itself and the other begins like it, two
  well-formed call bodies of which one holds a closing tag in a quoted string.
  Four chunks are enough for two calls, for a call after text, for a quoted
  close cut in two, for a stop sequence cut in three, and for a reasoning block
  that closes before it opens, after blanks or not.  Checked: `TypeOK` (which
  includes what each filter may hold back where: the stop filter, the parser
  outside a call and a think filter that has seen a tag only the start of what
  they look for; an undecided think filter blanks, or text that begins with `<`
  after them), `NoStopReachesClient`, `ParsedAsWhole`, `StreamTellsResult`,
  `StreamEndsOnce`.  Deadlock is not checked: a response ends.

### Proofs

Proved for every set of symbols that has those of the tags, all stop sequences
(none empty), all well-formed call bodies, every cut of the text into chunks and
all settings (`FilterConstants`, `StreamSettings`).

`TextFiltersProofs.tla` has the filters one by one.  Every fact about a text is
stated by its elements (`TakeDrop`, `FindsAt`, `PrefixAt`).  The main lemma is
`StopPushOK`.  What the client needs, that no stop sequence has come out, is not
kept by a push: a sequence may be completed by a piece whose beginning is already
out.  `StopOK` says in addition that every suffix of what has come that could
become a stop sequence begins in what is held.  The argument needs that the
*longest* such suffix is held (`HeldIs`), and, where a sequence is found, that the
first place of *any* is taken, since a later one might begin before it.

`ResponseStreamProofs.tla` goes up in layers:

* `Page`: what the events of a stream that has not ended add up to: their
  numbers, the texts told, and items 1 to N, of which some are closed.  `PageMore`
  is one more event, by its type.
* `Told`: the encoder has told a text and some calls.  It ties `textIndex`,
  `next` and `calls` to the items: at most one item is open, the text's.
  `TextTold` and `CallTold` are the deltas of a text and of a call; the latter
  closes the text if it is open.  `FinishEnds` and `FailureEnds` are the last
  events.
* `ParserTold`: what the parser has made of its text has been told.  Until the
  first call, text and pending make up all that has come, which is why no stop
  sequence gets out through the parser: what it emits begins what `StopFilter`
  has let through, and what follows a call is blank or an error.  Each turn of
  `drain` keeps it (`TurnTold`), so the recursive function `turns` does
  (`DrainTold`), and so do a push and a finish.
* `StreamInv`: the parser's and the client's parts, with `StopOK` and the types,
  while the response goes on, and `StreamEnded` when it has ended.

From `StreamInvariant` follow `StreamTypesOK` (`TypeOK`), `StreamStops`
(`NoStopReachesClient`), `StreamTells` (`StreamTellsResult`) and `StreamEnds`
(`StreamEndsOnce`).

The proofs made two early returns explicit that no reachable state tells from the
way the model had them: a `finish` whose own `drain` fails returns that error, and
a parser that broke in the push before it gets no more deltas.

That the cuts make no difference to the parser is `StreamParsedAsWhole`
(`ParsedAsWhole`) and, for the result of a response that ends well,
`StreamResultOfWhole`, which no run checks.  Both follow from `ChunkedParse`
(`TextFiltersProofs.tla`): from any parser that is `Sound` (its scan is within what
is pending, and 0 outside a call), pushing two pieces does what pushing both at once
does.  It compares two runs of `drain` of different lengths:

* `DrainTurn`: `drain` is one turn after another while there is one to take.  This
  also says that the model's bound on the turns is enough: each takes a tag out of
  what is pending, or breaks the parser.  `TurnInduction` is induction over turns.
* `Same`: nothing but what was returned tells two parsers apart, or both are broken.
  No step looks at what was returned, so each keeps it (`TurnSame`, `SettleSame`,
  `DrainSame`).
* `TurnMore`: a turn does the same with more text pending.  The first marker stays
  the first (`MarkersMore`), and a scan that has found the end of a call stops there
  whatever follows (`CallCloseMore`).
* `SettleMore`: what `drain` does in the turn that leaves the loop makes no difference
  to what comes of more text.  A call is scanned on from where the scan stopped, with
  the quotes it was in (`ScanMore`, from `Scans`, which says what a scan passes).
  Text is let out only as far as no marker can begin in it (`CutEarly`, `CutMore`),
  for the longest start of one is held (`HeldAt`, `HeldLater`), and letting text out
  in two pieces is letting it out in one (`CutCut`).  What breaks the parser now
  breaks it with more text.

What a tag is at a place is said by `Reads`: nothing of the text speaks against the
tag there.  It covers the three comparisons of the code, a tag that is whole, one
that is cut short by the end of the text, and either.

All invariants of the run `stream` are proved; the one thing the proofs do not reach is
what the abstractions above leave out.

Observations, which no run checks:

* A Responses stream whose result could not be stored skips the numbers of the
  events it dropped (`api.rs:603`); `StreamEndsOnce` allows that one gap.
* `ThinkFilter` holds all text that begins with `<` after blanks until a close
  comes or the generation ends (`think.rs:104`), although the comment at
  `think.rs:18` says that what cannot be the start of the opener is flushed
  immediately.  An answer that begins with a tool call, or with markup such as
  `<div>`, is so streamed in one piece at its end.  `TypeOK` allows the undecided
  filter exactly that.
* `ThinkFilter` decides on the chunk it has.  A close at the very start of the
  text drops the rest of its chunk; a close after blanks whose chunk goes on with
  blanks and the whole opener drops the opener too and then waits for another
  (`THINK_OPEN.starts_with` at `think.rs:121` also holds on equality), so the
  reasoning after it passes; a reasoning block after a newline in the same chunk
  as the answer passes.  A token is seldom that long, which is why no property
  asks that the filter be independent of the cuts.
* With stop sequences that contain each other the one reported may depend on the
  cuts, for the shorter may be complete first; that none gets out does not.

## What is not modelled

* **Token commit and KV state.** A chunk is prefilled by one thread that owns
  the state, and the code after a failure is straight-line: it returns the error
  before the length moves, or recomputes from the state it still has.  What runs
  beside it is the pool and the device, which are modelled.
* **Load plan.** A pure function from file sizes to a list, and a loop over the
  list.
* **Loaders, tokenizers, prompt templates.** Parsers and printers of bytes and
  text without state beyond a call; tests by example and fuzzing reach more of
  them than a small instance would.
* **Models, kernels, shaders.** Arithmetic over tensors, most of the lines of
  the repository; a property of them is about numbers and not about orders of
  steps.  How a product is shared out between threads and the device is
  `DeviceMatmul`.
* **Scoring, speech, image and command-line front ends.** One request at a time
  around a model; where they share a pool or the slot with others they are in
  `pool_shared` and `server_jev`.
* The server's endpoints that use neither the slot nor the store; request
  parsing; the JSON of events and the bodies of answers that are not streamed.

Four hazards of the list have no property.  A caller of `compute` whose own share
panics unwinds the frame its closure borrows from while workers may still run it
(`core/thread_pool.rs:338`); the frame is not in the model, `ClosureAlive` leaves
such calls out, and a property that did not would fail, for nothing on that way
out waits for the workers.  A call of the pool from inside a
closure (`ops/kernel/q8_0/parallel.rs:118`) waits for itself; a note there
calls it a bug and deprecates the entry, and it is not an action of the model.
A client that never reads holds the slot (`app/server/api.rs:506`); the liveness
run assumes the contrary and says so.  The Q4_K fallback (`ops/kernel/q4_k.rs:129`) has the shape of
`RowsCompleteAlone` and another fallback: after a failed dispatch thread 0 returns, or
computes its own part only, and the rows the others left to it stay undone.
