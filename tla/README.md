# Verification of Mimirmind's serving core

Mimirmind is a local LLM server: an HTTP API in front of an inference engine
with CUDA, HIP, Level-Zero and CPU backends, and a companion daemon (Munin)
that keeps weights resident across processes. This directory holds TLA+ models
of the parts of it where the hard control lives, the TLC configurations that
check them on small instances, and TLAPS proofs of the properties that matter
most for every instance.

## The system

A chat request reaches an HTTP thread (`ChatCompletionHandler`), which asks the
`RequestDispatcher` for a target: an engine loaded at start, or one of the
`AttachedModelPool`, whose weights a Munin daemon serves over a Unix socket.
The target is either a single-session `InferenceEngine` behind a mutex
(plain, speculative, MTP or DFlash decoding) or a `ContinuousBatcher` whose
worker thread multiplexes requests over the slots of a `ServingSession`.

| Part | State | Operations | Interacts with | What is hard | Correct when |
|---|---|---|---|---|---|
| **ContinuousBatcher** (`runtime/serving`) | wait queue, slots, request handles, `_running` | `submit`, `cancel`, destructor; the worker's admission passes, prefill, decode, retire | HTTP threads (locks, condition variables), ServingSession, the prefix store | threads interleave with a worker that drops its lock around every forward; failures between admission and commit; lost wake-ups; stale device state | every accepted request is in one place, ends, and gets a whole answer computed from its own rows and state |
| **ServingSession slots** (`runtime/engine`) | per slot: KV rows, recurrent state, ring of checkpoints | prefill, step, capture / restore / prune / clear | called only by the worker | what a forward overwrites in slots it was not meant for; the ring's cap | a resumed slot is its own request's |
| **Cross-slot prefix store** | `GdnPrefixIndex`, images, deferred frees | snapshot, lookup, restore, acquire, release, drain | admission, prefill, retire | eviction while pinned; index and images drifting apart; pins that leak | images match their keys, a pinned one survives |
| **L0 slab substrate** | per slot: slab and its length | reset, append | the same worker | appends without a bound, to idle slabs too | a slab in use is as long as its slot's position, and no row is written past a slab's end |
| **RequestScheduler, paged KV** | request states, counters, block tables, reference counts | admit, tick, preempt, feed, commit, drain | one driving loop (only tests drive it at this commit) | a stale schedule after a preemption, a feed that stops half way, recycled blocks | blocks conserved, sequences match counters, service in order, whatever fits the pool completes |
| **AttachedModelPool, RequestDispatcher** | resident engines, pins, switch token; where each request is | acquire, evict, load, release; resolve, generate, stream | HTTP threads, one condition variable, the request mutex | eviction under a stream that outlives its handler; everybody waiting on everybody; a load that fails | pins exact, engine in use resident, nobody sleeps for ever |
| **Munin daemon and client** | process life, socket path, governor lock; sessions, frames in flight, mapped chunks | start, bind, listen, serve, shut down, crash; attach, healthz, detach | Unix socket with descriptor passing | kills and overlapping daemons; a peer dying between two parts of a frame | a listener is reachable, an attach is whole or nothing, every shutdown returns and releases who waits |
| **InferenceEngine, single session, and the speculative decoders** | prefix cache with parked slots, recurrent state and its checkpoint, the call in progress | generate, forwardVerify, commitVerified, resetCache; draft, verify, accept, roll back | its caller's callbacks | rejected drafts, cancels and exceptions leave the cache, the checkpoint or the state behind | every loop hands out the target's own greedy answer |
| Thermal guard, fan and clock governors | thresholds, lock file | poll | sensors | - | not modelled |
| Backends, kernels, loaders, audio, encoders, templates, HTTP formatting | tensors, files, text | arithmetic, parsing | - | - | outside TLC's reach |

`PROJECT.json` lists every part with its sources and status, and under
`hazards` the places where this code can go wrong in ways a test hardly
reaches.

## Modules

### Continuous batching

* **SlotDevice** - the device memory of one slot. A KV row is named by the
  token it was computed from and the recurrent state by the sequence of tokens
  it has absorbed. The arithmetic is gone; what every forward, checkpoint and
  copy reads and overwrites is kept, and that is exactly what faithfulness of
  an answer depends on. `Slab` selects the L0 substrate. A slab is advanced
  without a bound: one that is full is written past its end, and since what
  lies there is up to the allocator, `DecodeDevices` lets that row fall on any
  rows of any slab, or on none.
* **GdnPrefixIndex**, **PrefixStore** - the index with its pins and LRU
  eviction, and the store of images on top of it, both as values with one
  operator per method. Hash buckets are left out because every hit is confirmed
  on the whole token sequence.
* **ContinuousBatcher** - the component itself, over the three above. The
  worker is a program counter (`pc`) through `workerLoop`: `top` (shutdown
  test, pressure gate), `warm`, `cross`, `cold` (the three admission passes,
  `_mtx` held), `idle` (asleep on `_cv`), `prefill` (eager prefill of the work
  list), `step` (a mixed or a decode step, up to the test of the cancel flags)
  and `push` (its tokens are handed out). `Submit` and `Stop` take `_mtx` and
  so are disabled inside the admission passes; `Cancel` takes only the
  request's lock and may come anywhere. Both step loops read the cancel flag
  and push the token under two acquisitions of that lock
  (ContinuousBatcher.cpp:1163 and 1187, 898 and 923), so `CheckCancelled` is a
  step of its own: a `cancel` can return between it and the push. The commit of
  an eager prefill tests and pushes under one acquisition and is one action. A
  forward runs without `_mtx`, but nothing it reads or writes is touched by
  another thread, so it is part of the action that commits its result. A
  chunked prefill is one action per chunk, so cancels and submits do land
  between chunks.
* **RequestLifecycle** - the abstract specification: a handle is new, queued,
  running or done; tokens are only appended, only while running, and after a
  cancel at most the one whose request had passed the cancel test before it
  (`cleared`); an answer that reached a stop token or its length ends in that
  step; done is final; the capacity holds. `ContinuousBatcher` implements it
  (`ImplementsLifecycle`, `INSTANCE ... WITH`).

| Code | Model |
|---|---|
| `_waiting`, `_slots[i]`, `_running`, `_warmTick` | `waiting`, `slots[i]`, `running`, `warmTick` |
| `Slot::occupied` and `Slot::req` | `slots[i].req # None` |
| `Slot::prompt`, `promptLen`, `lastTok`, `produced` | derived from the request the slot runs |
| `ServingRequest` `tokens`, `done`, `error`, `cancelled`, telemetry | `req[r]`; `st` is `new`, `open` (accepted) or `done` |
| `_cv.notify_all` | `signal`, set only while the worker is asleep |
| an exception out of a forward | the `...Fail` actions; the device may or may not have been written |
| `retireSlot` / the inline frees | `RetireSlots` / `Freed` |
| sampling, tool constraints, thinking budget | the sampled token is any member of `GenTokens` |

`ran` in `req[r]` is a history variable: prompt tokens a forward was run on, by
chunks, in a ragged batch, in band or token by token. `passed` holds the slots
that passed the cancel test of the step in progress (the local `cancelled`).

### Paged scheduling

* **PagedKv** - the block allocator and the sequences over it: free set,
  reference counts, hashes, block tables and token counts. A block's chained
  FNV hash is the pair of sequence and block number it was computed for.
* **RequestScheduler** - over PagedKv: `Admit`, `Tick` (re-enqueue, promote,
  chunked schedule), `PreemptOne`, the feeds with their failure half way,
  `Commit`, `DrainCompleted`. The class has no caller outside the tests, so the
  loop around it (`PolicyPreempt`, `Launch`, which assignments are fed) is
  taken from what the two headers prescribe and is marked external.

### Model pool and dispatch

* **AttachedModelPool** - `acquire` in the pieces its lock gives it: hit, wait
  for a switch, make room, wait for a release, load outside the lock, publish
  or fail; `release` and its notification. Wake-ups may be spurious.
* **RequestDispatcher** - the HTTP threads over the pool: resolve an eager or a
  pooled target, prepare, generate under the engine's mutex or in its batcher,
  run a second time to salvage a tool call, stream after the handler has
  returned (the pin moves into the stream's state) or never, and unpin.

### Munin

* **MuninSocket** - a daemon process around its socket path: governor lock,
  stale-socket probe, unlink, bind, listen, shutdown, and a kill at any point.
  The socket file is named by the process that bound it; a connect succeeds iff
  that process still has its descriptor open. `Locked = FALSE` is ShmDaemon.
* **MuninAttach** - over MuninSocket: the accept loop, one session per
  connection, the client's call, frames as a length prefix with its descriptor
  and a payload in two writes and two reads. Either side may die, close or fail
  between any two of them. A session may also fail to read or to send on a live
  connection (an oversized frame, a refused descriptor); it then returns without
  an answer and its descriptor stays open, as nothing destroys a session while
  the daemon serves.

### Single-session engine

* **NGramDrafter** - `lookup` as a definition.
* **EngineSession** - one engine over many calls. KV rows and recurrent state
  are the tokens they were computed from; the network is an unknown function
  `Argmax` of rows, state and penalty window; a draft is any sequence of tokens
  (or `Lookup`'s). One action per phase: plan the reuse (slot swap, truncation,
  checkpoint), prefill in the three variants, one decode step, one round of
  draft / verify / commit, one token handed out, and an exception or a cancel
  at each of them.
* **GreedyDecoder** - the abstract specification: an answer grows by the token
  the model picks after prompt and answer so far, until a stop, the budget or
  the caller ends it. No cache, no state, no drafter. `EngineSession`
  implements it (`ImplementsGreedy`).

The `MC...` modules give the instances. The operators commented as mutants,
each next to the definition it distorts, are plausible bugs: substituting one
must make TLC report the property listed with it in `PROJECT.json`, which shows
that the property can see that kind of mistake.

## Runs

| Run | Instance | Distinct states | What it shows |
|---|---|---|---|
| `batcher_mixed` | 2 slots, 3 requests, no cap on admissions, mixed step with pressure gate, ragged batches, store capped at 1 image, prompts that fill the context, 1 failure | 2,179,436 | one place per request, a work list of two slots used up soundly, no lost wake-up, whole answers, images match their keys and pinned ones survive, rows are the request's own, no prompt run twice, usage accounted for; refinement of `RequestLifecycle` |
| `batcher_live` | every capability on, 1 slot, 2 requests, 2 tenants under a quota of 1, ring cap 2, 1 failure, fair worker | 240,408 | the quota; resuming builds only on the request's own prefix, and the ring never outlives a divergence; every accepted request ends; the destructor's join returns |
| `scheduler` | 3 requests of 1 or 4 tokens and 2 or 3 answer tokens, 3 blocks of 2, 2 active, budget 3 | 62,414 | blocks conserved, sequences match counters, hashes chained, service in order; everything completes if each request alone fits the pool |
| `model_pool` | 3 threads, 4 requests, 2 pooled models, room for 1, one eager model | 137,865 | pins exact, engines in use stay, capacity, no lost wake-up, every request is answered |
| `munin` | 2 daemons, 2 workers, 2 chunks | 200,778 | the path leads to the listener, stale sockets do no harm, attach whole or nothing, a daemon that stops or dies releases its clients, shutdowns return |
| `engine` | 3 prompts, budgets 1 and 3, drafts of 2, 2 parked slots; attention model with either drafter, recurrent model with MTP and DFlash | 202,555 | cache and checkpoint name what the device holds, drafts leave no trace, conversations keep their rows, every loop is greedy decoding |

Six runs show a disagreement between the code and what its comments say; each
is a `finding` in `PROJECT.json` with the quoted line.

| Run | Violated | What happens |
|---|---|---|
| `batcher_hole` | `KvFaithful` | with two slots and warm reuse, a warm slot below the last occupied one is stepped as a hole; the dummy row lands on its row 0, and the next warm hit attends to it |
| `batcher_slab` | `SlabsWithinBounds` | a slab that lies idle below the last busy one is advanced by every decode step with no bound and is in the end written past its end (SlabDecodeStepper.cpp:194-198); KvCache.hpp:168-169 leaves the bound to the caller |
| `batcher_pins` | `PinsReleased` | a request restored from a shared image ends inside the mixed step, which frees the slot without `retireSlot`; its pin stays and LRU cannot reclaim the image (ContinuousBatcher.cpp:903, 938; the failure paths 611, 733, 875 and 1147 do the same), while ContinuousBatcher.hpp:249-251 says it is released on retire |
| `scheduler_oom` | `Completes` | a request larger than the pool is admitted, runs dry alone, is preempted and recomputed for ever; PreemptionPolicy.hpp:38-40 wants it failed with OOM, and the scheduler has no operation that fails a request |
| `munin_silent` | `ClientReturns` | a session that fails to read or to send on a live connection returns in silence and the client stays in recv until the daemon stops; AttachSession.cpp:127 counts on a destructor that does not run |
| `engine_spec_recurrent` | `ImplementsGreedy` | nothing keeps `SpeculativeDecoder` off a recurrent model, and it does not restore the recurrent state after a rejected draft, as MTP and DFlash do: the following tokens are picked from a state that has absorbed the rejected ones |

### Divergences the models show without a run of their own

Each can be seen by changing the constant named and checking the property.

* **Usage.** With the batched prefill, a warm or cross-slot hit that fits the
  ragged forward is run again from position 0 (ContinuousBatcher.cpp:768) and
  still reported as cached. `UsageAccounted` admits exactly that case as its
  second disjunct; without it, `batcher_mixed` violates the property.
* **A token after a cancel.** A `cancel` that returns between the test of the
  flag and the push is followed by one more token. `RequestLifecycle` allows
  one, and no second; with `cleared` left empty `ImplementsLifecycle` fails.
* **Cancel while queued.** No admission pass looks at `cancelled`
  (ContinuousBatcher.cpp:520): a request cancelled in the queue is admitted and
  prefilled before it is retired.
* **ShmDaemon** takes no governor lock. `munin` with `Locked = FALSE` violates
  `ListenerReachable`: a daemon that exits unlinks its successor's socket.
* **Parked conversations.** A prompt that continues a parked slot but matches
  no more of it than the active slot does, while not continuing the active one,
  is prefilled in the least recently used slot (InferenceEngine.cpp:1562-1585).
  `ContinuationResumes` therefore speaks of parked slots that match more.

`batcher_live` uses one slot because of `batcher_hole`, and the passing batcher
runs use the paged pool because of `batcher_slab`: on slabs, what is left to say
is `BusySlabsFit` (below), since the row that overruns may fall anywhere. The
token-by-token ingestion without chunks is covered by the theorems, which hold
for `PrefillChunk = 0` too, and by no run.

### Bounds

* Requests: 3 in the batcher and the scheduler, enough for one to run, one to
  wait and one to be refused or preempted, or for a slot to be used and reused
  while a neighbour runs. Batcher liveness uses 2, and `batcher_pins` 4: one
  publishes its image in an eager prefill, one is restored from it and ends in
  a mixed step, and two others make the steps mixed.
* Slots: 2, the smallest number with a hole below an occupied slot.
* Prompts of 1 to 5 tokens with a chunk of 1 to 3: prompts below, at and above
  one block, with and without a tail, sharing none, one or both blocks.
* Admissions per iteration are not capped, so two slots are admitted and on the
  eager work list at once.
* `PrefillMaxRows` is 4 with a chunk of 3 and 2 with a chunk of 2. The code uses min(maxContext, 4
  chunks); the smaller ratio keeps "fits the ragged forward" and "does not" in
  reach of short prompts.
* `RingCap` 2 (code: 8) and `MaxEntries` 1 (code: 64), so that both are full.
* `MaxNew` 2 or 3, `MaxContext` 4 to 8: answers end by stop token, by length and by
  context. `MaxFailures` bounds engine exceptions.
* Scheduler: 3 blocks of 2 tokens hold one request of 4 + 2 tokens, not two, so
  preemption, recompute and feeds that run out all happen; one of 4 + 3 tokens
  does not fit alone, which `CompletesIfAllFit` excludes and `scheduler_oom`
  uses.
* Pool: room for one of two pooled models and three threads, so that one can
  hold, one drain and one wait for the switch. `MaxRequests = 4` ends the run.
* Munin: two daemons, since an overlap has a predecessor and a successor; two
  chunks, since the attach has a first, a middle and a last frame.
* Engine: 3 tokens with one stop; prompts where one extends another and one
  does not; drafts of 2, so that none, some and all are accepted; a budget of 3
  that ends inside a round; `MCArgmax` mixes everything a forward reads, so a
  wrong row, state or window shows in a token. Calls are not bounded: the cache
  states are finite. `ContMargin` is 1 (code: 4) for prompts this short.
* Request handles are symmetric; runs with liveness do not use symmetry.
* Deadlock is not checked in `model_pool` and `munin`, where all requests are
  answered, or all processes have ended, after a bounded number of events.

### Fairness

* Batcher: weak fairness of the worker thread's next step, nothing of the
  clients. The thread is never blocked for ever by another one, since no HTTP
  thread holds `_mtx` across a wait.
* Scheduler: weak fairness of the driving loop's steps, which is one thread.
* Pool: weak fairness of each HTTP thread's next step (loads and generations
  end); nobody has to send a request, and no wake-up is assumed that the code
  does not send.
* Munin: weak fairness of each client's, session's and stopping daemon's
  thread; kills and signals are never fair.
* Engine: weak fairness of the call's thread. No property of the run needs it;
  it is there so that a counterexample to the refinement cannot be a stop.

A forward, a load or a system call that never returns is outside the models.

## Proofs

All theorems hold for every value of the constants that satisfies the named
assumptions, which say what the constructors and the parsers enforce.

**ContinuousBatcherProofs** - `Placement`, `InflightBounded`, `WorkList`,
`NoLostWakeup`.
`Placement` is not inductive alone: whether the eager prefill ends a request
that is really in a slot depends on the work list naming only occupied slots,
each once, and on no slot being freed while it is listed; whether the admission
keeps the in-flight bound depends on the queue having no duplicates. So
`BatcherInv` has four parts: `Shape`, `Places`, `Works` and `Cursor`. Every
action does one of five things to owners, statuses and queue - nothing, refuse,
accept, admit, or end the requests of some slots - with one lemma for each; the
action lemmas only sort the actions into the five. `CommitEnds`, `MixedEnds`
and `DecodeEnds` show that the three places that hand out tokens end exactly
the slots they free. `InflightBounded` is checked by no run: there are as many
requests as the cap allows in them. `NoLostWakeup` adds `SleepInv`: an admission the passes
counted has filled a slot, so a worker that leaves the passes with all slots
free was not stopped by the cap on admissions, and the queue it saw under the
lock is empty.

**BatcherAnswerProofs** - what the clients see: `AnswerWhole`, `PrefilledOnce`,
`UsageAccounted` and the refinement `ImplementsLifecycle`, for every number of
slots and every setting of the switches. `AnswerInv` has these parts. `Handles`:
each answer is whole so far and its counts are within the prompt. `Queue`: no
forward has run for what is queued. `Progress`: how far each occupied slot has
come (`StandsAt`) - listed for the eager prefill, under its chunk loop,
ingested in band, ingested token by token, or decoding, when its position is
that of the last token of prompt and answer. `Positions`: checkpoints and
stored images have positions, and what stays resident are tokens. `Passing`: who
has passed the cancel test of a step is running in a slot. The parts
need each other: that a prompt is not run twice depends on where its slot
stands, and that depends on what the passes found in the ring and in the store.
Every action makes each handle take one of six moves (`Still`,
`Emit`, `Drop`, `Fail`, `Accept`, `Reject`); `StepMoves` maps these to the
moves of RequestLifecycle, whose capacities follow from `InflightBounded`.
`UsageAccounted` has no hypothesis: the case that the divergence *Usage* names is
in its statement, with the exact amount that is run on top of what is reported.

**BatcherMemoryProofs** - the memory the batcher serves from. On the prefix
store: `LivePinned`, for every setting of the switches. `PinInv` says that index, images and pending frees account for
each other, ids being handed out once (`Accounts`), that a pin of a live slot is
on an indexed image (`Indexed`), and that the store counts it (`Covers`). Each
store operation has a lemma on what it does to ids and counts: a lookup and a
drain change neither, acquire adds one, a snapshot evicts only unpinned images
and adds an unpinned one, retireSlot takes off exactly the pins of the slots it
frees. The failure paths, the mixed step and the shutdown free slots without
it, so the count is only an upper bound, which is all that `LivePinned` needs;
that it is not exact is `batcher_pins`.

On what the memory holds: `SsmFaithful` and `RingFaithful` for every setting of
the switches, `KvFaithful` and `StoreFaithful` where only its own forward
writes a slot's rows (`RowsKept`): on the paged pool, and where no hole of a
step's batch can fall on a warm slot (`WarmSlot => MaxBatch = 1`). The runs
`batcher_slab` and `batcher_hole` show that both are needed: a slab that
overruns lands on memory of others, and the dummy row of a hole lands on what
the slot keeps. On slabs `BusySlabsFit` remains: a slab in use is as long as its
slot's position and has room for the next row, so only idle ones overrun. The dummy spares the checkpoints, and a resumed slot takes its recurrent
state from one, so the other two need no assumption. `MemInv` gives the
contents by place (`MemAt`): a slot listed for the eager prefill has the rows
up to its start, and there the live state or a checkpoint (`Resumable`); a slot
under the chunk loop has rows, state and checkpoints up to the loop's position;
any other has prompt and answer up to `Base`, which position or in-band count
gives (`Serves`); a slot kept warm has the rows and checkpoints of its key
(`Keeps`); an image has those of its tokens (`ImageFits`). It rests on
`AnswerInv` for where each slot stands and on `PinInv` for the images an
admission finds. The lemmas below it say what each device operation does to a
text: a forward of the next tokens advances rows and state (`ForwardAdvances`),
a capture adds the state of a longer prefix (`CaptureFits`), pruning keeps what
two prompts share (`WarmResumes`), a restore brings the state back
(`RestoreResumes`, `ImageResumes`), and a lookup finds only prefixes of the
prompt (`LookupMatches`).

**RequestSchedulerProofs** - `BlocksConserved`, `NoOvertaking`, `HashChained`,
`KvInSync`.
`BlocksConserved` is inductive with the types of the tables (`BlocksInv`): an
append takes a free block, a release returns those of one table.
`NoOvertaking` needs that ids above `nextId` are absent (`OrderInv`).
`HashChained` needs both that blocks are conserved, or an append would change
another sequence's hash, and that tables fit their token counts (`HashInv`).
`KvInSync` needs `SyncInv`: the schedule being executed was made for the state
each request had at the tick, which only a preemption has changed since, and a
preempted request holds no row. The folds over a schedule are typed by a least
counterexample, as no induction theorem can be instantiated.

**RequestDispatcherProofs** - `PinsExact`, `EngineLive`, `WithinCapacity`,
`SleeperHasWaker`, from one invariant `IInv`: the switch token has one owner
whose model is not resident (`SwitchSound`), absent models are unpinned, a
loader has room, and a sleeper waits for a switch in progress or for a victim
while all slots are pinned (`SleepSound`).

**MuninAttachProofs** - `ListenerReachable` and `NeverLockedOut` under the
assumption `Locked` (`PathInv`: who is past the lock holds it, and the file is
his from bind on); `AttachedWhole` and `FailedHoldsNothing` from `AnswerInv`,
which counts, for each connection, the frames sent, in flight and read.

**EngineSessionProofs** - `CacheInSync`, for every network that picks a token
(`NetworkPicks`); `RecurrentInStep` and `SnapFaithful` also assume that no
recurrent model is in the speculative loop (`SpeculationIsRestored`), which is
exactly what `engine_spec_recurrent` shows to be needed. `RowsInv` says what
the rows are at each point of a call: a prefix of the prompt in a prefill,
prompt and answer but for the last token in the plain loop, the cached tokens
in the rounds. `StateInv` adds that the recurrent state equals the rows, and
whose checkpoint a valid one is. The lemmas on `Lcp`, `BestBackup`, `Reusable`
and `Lookup` show that the slot selection, the reuse and the n-gram lookup
always return what their names say. `ContinuationResumes` follows from `RowsInv`
and the slot selection; it speaks of the plain and the speculative loop, the
MTP and DFlash loops start every call over. It says nothing of recurrent models,
whose checkpoint is `SnapFaithful`'s matter, nor of a parked slot that ties with
the active one (see *Parked conversations*).

**EngineRefinementProofs** - `ImplementsGreedy`, under `NetworkPicks` and
`SpeculationIsRestored`. `GreedyInv` has two parts: the plain loop hands out
what it samples at once and stays within budget and cap (`PlainInv`); what the
rounds have verified and not yet handed out continues the answer greedily, and
the rows are the prompt with all of it (`RoundInv`). A call maps to `Start`; refusals and
exceptions to `Fail`; a cancelled prefill to `CancelPrefill`; the plain and the
speculative prefill, a decode step and the hand-out of a verified token to
`Emit`; the end of a call to `Return`; plan, drafted prefill and the rounds
themselves are stutters.

Only model-checked: the liveness properties (`Served`, `StopJoins`,
`CompletesIfAllFit`, `Answered`, `StopReleasesClients`, `ShutdownReturns`), which
are outside the prover, and the tenants' quota `TenantBounded`. Every other
safety property that a passing run checks is a theorem.

## Not modelled

* Arithmetic, kernels and backends, file formats, chat templates, tool-call
  parsing, HTTP formatting, audio and encoder pipelines, configuration parsing.
  They are the bulk of the repository's lines, and computation on tensors,
  bytes or text without control that a model checker could explore.
* In the batcher: logging, timestamps, sampling parameters, tool constraints,
  log-probabilities and the thinking budget. The MTP and DFlash serving modes
  of ServingSession.
* In the engine: CUDA-graph capture and replay, thermal pacing, the benchmark
  harnesses. A drafter's own caches: a draft is any sequence of tokens.
* In Munin: how a model gets into chunks (`ModelStore`, `ChunkAllocator`), which
  happens before the socket opens. Descriptors received by a frame whose
  payload never comes are not counted.
* `PagedKvBlockAllocator::addRef` has no caller in `src`: no block is shared.
* Thermal control: a refusal by the guard is the action `Refuse`; the governors
  poll sensors and set outputs.

## Plan

Done: the batcher with its store and device, the paged scheduler, the model
pool with the dispatcher, the Munin protocol, the single-session engine with
its decoders; proofs of the safety invariants listed above and of both
refinements.

Next, in this order:

1. `TenantBounded` as a theorem, along the lines of `InflightBounded`.
2. The speculative serving modes of ServingSession (MTP and DFlash over the
   batcher's slots), composed with SlotDevice.
3. Model loading into Munin's chunks and the manifest built from it.
