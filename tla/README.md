# proxycache in TLA+

Specifications of [proxycache](../src/README.md), the OpenAI-compatible proxy in
front of llama.cpp backends: TLA+ modules, TLC runs over small instances of
them, and proofs checked by TLAPS.

Modelled are: the request dispatcher with the slot pools and the slot
acquisition of the workers, its routing rule, and the service it promises; what a
worker does with its slot's cache, and the streamed response it may leave behind;
the store of saved caches with its transfers, crash and restart; model discovery
and the liveness loop; the metrics collector.

| file | what it is |
|------|------------|
| `BackendSelection.tla` | the routing rule over sets, and `SelectBackend` as the code searches |
| `RequestRouter.tla`, `MCRequestRouter.tla` | selections over time, with the round-robin index |
| `Dispatcher.tla`, `MCDispatcher.tla` | dispatcher, slot pools, workers, their environment |
| `RequestService.tla` | what the dispatcher promises, without how |
| `Stream.tla`, `StreamService.tla` | a streamed response: reader, writer, cleanup; and what it promises |
| `SlotSession.tla`, `MCSlotSession.tla` | a slot's life: tracked and real content, skip, restore, flush, save; composed with `Stream` |
| `CacheStore.tla`, `MCCacheStore.tla` | cache files, metadata, ring and budget, copies between backends, crash and restart |
| `Registry.tla`, `MCRegistry.tla` | discoveries and the liveness loop, over backends that fail |
| `Metrics.tla`, `MCMetrics.tla` | the ring of records, its index and the counters |
| `DispatcherProofs.tla`, `DispatcherOwnership.tla` | theorems about `Dispatcher`: types, slots and caps; whose a request is, orders, the refinement of `RequestService` |
| `RequestRouterProofs.tla`, `CacheStoreProofs.tla`, `StreamProofs.tla`, `SlotSessionProofs.tla`, `RegistryProofs.tla`, `MetricsProofs.tla` | theorems about the modules of these names |
| `*.cfg` | one TLC run each, named in `PROJECT.json` with what it shows |

To check: `tlc -config Dispatcher_churn.cfg MCDispatcher`, `tlapm DispatcherProofs.tla`.

## The system

| component | state | operations | hard parts | what makes it correct |
|---|---|---|---|---|
| Request dispatcher (`matcher.go`) | channel `incoming`, `overflow`, a queue and an in-flight list per backend, `rrIndex` | Submit, the loop (arrivals, overflow, migration, pump), Requeue, Stop, AbortAll | one goroutine drops `d.mu` around every scan while handlers, workers and Stop change the queues | no request lost, doubled or settled twice; queue order and cap; migration only to idle backends; every request ends |
| Backend selection (`SelectBackend`) | none (index in `rrIndex`) | pick a (backend, model) pair | stale index, two passes, pairs that share a backend | keeps to the rule; fair among equals |
| Slot pools (`slotmanager.go`) | pools per model, `inUse` per backend | EnsurePool, TryAcquire, Release | pools of several models share the slot ids; sizes change under running workers | no slot held twice, none leaked |
| Worker (`processor.go`) | the slot it holds | acquire, restore, forward, save, release | lazy discovery, requeue, error paths, what the slot's KV state is believed to be | slot released once; tracked KV state matches the slot |
| Streaming (`app.go`) | chunk channel, `StreamComplete`, `cancelled` | reader, writer, cleanup | two goroutines, a full channel and a disconnecting client | no gap; settled once, then released; saved only if complete |
| Registry and liveness (`backendmanager.go`) | `DiscoveredModels`, `BackendState`, generated names | discover, health check, resolve | discoveries overlap and outlive their timeout; partial answers, hanging backends | the loop goes on; what is served is registered in the end |
| Cache ring and metadata (`slotmanager.go`, `kvmeta.go`) | ring, `totalBytes`, meta files | save, evict, reconcile, load | crash between file, meta and ring; same key on several backends | ring, meta and budget agree |
| P2P transfer, cache agent (`transfer.go`, `cacheagent.go`, `cache-agent/`) | transfers in flight, files | copy, push, pull, wait | eviction during transfer, sidecars, bounded wait | once per (key, target); complete or absent |
| Metrics (`metrics.go`) | ring buffer, `ByID`, counters | record a request three times, record events, query | trimming between the recordings; reading after the unlock | `ByID` and counters exact; no record is written while it is read |

How they interact: a handler calls `Submit`, then waits for the request's `done`.
The dispatcher goroutine reads the registry and the metadata, chooses, and
starts one goroutine per dispatched request. That worker takes its slot from
the pump (or discovers the pool itself), restores a cache, calls the backend,
saves, releases the slot and closes `done`; or it hands the request back with
`Requeue`. The liveness checker changes registry and states underneath and
wakes the dispatcher. Nothing but `d.mu`, `PoolMu` and the request's context
orders these goroutines.

## Dispatcher

`Dispatcher` is the composition of dispatcher, pools, workers and environment.
A step is one critical section of `d.mu` or `PoolMu`, or one blocking call, with
the local code after it.

| actor | actions | code |
|---|---|---|
| handlers, clients | `SubmitCheck`, `SubmitSend`, `Disconnect` | `Submit` (its unlock lies between the two), the request's context |
| dispatcher goroutine | `Wake`/`Exit`, `Arrive`, `BurstHandled`, `PopOverflow`, `RouteHeld`, `BeginMigration`, `Migrate`, `EndMigration`, `PumpTake`, `HandOff`, `PumpNext` | `run`, in the order of its body (`phase`) |
| worker w | `PromptTooLong`, `Begin`, `Acquire`, `Refresh`, `Gate`, `Requeue`, `Retry`, `Backoff`, `Serve`, `Finish`, `WorkerFinished` | `runWorker`, `processWorkerRequest`, `acquireSlotOnBackend` (`pc[w]`) |
| others | `HealthCheck`, `Rediscover`, `Stop`, `AbortAll` | liveness loop, shutdown |

State: `overflow`, `queue`, `inFlight`, `incoming`, `stopped`, `pool`, `inUse` are
the fields of that name. `burst` and `held` are locals of `run` and
`drainOverflow` which own a request across an unlock, `idle` is migrateStale's
list. `model[r]` is `route.selected.ModelName`, `migrated` the requests with
`migratedFrom`. `dead` are the cancelled contexts, `done` the closed channels;
`outcome` records how a request was settled (it exists in the code only as what
was written and recorded).

What is abstracted, and why it does not matter to the properties:

- Prompts, tokens, caches. Which backend holds the best cache is a free choice
  (`hit`) among all candidates, or none. A tokenizer error, an unknown model, no
  live backend, a prompt too long are one outcome, `MatchRejects`, possible at
  any time.
- Time. Whether a queued request is old enough to migrate is a free choice, so is
  the order in which `migrateStale` walks its maps.
- `match` with the enqueueing or parking that follows is one step. The part of it
  another goroutine can be seen to overtake is kept: the liveness checker can
  change a backend between the scan and the choice (`MatchParks`). A client that
  leaves during the scan has the effect of one that leaves after it; Stop and
  AbortAll come before or after the match of an arrival, but between the pop and the match of an
  overflow head.
- `HandOff` of an abandoned request is one step of three short critical sections,
  and `Refresh` applies the slot counts of all pairs at once.
- The loop's wake-up channel is left out: its one-second ticker can fire whenever a
  wake-up could. `Wake` empties `incoming` at once; what arrives while the code
  drains it is in the next burst.
- `lastUsed` is left out: it picks a victim only among slots that are all in use,
  and then `TryAcquire` gives up.

### RequestService

An accepted request gets at most one slot, once; nobody else has that slot
meanwhile; it is settled once and has no slot afterwards. The mapping
(`StageOf`, `HolderOf`) reads these stages off the queues and workers. Queues,
overflow, requeue, migration and retries are stuttering steps. It is stated for
`StableSlots` (below). The run that checks it has neither `AbortAll` nor `Stop`; the theorem
has both: they settle whoever is parked in one step, and leave the others to loop and workers.

### BackendSelection, RequestRouter

`Dispatcher` uses `Routable`, the set of pairs the rule permits. `SelectBackend`
is the code's search with its walk from `startIdx` and its two passes: `WalkStart` is where
the walk begins, `NotOnHit` what the first pass leaves out.
`RequestRouter` runs it over all histories of queue depths and live backends,
one index per client name, and checks that the search refines the rule
(`SelectBackendRefines`) whatever the index has become.
`RotationFair` is about runs of consecutive cold selections with all backends
up. A cache-hit selection also moves the index, so cold requests alternating with
hits can pass the same pair over again and again; the code does not
promise otherwise.

The rule is least-loaded first with round-robin among equals, as the comment of
`SelectBackend` says; `README.md` and `SKILL.md:37` of the repository still
describe plain round-robin.

## CacheStore

What the code keeps about a saved cache lives in three places per backend: the
file (with its sidecars), a meta file, and the entry in the in-memory ring. A
step is one of: a file operation, a section of RingMu up to the next file
operation, a section of the transfer tracker.

| actor | actions | code |
|---|---|---|
| request on a slot p | `RouteAway`, `ResolveRestoreKey`, `Restore`, `SaveSlot`, `SaveAfter` | `match`/`migrateStale`, `resolveRestoreKey`, `Restore`, the two halves of `SaveAfter` |
| holder of RingMu of b | `PruneOrphans`, `ChooseVictims`, `EvictNext`, `DeleteMeta`, `EvictionDone` | `EvictIfNeeded` with `deleteEntry` in two steps; `evict[b]` is its progress, stage `free` means that RingMu is free |
| transfer t | `ReadSource`, `CopyMain`, `CopySidecars`, `CopyFails`, `PutMeta`, `AddTransferredEntry`, `EndTransfer` | the goroutine of `RequestCacheTransfer`, `runCacheTransfer` |
| process | `Crash`, `InitFromDisk`, `StartServing` | `Main`: the rings are rebuilt before `Reconcile` |

`file`, `sidecar`, `meta` survive a crash. `ring`, `totalBytes` are the fields of
that name, `tracker` is `theTransferTracker.inFlight`, `copy[t]` the locals of
`runCacheTransfer`. `DirOrder` is the order in which `os.ReadDir` lists the meta
directories, which decides whose meta file `DeleteMetaFile` finds.

Abstracted: the eviction score (age and similarity) is a free choice of the
order, so a ring entry has no timestamp and a restore at home, which only
touches it, has no action; the block list of a meta file is there or empty; the
four transfer paths are one, since all put the main file in place by a rename,
then the sidecars, then metadata, then ring; `GetCacheSize` never needs the file,
as every meta file written records a size above zero. When the worker's bounded
wait ends is free. A ring entry leaves the ring when it is deleted, where the
code assigns the remaining ring once at the end: under RingMu nobody can tell. Both
passes visit every entry of the ring they began with (`evict[b].todo`), the second keeps those
that are not `victims`.
Any call of a cache agent may fail, for the backends in `Agents`: a delete then leaves
the file (`CacheDelete`), a question is answered as if there were no file
(`SeemsMissing`, `SizesSeen`) or no sidecars (`SidecarsSeen`), and a `Reconcile` removes
the metadata of any of that backend's files. The other backends have a local directory,
whose operations do not fail.
Left out: two backends with one cache directory, other proxies that write
through an embedded agent, meta files damaged by hand.

## Stream and SlotSession

`Stream` is a `StreamState`: the reader (`ReadLoop`) and the writer (`run`,
`cleanup`), which share a bounded channel, `StreamComplete` and `cancelled`.

| actor | actions | code |
|---|---|---|
| reader | `ReadChunk`, `ReadDone`, `ReadEnd`, `Finish` | `ReadLoop`: a chunk, a chunk with [DONE], the end of the body or an error, `finish` |
| writer | `WriteChunk`, `SeeDone`, `Drain`, `SeeClientGone`, `AwaitReader`, `Settle`, `Release`, `RecordStatus` | the cases of `run`'s select, and `cleanup` |
| client | `ClientLeaves` | the request's context |

A chunk is its number. The backend is not an actor: which of the reader's steps
comes next, or none, is free. Heartbeats only find out that the client has left.
`StreamService` is what is promised: chunks in order and without a gap, then one
settlement of the slot's cache, then the slot is given back. `phase` and
`received` are read off the writer's place and what it has written.

`SlotSession` is one slot and the requests it serves one after another,
`processWorkerRequest` and `processNonStream` of `processor.go` with the save and
restore of `slotmanager.go`.

| place of the worker | actions | code |
|---|---|---|
| `idle` | `Take` | the slot has been acquired; `prevKV` read, `SetKVState` |
| `flush`, `restore` | `Flush`, `Restore` | `flushSkippedSave`, `resolveRestoreKey` with `doWorkerRestore` |
| `chat` | `ChatAnswers`, `ChatFails`, `OpenStream`, `StreamFails` | the call of the backend, its error paths |
| `decide` | `Decide` | the save decision of `processNonStream` |
| `streaming` | `ReadStream`, `ServeStream`, `SettleStream`, `EndStream`, `ClientGoes` | Stream's steps; `SettleStream` is `Settle` with what it does to the slot |
| any | `FileGoes`, `MetaGoes`, `FileComes`, `BackendRestarts`, `PoolForgetsSlot` | eviction, transfer, restart, `EnsurePool` |

`content` is what the slot really holds; it is in no variable of the program, and
it is what the others (`tracked` for `slotKVState`, `skipped` for
`slotSaveSkipped`, `files`) are compared with. `listed` are the keys with metadata of this
backend, the `Candidates` of the flush; a file and its metadata do not go in one step. A prompt is a model value with a
list of blocks; the ratios of `LCPBlocks`, `ShouldSkipRestore`,
`FindBestRestoreCandidate` and `ShouldSaveCache` are computed from the blocks in
integer percentages. What the scan found for a request is free within what a scan
can find, and may be stale when it is used. A backend's slots hold what was last computed, restored or
begun; a request that fails leaves what was there or something `Partial`.
Abstracted: one slot of one model on one backend (the rest of the system is the
environment's actions; so `NearFull` is about this backend's `n_ctx`, and another backend
may save and send such a prompt), which candidate has the best score, since recompute
penalties count, a copy arrives whole and this backend's cache agent, if it has one,
answers (`CacheStore` has both otherwise), the recompute detection is a free choice, timeouts are
failures that may happen at any time.

## Registry

| actor | actions | code |
|---|---|---|
| discovery d | `Ask`, `GiveUp`, `Install`, `Log`, `Panic` | `discoverModelsCtx`: one backend at a time, a body that is no JSON, the replacement under the lock, the log lines after it |
| matcher | `MatcherDiscovers` | `match`, when a name is unknown |
| liveness loop | `Check`, `Decide`, `AwaitDone`, `AwaitTimeout` | a turn of `livenessLoop`: both health checks of each backend, whether to discover, the wait of ten seconds |
| time, backends | `GateOpens`, `BackendChanges` | `MISSING_MODELS_RETRY_INTERVAL`; the world |

`disc[d]` are the locals of one discovery; `expired` its context. A discovery the
loop no longer waits for stays and can still write. `Panic` is real: after the
unlock, `discoverModelsCtx` walks `bm.ModelOrder`, which another discovery may have
replaced, and looks each name up in its own result; a name it has not found is a
nil pointer. The process is taken to be started again. Left out: names generated from prefixes (a
function of the discovered ones), `n_ctx`, timings, diagnostics, latency averages.

## Metrics

Every section of `Mu` is a step: `Arrive`, `Route`, `Complete`, `Fail` are the
places that call `Record` for a request, `RecordEvent` those for diagnostic events, `BeginPerformance` and
`EndPerformance` the locked and the unlocked part of `GetPerformance`. A record is
its request and the status recorded last. Counters per model and backend are the
same increments as the total.

## Runs

| run | instance | what it is for |
|---|---|---|
| `Dispatcher_routing` | 3 requests, 2 backends with 1 slot, queues of 1, hit limit 2, channel of 3 | everything full: overflow, order, cap (with the hit limit above the cap, so that only tryEnqueue protects it), migration, slots |
| `Dispatcher_churn` | 2 requests, queues of 2, 1 registry or state change | requeue, disconnects, discovery; conservation of requests and slots; refinement |
| `Dispatcher_live` | 1 backend, 2 requests, 1 change, Stop and AbortAll anywhere, `FairSpec` | every accepted request is settled, and once |
| `Dispatcher_double` | 1 backend, two models, 3 requests | fails: see Findings |
| `RequestRouter` | 3 backends, cap 3, limit 2, a plain name and a wildcard with two models on one backend | the search and the rotation |
| `CacheStore_copies` | 2 backends with 1 slot, one of them with an agent, 1 key of size 1 or 2 with sidecars, budget 1, 2 transfers | save, copy, restore and eviction of one key from all sides |
| `CacheStore_recovery` | 1 backend with an agent, 1 slot, 3 keys of size 1 or 2, budget 2, 2 crashes | replacement, eviction of several entries, crash between any two file operations, also while starting |
| `CacheStore_sync` | 2 backends with 1 slot, 2 keys, budget 2 | fails: see Findings |
| `CacheStore_partial` | the same, one key with sidecars | fails: see Findings |
| `SlotSession` | 3 prompts, a channel of 2, responses of up to 4 chunks | honest files and tracking, skipped saves and those that must stay skipped, statuses; the stream's properties and `StreamEnds` in composition |
| `Registry` | 2 backends, 2 models, 2 rounds and the matcher's discovery, 1 change from any start | overlapping discoveries, restarts, recovery |
| `Metrics` | 4 requests, 2 events, a buffer of 2 | trimming between any two recordings |

Two backends are the fewest with a choice and a migration; one slot and a queue
of one or two fill up with two or three requests, and the third is the one that
overtakes, waits or migrates. Requests and workers are symmetric (symmetry is
not used for the runs with liveness). There are
as many workers as requests; a request that is requeued can wait for its former
worker to end, which that worker does on its own. The bounds
that cut behaviour are `IncomingCap` (128 in the code), `MaxChanges` and the
numbers of requests. `CHECK_DEADLOCK FALSE` is set where Stop ends the loop, and
in `Metrics`, where all requests end.
In `CacheStore` one key is enough for the races of the copies, since all of them
are about one key, and a size above the budget makes it evict itself;
three keys make an eviction that has a choice and may need two victims. More
than one crash matters since start-up evicts too. Two keys with two
transfers is beyond a quick run. `MetaInSync` is checked, and proved, to hold with one backend of
one slot (`OneSaver`); with two backends it fails
(Findings), and with two slots as well: `SaveSlot` writes the file outside RingMu,
where an eviction of the key's old entry can still delete it.
In `SlotSession` the three prompts are a summarization prompt, its continuation (the slot is
warm for it, and the first is its good ancestor) and an unrelated prompt near the context's end (which
evicts, and must not be saved); a channel of two fills, and overflows within four
chunks. In `Registry` the start is any state of the backends, so one change makes
"failed, recovered" and "recovered, failed"; two rounds are one that was given up on and one
that is waited for. A fourth request in `Metrics` can find a buffer that was
trimmed twice.
Each property has a mutant of the code in `PROJECT.json` that breaks it: the
operators `X_Something` before `X`.

### Fairness

`FairSpec` asks for: weak fairness of the dispatcher goroutine (it never waits
for longer than its ticker or a bounded call) and of every worker; a blocked
`Submit` proceeds once there is room; strong fairness of the two steps of a
worker that need `d.mu` (`sync.Mutex` hands the lock to a goroutine that has
waited for a millisecond, so a worker cannot be starved by the loop); and that a
backend asked again and again for the slots of a model sooner or later reports
some. Without the last one a worker may retry for ever by
design (`acquireSlotOnBackend` has no limit of attempts), and for one kind of model
that is what happens: a name generated from a common prefix (`GenerateLCPModels`), on a backend in
router mode, which reports slots only for the names of its children
(`llamaclient.go:526`). Its registry entry stays, so the worker of such a request
ends only when the client leaves. `EveryRequestSettles` does not speak about it.
Clients need not disconnect, and nothing is assumed of the checker, Stop or AbortAll.

`Stream` and `SlotSession` assume only that the writer goes on: its select has a
ticker, and its waits have timers. Neither the reader nor the backend nor the worker has to do
anything, so `StreamEnds` also holds with a body that is never closed or a reader that hangs.
`Registry` assumes that the loop runs, that a discovery goes on where its next
step is enabled (a hanging backend keeps it until its context is done, or in the
matcher's until its request times out), and that retry intervals pass.
`AwaitTimeout` needs a hanging backend: asking backends that answer takes
far less than ten seconds. `RecoversRegistry` speaks of the time after the backends have
stopped hanging and answering nonsense.

## Findings

- **A new pool frees held slots** (`Dispatcher_double`). `inUse` is per backend,
  not per model. When the pool of a second model is created (`EnsurePool`,
  `slotmanager.go:95-98`), slots held for the first model become free and are
  given out again, to a request for the same model. The architecture
  notes (`SKILL.md:32`) say that each worker holds exactly one slot and that workers
  never touch each other's. Two models on one backend are common: a name generated
from the prefix of two similar models is listed on their backends as a model of
its own, with a pool over the same slots. The same happens to a slot id that leaves a pool and
  returns (108-112).
- **An eviction deletes another backend's metadata** (`CacheStore_sync`).
  `deleteEntry` calls `DeleteMetaFile(key)` without the backend, and that removes
  the first meta file of the key in directory order. Once a key has been copied,
  evicting one copy can orphan the other, whose file is pruned later,
  while the evicting backend keeps metadata of a file it no longer has and
  goes on to be chosen for it. The comment in `cacheagent.go:258` says that files and
  meta stay in sync.
- **A partial copy is restored** (`CacheStore_partial`). The main file is at the
  target before its sidecars, and stays there if they fail. The worker asks only
  whether the main file exists; so does the next `RequestCacheTransfer`, which then
  never sends the rest. `transfer.go:110` says that the entry is complete only with
  its sidecars.

### Differences without a run

Met while modelling, left to the reader; the models behave as the code does
unless it says otherwise.

- Stop misses a request that is past `Submit`'s check, in the channel, in the burst
  or popped from overflow: it is queued after Stop has emptied the queues, and its
  handler waits for its own context (`matcher.go:245`). `EveryRequestSettles`
  excuses requests after Stop.
- `flushSkippedSave` re-evaluates `ShouldSkipSaveHeuristic` with tokens only
  (`processor.go:157`), so it does not recognise a summarization prompt and saves it like
  any other, although the comment (143) says that content-class skips are respected
  either way. `NearFullNotSaved` is the half that holds: a prompt near the end of this
  backend's context is saved neither after its answer nor by a flush. It may be saved on
  a backend with a larger context, and copied here.
- An eviction at a cache agent that does not answer loses the entry and its metadata and
  leaves the file (`slotmanager.go:446`); a `Reconcile` that cannot reach it removes the
  metadata of files that are there (`kvmeta.go:423`). No scan finds such a file until it
  is saved or copied anew; the first counts in no budget any more, the second not after
  the next start. An agent that does not
  list its sidecars (`cacheagent.go:61`) has the main file alone copied to a local
  backend, and registered as complete.
- `processNonStream` reads `prevKV` after `SetKVState` has replaced it
  (`processor.go:410`), so its error paths restore nothing (`SKILL.md:179`); a failed
  stream restores the previous state even when a disk restore has overwritten the slot. So
  `TrackingHonest` and `SkippedSaveKept` promise nothing after an error, and no property
  covers this.
- The flush clears the remembered skipped save also when the request is warm for
  the slot and then fails: that save is not made up for, and `SkippedSaveKept`, which speaks
  of the request directly after the skip only, does not object. The flush saves under the new
  request's model name (`processor.go:168`); one model is modelled.
- New arrivals are matched before the overflow queue is drained (`matcher.go:324`), so
  arrivals without end could keep parked requests waiting; the code promises
  order within overflow only, and the instances have finitely many requests.
- A full channel drops the chunk that carries [DONE] (`app.go:646`), and the stream still
  counts as complete: `CompleteReachesClient` allows for that one chunk.
- `ReadLoop` may outlive `cleanup` by its five seconds; `ChatHandler` may return at a
  disconnect while the worker still writes to its response.
- A discovery that outlives its timeout registers what it had found by then; a
  backend that hangs hides those after it in the order until the next discovery. The
  matcher's own discovery runs in the dispatcher loop, with no deadline but the
  HTTP client's per backend (`matcher.go:619`). The nil pointer above (`backendmanager.go:806`). A backend
  that changes models without going down is not asked again until something else changes.
- The checker's refreshed slot counts are thrown away (`backendmanager.go:1150`,
  against `SKILL.md:154`); a worker without a slot refreshes for itself.
- A generated prefix that equals a real model's whole name replaces its entry
  (`backendmanager.go:791`). README.md:20 says that short prefixes are filtered out;
  the code cuts the provider off instead and filters none.
- A request that finds its metrics record trimmed gets a new one with a new
  timestamp and without the earlier fields. Requests refused because the queue is
  full are recorded as cancelled (against `metrics-architecture/SKILL.md:16`).

## Proofs

`DispatcherProofs` proves, for all constants that satisfy the assumptions
`DispatcherAssumption` and `SelectionAssumption`:

| theorem | statement | argument |
|---|---|---|
| `TypeCorrect` | `Spec => []TypeOK` | `TypeOK` alone is not inductive: that a worker's request and backend exist follows from its `pc`. `WorkerShape` adds that, and that slotless places hold no slot. `TypeStep` has one lemma per group of actions. |
| `NoSlotLeaks` | `Spec => []NoSlotLeak` | every step changes slots in one of a few ways (`SlotStep`): acquire a free slot, give one back, report pools, or none. Each keeps the marks within what is held. No assumption on pools: a refresh can only clear marks. |
| `SlotsExclusive` | `StableSlots` implies `Spec => []SlotExclusion` | strengthened to: pools have a reported size; a held slot is in its pool; a held slot is marked; and no two workers on a backend hold the same. `StableReports` shows that a refresh then marks no held slot free. |
| `HeldSlotsStayMarked` | same condition, `[]HeldSlotsMarked` | a conjunct of the same invariant |
| `QueuesBounded` | `Spec => []QueueBound` | with `IdleInv`: during a migration every backend on the idle list has an empty queue (d.mu is held), so the unchecked append leaves one element; everything else passes tryEnqueue's check |

`DispatcherOwnership` adds, under the same assumptions:

| theorem | statement | argument |
|---|---|---|
| `EachRequestOneOwner` | `Spec => []OneOwner` | `OwnerInv`: an accepted, unsettled request is at one pair of kind and place (`OnlyAt`), every other is `Nowhere`, and no sequence holds a request twice. Every step lets one request leave, or move, or leaves all in place (`RequestLeaves`, `RequestMoves`, `StaysPlaced`). `OneOwner` counts places; without `NoRepeats` and `LoopCarries` the count is not inductive. |
| `InFlightListExact`, `SingleDiscoverer` | `InFlightExact`, `OneDiscoverer` | `SiteInv`: busy workers are in the in-flight list, two on a backend never both look for a slot, backends on the idle list have nobody at work; until AbortAll, which forgets workers that go on |
| `SettledOnlyOnce` | `SettledOnce` | `OpenInv`: whoever has an outcome is settled, or a worker that has answered is about to settle it; with `OwnerInv` no other step can carry that request |
| `QueueOrderKept`, `OverflowOrderKept` | `QueueFIFO`, `OverflowFIFO` | a step appends, takes the head, takes one out or empties (`QueueChange`, `OverflowChange`), and each of these keeps the order (`AppendKeepsOrder` and so on). Since no request is queued twice, "the same element" is well defined. |
| `MigrationToIdle` | `MigratesToIdle` | only `MigrateMoves` changes a request's queue; `IdleInv` and `SiteInv` say what being on the idle list means |
| `DispatcherImplementsService` | `StableSlots` implies `Spec => ImplementsService` | one lemma per kind of step: it stutters (`ServiceStutters`), settles, grants or answers. `HolderOf` uses CHOOSE; `HolderIs` shows that there is one to choose, by slot exclusion. The instance may have Stop and AbortAll, which settle all parked requests at once. |

`StableSlots` says that each backend serves one model and reports one number of
slots. It is the condition under which the slot discipline is right, and
`Dispatcher_double` is what happens without it.

`RequestRouterProofs`, for every list of pairs, every cap and every hit limit:

| theorem | statement | argument |
|---|---|---|
| `SearchKeepsRule` | `SelectBackend` returns an index of a pair in `Routable`, and 0 exactly if there is none; for all lists, hits, depths and start indices | the walk reaches every index once (`WalkReaches`); `FirstStep` is the least step of a nonempty set; what `pick` takes is a least-loaded pair with room (`PickPair`); the two passes are the two cases of the rule |
| `RuleAlwaysKept` | `Spec => []SelectBackendRefines` | the first theorem, with `RouterTypes`: the live part of a list is a list of its pairs |
| `RotationStaysFair` | `Spec => []RotationFair` | `Nearer`: the times a pair has been passed over plus the steps from the index to it are fewer than the pairs. If it is as good as the chosen one, the walk meets the chosen one first (`ColdChoice`), so the next index is nearer (`ComesNearer`). |

`CacheStoreProofs`, for finite sets of backends, keys and transfers, all sizes, budgets and
directory orders:

| theorem | statement | argument |
|---|---|---|
| `TotalsAreSums`, `NoKeyTwice`, `BudgetKept` | `TotalIsSum`, `KeysListedOnce`, `WithinBudget` | `RingInv`, per backend: the total is the sum over the ring; no key twice; while someone evicts, the entries still to visit are in the ring, and the ring without the victims to come is within the budget; with the lock free the total is. The lemmas on sums say what appending, replacing and deleting an entry does to the total. |
| `TransfersTracked` | `TrackerExact` | the tracker has the pairs of the running copies, and no two of them are equal |
| `MetaStaysListed` | `OneHome` implies `Spec => []MetaInRing`: the half of `MetaInSync` about the ring, with one backend and any number of slots | `ListInv`: what has metadata is in the ring, but for the entry whose metadata goes next (`unlinked`). With one backend `DeleteMetaFile` can only find that backend's own (`MetaGone`). |
| `MetaStaysInSync` | `OneSaver` implies `Spec => []MetaInSync` | `SyncInv` adds, for one slot: while the proxy serves, it is the request on the slot that holds RingMu, so no file is saved under a running eviction; and what has metadata has its file |
| `CacheTypes` | `TypeOK` | with what a place implies: a request that has saved knows its key and bytes, a copy past the check of its source is of a file that is not empty, so what either registers has a size |

`StreamProofs`, for every channel size and length of the response:

| theorem | statement | argument |
|---|---|---|
| `StreamTypeCorrect`, `ClientSeesNoGap`, `CompleteStreamsArrive` | `StreamTypeOK`, `NoGap`, `CompleteReachesClient` | `FlowInv`: the client's chunks and the channel's are one line, from which at most the last one read is missing, and only if the reader has ended (`Line`); which places of reader and writer belong together (`Phases`); cleanup starts after the reader's end, unless the client has left (`Sent`). `NoGap` alone says nothing of what is still in the channel. |
| `StreamImplementsService` | `StreamSpec => ImplementsStream` | each step maps to a step of `StreamService` or stutters; a written chunk is the next one by `NoGap` of the next state |

The lemmas are stated for `Flow`, a stream step or a step of the worker that leaves
the stream alone; so `SlotSessionProofs`, for every set of prompts, blocks and
thresholds, uses them for the composition:

| theorem | statement | argument |
|---|---|---|
| `SessionTypeCorrect`, `CacheFilesHonest`, `SlotTrackingHonest`, `StatusMatches` | the invariants | `SessionInv`: where the slot's real content is known (`ContentKnown`: a remembered skipped save, or a complete answer), what is tracked in each place (`Tracks`), which fate goes with which end (`Records`). A complete stream stays complete since the body is closed once cleanup has begun. |
| `SkippedSavesKept` | `SkippedSaveKept` | `Skips`: a save counted as skipped is remembered and tracked until the flush, so the flush's view of the slot is right |
| `NearFullSkips` | `NearFullNotSaved` | only a flush and a save decision write a file for the worker, and both ask `NearFullSkip`; the environment's steps leave the worker's place. Of `SessionInv` only the types are needed. |
| `SessionImplementsStream` | `ImplementsStream` | every step of the session is a `Flow` step |

`RegistryProofs`: `RegistryTypeCorrect` and `OneRoundLives`. The two are
inductive together: the loop starts a round only at the end of a turn, when it waits for none, so
all others are over or expired.

`MetricsProofs`: `MetricsTypeCorrect`, `RecordsStayExact`, `CountsStayExact`,
`UnlockedReadsSafe`. The invariant adds that `GetPerformance` holds completed requests
only, which never record again; that a buffer has one record per request is
what makes `rebuildByID`'s choice unique.

`TypeInv` and the conjuncts of the inductive invariants were checked by TLC on
the instances of the runs before they were proved.

What needs induction over data is proved where it could be said over sets. The
library's induction theorems take an operator, which the provers cannot
instantiate; but that the order on the naturals is well-founded takes none. So
`CacheStoreProofs` and `RequestRouterProofs` take the set of numbers (or of
subsets of a finite set) for which a fact fails, and look at its least element. That is how a
`SumFunctionOnSet` is split and renumbered, and how `LiveListTypes` follows the appends of
`match`. `LiveUpTo` is a recursive function for that reason.

Every safety property and every refinement that a passing run checks has a theorem, `SlotExclusion`,
`HeldSlotsMarked`, `ImplementsService` and `MetaInSync` one with a
hypothesis named above: these are also checked only on instances that satisfy it, and
`Dispatcher_double` and `CacheStore_sync` show two of them fail without. `SettledOnce` compares outcomes; that a
settled request is settled a second time in the same way is excluded by `OneOwner`, by which
nobody has it any more. Only model-checked is liveness (`EveryRequestSettles`, `StreamEnds`,
`LoopGoesOn`, `RecoversRegistry`): the prover has no rules for fairness and ENABLED.

## Not modelled

- HTTP and JSON of `llamaclient.go` and the agent's server (`cacheagent.go`,
  `cache-agent/main.go`): their outcomes are choices of the modules that call them.
- Name resolution and generated names (string functions of the registry): which
  names mean which pairs is a parameter (`Options`, `Hosts`, `Lists`).
- Block hashing: a block is an opaque value.
- The read-only HTTP handlers, the other metrics queries, latency averages,
  logging, configuration parsing, the dashboard: nothing else reads what they
  compute, or they compute what is a constant here.
- `archive/python`, a retired implementation.
- `lastUsed` of slots, timestamps and scores of ring entries: they choose among
  alternatives the models leave free.

## Plan

The models are complete for what they set out to model, and every safety property that a passing run
checks is proved. Left to prove: what remains true of files, metadata and rings with
several backends, where `MetaInSync` fails as the Findings say.
