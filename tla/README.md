# A TLA+ model of the VPUNN cost model

VPUNN predicts how many cycles a piece of work takes on a VPU: a DPU workload
(level 1, "L1"), a whole layer split over tiles (level 2, "L2"), a SHAVE
kernel, or a DMA transfer. A compiler asks it from many threads. What makes it
hard is not the arithmetic of one prediction. It is the state shared between
the predictions (caches, per-thread contexts, log files), the chain of sources
that may each fail, and a result type in which a number of cycles and an error
code are the same 32-bit unsigned integer.

The pieces that feed them are modelled too: how a layer is split over tiles and
cut into workloads, what the validators accept, how a SHAVE kernel or a transfer
gets its cycles. Their properties are about what a split loses or repeats.

This directory holds TLA+ modules for those parts, TLC configurations that
check them on small instances, and TLAPS proofs of the main properties for
every instance. Paths such as `src/vpu_cost_model.cpp` are relative to the
root of the repository. `PROJECT.json` gives, for each definition that models
code, the lines it stands for.

## 1. Inventory

| Component | State | Operations | Called by / calls |
|---|---|---|---|
| LRU workload cache (`include/core/cache.h`) | list `workloads`, hash table `m_table` of iterators, `shared_mutex`, preloaded table | `add`, `get`, `remove`, eviction | NN, SHAVE and DMA cost models |
| Cycle arithmetic (`include/vpu/cycles_interface_types.h`) | none | `isErrorCode`, `cost_adder`, conversions, extrapolation | everything |
| L1 query (`src/vpu_cost_model.cpp`) | AUTO gate of the profiling service | `DPU`, `DPU(vector)`, `DPUInfo`, `DPUMsg` | callers, L2; calls the providers |
| NN cost provider (`include/vpu/nn_cost_provider.h`) | map thread -> execution context, raw-value cache | `infer`, `get_cached`, `add_to_cache` | L1; calls cache, network, log |
| HTTP profiling provider and client (`src/http_client`) | socket | `getHttpCost` | L1, SHAVE |
| L2 query (`src/vpu_layer_cost_model.cpp`, `include/vpu/utils.h`) | the caller's `LayerSplitInfo` | `Layer`, `LayersPreSplit`, batched forms, best strategy, `dpu_schedule` | callers; calls L1 through the tiler, DMA and SHAVE models |
| Intra-tile tiler (`src/optimization`) | none kept | `intraTileSplit`: rows, columns, channels, the cheapest split | L2; calls L1 |
| Layer splitting (`include/vpu/layer.h`) | none | `splitAcrossTiles` | L2 |
| SHAVE cost model (`src/vpu_shave_cost_model.cpp`) | cache, AUTO gate, selectors per device | `computeCycles`, code prefetch | callers, L2; calls the SHAVE providers |
| SHAVE providers (`include/vpu/shave`) | tables of operations | `get_cost`, lists of operations | SHAVE cost model |
| DMA cost model (`src/vpu_dma_cost_model.cpp`, `include/vpu/dma_cost_providers`) | cache, AUTO gate, contexts | `computeCycles`, conversions between forms of a transfer | callers, L2 |
| Log (`include/core/serializer.h`, `include/vpu/serialization`) | write buffer per thread, file, `file_mutex` | `serialize`, `end`, wrappers | every query |
| Validators, sanitizers | device tables | verdicts and error codes | L1, L2 |
| Network runtime, preprocessing | buffers of a context | `predict`, `transform` | NN and DMA providers |
| Energy, performance, logger, bindings, generators | none | formulas, text | - |

How they interact. A layer query splits its layer, asks the tiler for every
tile, and the tiler asks the L1 model. An L1 query looks up the cache, then may
ask the profiling service, then the network (which has the same cache under
it), then a theoretical formula, and at the end puts what it found into the
cache. Each query opens a row in a log before it starts and closes it when its
cost is known, while the queries nested in it do the same in their own files.

What is hard, and where the properties point (`hazards` in `PROJECT.json`, each
with its line; those that no property covers say why in a note):

* several threads in one cache whose `get` takes two locks one after the other;
* an insertion that overflows the cache and evicts from another structure;
* the network's output read back from a buffer that must be the thread's own;
* a value checked in the cache, computed without a lock, then added;
* final cycles stored where raw network values are expected;
* each source of a cost failing in the middle of a query, or missing;
* error codes and large cycles added up over tiles, channels and transfers;
* one element of a batch, or one tile of a layer, failing or throwing;
* a caller's result object that is used again;
* log rows of nested queries and of other threads, exceptions in the middle;
* lines, columns and channels at the borders of tiles and workloads, where
  kernel, stride, padding, halo and alignment meet;
* a selector that two threads create at the same time and use without a lock;
* an error code that is divided, or converted to a float, before it is tested.

What would make each part correct:

* cache: exactly the LRU contract, for every interleaving; never an exception;
* L1: the cost of some source for that very workload; an error only if no
  source has a cost; the query ends;
* L2: the exact cost or an error, never a wrapped sum; no failure lost;
* splitting: the tiles read exactly the lines they need, the workloads compute
  every element once, and both routes to the same tiles give the same cost;
* SHAVE and DMA: the cost of that very workload, whoever cached what before;
* log: every completed row once, whole, in order; nothing of an abandoned one.

## 2. Modules

| Module | Models | Size of the state |
|---|---|---|
| `LRUCache` | `LRUCache<K,V>` over `FixedCacheAddON<K,V>` | list, table, lock, a call per thread |
| `WorkingSetCache` | the abstract promise of an LRU cache | resident keys and, for each, the keys used since |
| `LRUCacheProofs`, `LRUCacheRefinement` | theorems about `LRUCache`; the proof that it implements `WorkingSetCache` | |
| `Cycles` | `CyclesInterfaceType` and its operations | none |
| `VPUCostModel` | the L1 query, the provider chain, the NN provider | cache, contexts, buffers, gate, a query per thread |
| `VPUCostModelProofs` | theorems about `VPUCostModel` | |
| `Serializer` | `Serializer<CSV>` and the wrappers of the queries | buffers, files, locks, a stack of wrappers per thread |
| `SerializerProofs` | theorems about `Serializer` | |
| `LayerCost` | `layer_cycles`, `layer_pre_split_cycles`, strategies, batches | one query, its loops, its caller |
| `LayerCostProofs` | theorems about `LayerCost` | |
| `DPUPipeline` | `Layer` and `LayersPreSplit` for DPU layers up to the cost of the tiles | one query and its tiles |
| `DPULayer`, `Tiling` | `splitAcrossTiles`; the intra-tile tiler | none |
| `DPULayerProofs` | theorems about the split of one axis in `DPULayer` | |
| `DPUPipelineProofs` | theorems about `DPUPipeline` and about the tiler's splits | |
| `DPUValidation`, `DeviceValidValues`, `HWCharacteristics`, `SmartRanges`, `VPUTensor` | validation and sanitization, device tables, ranges, tensors | none |
| `DeviceQueries` | SHAVE and DMA cost models, SHAVE layers | caches, gates, selectors, a call per thread |
| `DeviceQueriesProofs` | theorems about the SHAVE queries of `DeviceQueries` | |
| `ShaveProviders`, `ShaveCollections`, `ShaveExecutors`, `ShaveModels` | providers and selectors, the operations of each device, their executors, the formulas | none |
| `DMACost` | forms of a transfer, theoretical models, post-processing of the DMA network | none |
| `MC...` | instances for TLC | |

`VPUCostModel` uses the cache through what `LRUCache` is shown to promise:
atomic lookups and insertions, the first value stays, entries vanish at any
moment. `LayerCost` takes the answers of the tiler and of the DMA model as
inputs; `DPUPipeline` is what comes before it and `DeviceQueries` where the
costs of transfers come from. All use `Cycles`. Operators whose comment begins with "Mutant" are
wrong variants of the definition that follows; no specification uses them. Each
property is known to fail when its mutant takes the place of the code it
models.

### LRUCache

One action per critical section. `add` is `CallAdd`, then one of `AddFixed`
(the preloaded table knows the hash), `AddTouch` (present: spliced to the
front, old value kept) and `AddInsert`, which keeps the unique lock for the
eviction loop: `CleanUp` is one iteration including `remove` and its exception,
`AddEnd` the exit with the consistency check. `get` is `CallGet` (preloaded
table, no lock), `GetFind` (shared lock) and `GetTouch` (unique lock, second
lookup): the gap between the last two is where other threads come in. An
iterator is represented by the pair it points to, so it dangles when that pair
is not in the list. Hit and miss statistics are left out.

`WorkingSetCache` states what callers may rely on without a list: a key is
resident exactly while fewer than `Capacity` other keys were used since its own
last use. `ImplementsWorkingSet` is the refinement; the mapping reads the keys
in front of a key as those used since, and hides the surplus element while the
lock holder is still evicting.

### VPUCostModel

`CallDPU` is `DPU_and_sanitize` up to `get_cost`, `Close` its end; the steps in
between are `run_cost_providers` in its order: `TryCache`, `CheckGate`,
`TryProfiling`, `TryNN`, then the inference (`FindContext`, `EmplaceContext`,
`LookupRaw`, `Predict`, `StoreRaw`, once for each clone of an extrapolated
workload), `NNDone`, `TryTheoretical`, `Recheck` and `Share`. Every access to
shared state is a step of its own. A dual-sparse workload runs the chain twice,
for its two clones, and `CombineRuns` takes the cheaper. `SetGate` is
`setProfilingEnabledForAutoHint`, `Evict` the effect of queries about other
workloads. Whether a network was loaded, what the environment says about
profiling, and which thread constructed the cost model are chosen in `Init`.

The network, the theoretical formula and the service are constants: functions
from workloads to raw values, 64-bit cycles and cycles. The service may also
fail at every call. Each cache entry carries, for the properties only, where its
value came from and the cost its author returned.

### Serializer

A token is abstracted to the row it was written for, and the columns to six
groups that are written together, so that mixing two rows is visible. A query
is a wrapper on its thread's stack: `Call` constructs it, `OpenLine` writes the
first fields (or throws and cleans), nested queries run while it is in phase
"work", `CloseLine` writes the last ones, `NextRow` the rows of a batch or of
the splits of a layer, `EndWrite` and `EndNewline` are the two halves of
`end()` under `file_mutex`, `Throw` is an exception of the computation and
`Destroy` the destructor that unwinding runs. Which fields each wrapper writes,
which file it is given, when it skips and how it reacts to an exception are the
operators at the top. Without a network the file of the L1 queries and that of
the cache misses are not initialized and `serialize` does nothing.

### LayerCost and Cycles

`Cycles` keeps the shape of the type: values up to `MaxV`, error codes at its
upper end, wrapping sums, the saturating `cost_adder`. The width is a constant.
`LayerCost` runs one layer query at a time, one loop element a step: `Validate`,
`Split`, `Tile` for each tile with `extractLargestTime`, `Weights` for each tile
with the priority queue of `dpu_schedule`, `Transfer` for inputs and outputs,
each stage present or not according to the three flags. `Throw` is an exception
outside the tile loop. Around it `Ask`, `Call`, `Return` and `Answer` are the
three callers: one layer, the best of all strategies (`min_element`), a batch
(`LayerBatched`, `LayersPreSplitBatched`). The object for the details may have
been used before. Ghost variables follow each loop in unbounded integers.

### DPUPipeline and the modules under it

A query goes through the stages of `layer_cycles` before transfers are added.
`Layer` sanitizes the layer (swizzling off, AVEPOOL to DW_CONVOLUTION, the
validator's preconditions) and checks it; `SplitLayer` is `splitAcrossTiles`
with the check of every tile; `SplitTile` is `intraTileSplit` for one tile, with
the exception that becomes an error code; `LargestTime` is `extractLargestTime`.
`LayersPreSplit` hands in the tiles that the caller cut from the layer as it was
before. `IterateRange` and `DivideChannels` run two algorithms by themselves,
the iteration of a `SmartRanges` and the dynamic program of
`EfficiencyBasedSplitter`, and compare them with their definitions by sets.

* `DPULayer`: clustering, SOH and SOW with overlapped inputs, SOH with halo, SOK,
  each with and without broadcast; one operator for an axis stands for the code
  that the source repeats for height and width. Padding, halo, memory tensors
  and storage elements (SEP) follow each tile.
* `Tiling`: which algorithms an operation allows, the pools of numbers of
  splits, `HWTiling`, `ZTiling` (both splitters) and `ZEffTiling`, and the cost
  of a split with `dpu_schedule`'s rule for several DPUs. The cost of a workload
  is `InferredCycles`, a constant that may also be an error or an exception.
* `DPUValidation` follows the order of the checks: ranges of the tensors, kernel
  and padding, strides, types, layouts, memory, each a code. `DeviceValidValues`
  holds the tables of the devices, `SmartRanges` the ranges with one or two
  divisors, `HWCharacteristics` and `VPUTensor` sizes and element widths.

### DeviceQueries and the modules under it

A call (a kernel, a SHAVE layer, a pre-split SHAVE layer, a strided transfer) is
a sequence of requests to the SHAVE and the DMA model. A request takes one step
for each access to shared state. `TryCache` is `try_cache`, `CheckGate` and
`TryProfiling` the service, `FindSelector` and `CreateSelector` the two halves
of `getOrCreate`, `UseSelector` the provider's formula, used with no lock held,
`AddToCache` the insertion of the warm cost and then the prefetch. `DmaTryCache`
and `TryPriorityProvider` are the DMA model. `KernelsDone` and `TransfersDone`
are the arithmetic of the layer queries. An unsigned conversion that C++ leaves
undefined is a choice between the values that builds produce.

* `ShaveProviders`: for each device the providers that are asked, in order, as a
  sequence of visits (which selector, under which name, with which conversion of
  clocks); the lists of supported operations; the code prefetch.
* `ShaveCollections`: how the instances of each device are registered, the first
  registration of a name wins; a few rows of every table.
* `ShaveExecutors`, `ShaveModels`: executors and formulas. Floats are scaled
  integers (thousandths); where the code truncates or rounds, so does the model.
* `DMACost`: the descriptor with strides, the two network forms, the legacy form
  and the conversions between them; latency, bandwidth and stride penalties.

Keys of the SHAVE cache leave out what `operator<` leaves out: layouts of the
tensors and the wish for the prefetch.

## 3. Runs

| Run | Instance | Shows |
|---|---|---|
| `lru_cache` | 2 threads, 4 keys, 2 values, capacity 2 | the cache invariants, the refinement, and that the lock is released |
| `two_threads` | 2 threads, 2 workloads | inferences are not mixed up |
| `provider_chain` | 1 thread, 7 workloads of every kind | AUTO falls back to the last source, no error is shared, every query returns |
| `log_threads` | 2 threads, single and batch queries | rows are whole and appear once, no thread waits forever |
| `log_nested` | 1 thread, all kinds of queries, 4 of them | rows of nested and failing queries: complete, in order, no half row left behind (that each is there once is proved) |
| `layer_cost` | 2 layers, 3 tiles, 2 channels | exact cost or error, no failure lost, callers' results |
| `dpu_pipeline` | 4,417 queries about small layers on 5 devices, 135 ranges, 216 divisions | tiles and workloads cover the layer exactly, memory of halos, broadcasts and workloads, handed-in tiles cost the same, ranges and channel splits are right |
| `shave_queries` | 2 threads, 5 shared calls, 1,152 calls of a new model | selectors stay alive, a cost belongs to its workload, listed operations exist, SHAVE layers are exact, conversions keep the bytes |
| `nn_label`, `shared_result`, `row_provider`, `tile_error` | as small as possible | the four disagreements of section 6 |

Why the bounds are enough to be interesting:

* Cache: two keys share a hash and one is preloaded; with four keys and room
  for two, every list operation at every position and evictions between the two
  lookups of a `get` happen. Two threads suffice for each pair of critical
  sections; the theorems cover the rest.
* L1: `a` is a normal workload, the network's output for `b` is out of range,
  and the service's cost for it is zero, `d` is dual-sparse with clones `a` and
  `b`, `e` is extrapolated from `a` and `c`, `p` is preloaded, `s` is refused by
  the sanitizer, `z` has neither a valid network value nor a theoretical cost
  that survives the narrowing. All values differ, so a mixed-up cost is seen.
  The two-thread run uses `a` and `b`, the two that differ in how they reach the
  cache; workloads of several runs are left to one thread. `MaxV = 200` and an
  error range of 50 keep the arithmetic small; nothing depends on the width.
* Log: two rows a batch and two split rows a layer are the first and the last;
  four queries allow a layer, a DPU query in it, a miss in that, and a further
  query that would find a dirty buffer. Two threads meet in the same file.
* Layers: costs 1 and 14 and transfers 2 and 9 with an error range that begins
  at 31: sums stay below, reach the range, and pass `MaxV`. Three tiles on two
  channels make the schedule choose; two layers give a second use of everything
  that the first one left behind. `MaxCalls` bounds a batch, `MaxTiles` the
  tiles, `MaxQueries` and `ExtraRows` the log.
* Splitting: every height from 3 to 10 with kernels up to 5, strides up to 3 and
  padding up to 2 on each side, on two and three tiles. This includes tiles that
  consist of padding only at the start, strides longer than the kernel, and
  fewer lines than tiles. 16 to 144 channels give full, partial and empty last
  groups; grids of up to five DPUs trim both rows and columns. Queries with
  channels are also asked in a regime in which L1 fails or throws for some modes.
  `maxWorkloads = 8` stands for the 128 of the code: with it the pools still hold
  numbers below, at and above the number of DPUs and of useful splits.
* Ranges: divisors that divide each other, that do not, and that are missing,
  with bounds on either side of the border between them.
* SHAVE and DMA: calls that meet in the cache, the gates or the selectors are
  made by two threads, three calls and switches together (`MaxQueries`), with a
  cache of one entry so that each call can evict the other's. All the others
  (every operation of every device, layers, pre-split layers, descriptors) are
  made of a new model, since they share nothing that the first kind does not
  exercise. `MaxV = 600000` is above every cost of the instance except those
  meant to reach the error range.

Deadlock is checked except for the log and for `DeviceQueries`, where the
threads stop when `MaxQueries` is used up.

Fairness. `LRUCache`: only the thread that holds the lock must go on (its loop
waits for nothing); nothing is assumed about who gets a free lock.
`VPUCostModel`: a thread in the middle of a query keeps running; locks are held
for one lookup and sockets have time limits. No call, switch of the gate or
eviction is assumed to happen. `Serializer`: the same for a thread inside a
wrapper; with a bounded number of rows a thread that waits for `file_mutex` is
passed over only finitely often.

## 4. Proofs

`LRUCacheProofs` holds for all sets of threads, keys, values and hashes, any
preloaded table and any capacity. Assumptions: the capacity is a natural number
(`SizeAssumption`), `hash` maps keys to hashes (`HashAssumption`), the preloaded
table maps some hashes to values (`FixedAssumption`), and the null values are
none of the others (`NoneAssumption`). The invariants are not inductive alone:
that `add` cannot throw needs list and table of the same size, which needs the
iterators to be valid and keys to be distinct, and that an unlocked cache fits
needs to know who is in the eviction loop. `IInv` therefore adds
`LockDiscipline` (a thread evicts exactly when it holds the lock; a thread about
to insert has a value) and that the table is finite. The lemmas `SpliceLemma`,
`SpliceDistinct` and `TouchLemma` say what moving a node to the front keeps.
From `Inductive` follow `TypeCorrect`, `IteratorsAlwaysValid`, `AlwaysBounded`,
`ErrorsUnreachable`, `SourcesDisjoint`, and the action property
`ResidentValuesStable`.

`LayerCostProofs` holds for every width of the type that has room for the error
codes (`CyclesAssumption`), any number of tiles, layers and channels, and any
answers of tiler, DMA model and validators that are values of the type, errors
for the last (`LayerAssumption`). The heart of `IInv` is `Tracking`: every
accumulator equals its exact counterpart as long as it is not an error, and
without a bad answer it is an error only if the exact sum does not fit; and
`Lossless`: a bad answer is in some accumulator until it is in the cost.
`Stages` says which accumulators are in use when, `SplitFollows` that the
caller's split grows with the tile loop, `BatchFollows` how the batch so far
looks. The lemmas `Adder` and `SumTracks` carry `cost_adder`. Results:
`TypeCorrect`, `CostAlwaysExact`, `FailureAlwaysSurfaces`,
`ChannelsAlwaysBalanced`, `SplitAlwaysFresh`, `BestAlwaysWins`,
`BatchAlwaysJudged`.

`LRUCacheRefinement` adds to `IInv` where calls in progress are (`CallsOK`: a
disabled cache is never added to, a `get` that has not returned has no value yet)
and proves `CacheImplementsWorkingSet`: each critical section is one step of the
abstract cache or a stutter. The work is in the mapping: moving a node to the
front puts the key into the "used since" sets of exactly those in front of which
it was not, and an insertion pushes out of the first `max_size` positions the key
that `max_size` others were used since. `AddEnd` and `CleanUp` do not change what
the mapping shows.

`VPUCostModelProofs` holds for any threads and workloads, any width of the cycle
type with room for the error codes, and any answers of network, service and
theoretical model that have their types (`ProviderAssumption`).
`WorkloadAssumption` says what the source guarantees about clones: dual sparsity
is removed in the two clones of `run_dual_sparsity`, and the two channel counts
an extrapolated workload is estimated from are not extrapolated again. `IInv` is
`TypeOK`, `CacheOK` (an entry is the network's own raw value for its workload, or
a cost that was no error) and `ThreadsOK`, which says for each program point what
a thread has in hand: before `StoreRaw` its context's buffer holds the output for
the workload it infers, after the providers the outcome is one that AUTO may have
had. Results: `TypeCorrect`, `InferencesDoNotMix`, `ErrorsAreNotShared`,
`AutoFallsBack`, and `AnswersComeFromProviders`. The last is under `PassesThrough`,
the post-processing that changes nothing: with any other the property is false,
which is what the run `shared_result` shows.

`SerializerProofs` holds for any number of threads, queries, batch and split
rows, with all exceptions. Assumptions: a batch has a row (`SerializerAssumption`),
and every kind of query has one of the files (`FilesAssumption`). `IInv` adds to
the properties `StackOK` (only the innermost wrapper of a thread is not in phase
"work", and wrappers alive together use different files, which is why a nested
query cannot touch the row of the one around it), `WrapOK` (the fields in a
buffer, for each phase of its wrapper), `LinesOK` (a line without its newline
belongs to the thread that holds the lock) and `DueOK` (a row that is due and not
in its file is about to be written). Results: `TypeCorrect`,
`NothingIsLeftBehind`, `RowsKeepOrder`, `RowsAreWhole`, `RowsHaveCycles`,
`RowsExactlyOnce`.

`DeviceQueriesProofs` holds for any number of threads and calls, any cache size
and any measurements of the service. Assumptions: the cache holds an entry and a
call can be made (`DeviceQueriesAssumption`), calls are of the four kinds and
their kernels have an output (`CallsAssumption`). `IInv` says that every cache
entry is a cost of the provider or the service for a kernel of that key that
somebody asked for (`CacheOK`), that a thread in the middle of its visits was
refused by the providers before (`Visiting`), that a selector in use is the one in
the map (`Holding`), and what a thread has in hand at each point (`ThreadOK`).
`VisitsComeToProvider` shows that the visits, one step each, come to the cost of
the provider that the bundle builds. Results:

* `SelectorsOutliveUse` for `SelectorsStayAlive`.
* `ListedOperationsAreFound` for `ListedIsAnswered`: a statement about the tables,
  by `ContainerEntries` (of two registrations the first stays) for each of them.
* `AnswersAreOfTheSameKey`: a SHAVE query answers a cost for a kernel with the same
  cache key, its own or one of another call.
* `ShaveAnswers` for `ShaveAnswer`: the cost is one of its own workload, if the
  outputs of the kernels are in whole bytes (`WholeBytesOut`). The hypothesis is
  what the proof turned up: the key leaves the layout out, and the size in memory
  of a tensor with 4-, 2- or 1-bit samples depends on the layout, because rows are
  padded to bytes. With whole bytes (`SizeOfWholeBytes`) the key decides all that
  the model's providers look at (`KeyDecidesProvider`). Section 6 has the case.

`DPULayerProofs` is about the operators of `DPULayer`, not about a specification:
the loop that `SOH_overlapped_inputs`, `SOW_overlapped_inputs` and
`SOH_HALO_inputs` share (`TileContext`), for any number of tiles and layers of any
size. The hypothesis `WellFormed` is what validation asks of a layer: sizes,
kernel and stride are positive, the outputs read lines of the padded input only
(`compute_output_dim`), and there is less padding than kernel on either side
(`get_padMax` allows half of the kernel). The lemmas give the slices (`Slices`,
`SlicesSuffice`), the interval that a range of outputs reads (`HullOfReads`), how
many of its lines are in front of, in and behind the input (`LinesCounted`) and the
loop variables as arithmetic (`ContextOf`). Results:

* `TilesCutTheOutput`: each output belongs to exactly one tile.
* `TilesHaveTheirLines`: the input of a tile that is not empty has as many lines as
  its outputs span within the layer's input, and its paddings as many as they span
  outside; only the last tile keeps the padding of the end unread.

These are the two halves of `TileGeometry`.

`DPUPipelineProofs` holds for any queries and ranges, any answers of L1 (errors and
exceptions included) and any devices. Assumptions: a query has a layer as a caller
can write it down, with unsigned sizes and integer halos, and a natural number of
tiles (`QueriesAssumption`); a range is as its constructor makes it
(`RangesAssumption`); the type has room for the error codes (`CyclesAssumption`). No
property of the tiles is inductive: the state holds tiles, not where they come from.
`CallInv` says it. `AskedAndChecked`: the layer is the sanitized one of the query, and
where there are tiles its check found no error. `TilesOfTheSplit`: the tiles are those
of `splitAcrossTiles` of that layer, whoever made them. `ResultsOfTheTiles`: what was
computed is `intraTileSplit` of the tiles so far, and a call that ended answers with
the largest of them. The step that needs work is `LayersPreSplit`, where the caller
split the layer before it was sanitized: `Prepared` changes two fields
(`PreparedIs`), the operation and the swizzlings. The splitters write neither and
look at the operation only to tell convolutions, the replaced ones among them, from
the rest; the removal of empty tiles and the limit of the broadcast do not look at
them at all (`RemovalDisguised`, `BroadcastDisguised`). So both orders give the same
tiles. Results:

* `PreSplitGivesTheSameCost`: `PreSplitAgrees`, from `ResultsOfTheTiles`.
* `TilesFitTogether`: `TileGeometry`. What the theorems of `DPULayerProofs` ask of a
  layer follows from the check it passed (`CheckedIsWellFormed`); the empty tiles are
  the last ones, so those that are left are the first m with their contexts.
* `HalosCoverTheInput`: `HaloLinesStoredOnce`. `LastStored` and `FirstStored` give
  the lines in the memory of each tile in closed form; consecutive tiles meet.
* `TilesHoldTheirOutput`: `OutputMemoryWhole`. A slice with what comes before and
  after it is the whole, and where the limit of the broadcast leaves one tile, that
  tile is the whole output.
* `RangesAreEnumerated`: `RangeEnumeratesMembers`. The invariant is that the range
  was iterated; the content is in `FollowingIsNext` (the value after a valid one is
  the least valid one above it, also across the second divisor) and `RangeListed`,
  where a least step of the iterator that went wrong is shown not to exist.
* `RowsAndColumnsCoverTheTile`, `ChannelsCoverTheTile`: two theorems about `Tiling`'s
  operators. `splitOverHW` and `splitOverZ`, with any sizes, numbers of slices and
  modes, compute every element of a tile's output in one workload and nothing
  beyond it; with rows and columns no workload is empty. The rounded size times the
  number of slices suffices (`GridSuffices`), a position is in one slice
  (`OneSlice`), and cells are numbered row after row (`Cells`). They are the part of
  `SplitCoversTile` that does not depend on which split is chosen.

Before it was proved each of these inductive invariants was checked by TLC on the
instances of section 3 (for `DeviceQueries`, with fewer calls of a new model).

Only model-checked:

* `LockReleased`, `QueriesReturn` and `WrappersEnd`, which are liveness.
* `ShaveLayerExact` and `TransfersConserved`. Both are about folds over sequences of
  any length: the sums over requests and tiles, the product of the dimensions of a
  descriptor. The library's folds take an operator, and no prover here instantiates
  a theorem about an operator, so what a fold computes for every input stays open.
  Besides, the exact sum in `ShaveLayerExact` is not true of every instance: where a
  tile has several tensors to move, `+=` adds their transfers without a check, and
  enough of them wrap. The costs of the run do not reach that.
* `CheapestPartition` (the dynamic program of `EfficiencyBasedSplitter`), for the same
  reason: two nested folds over a table, and a walk back through it.
* `SplitCoversTile` as a whole. Besides the two splits proved above it has
  `divideBalanced` and `EfficiencyBasedSplitter`, whose offsets are sums of bins, and
  the choice among all variants, which are flattened sequences of sequences.
* `WorkloadsAddressTile`, for the same reason, and because it is about the workloads
  that are chosen: others, with nothing to compute, do not have the property.

## 5. Not modelled

* Numbers fitted to measurements: the network's kernels and preprocessing, the
  energy formulas, and most rows of the SHAVE tables (each family of formulas is
  there with a row or two). They are constants; nothing about them needs a state.
* The batch queries `DPU(vector)` and of the DMA network, the time limit of the
  tiler's search (`layer_cycles` sets none), the HTTP client (to its callers it
  answers or fails), header updates of the log and two serializers on one file,
  the cache of descriptor keys, preloaded tables of the SHAVE and DMA caches.
* In `DPUPipeline`, `nDPU = 0`: the loop over split numbers would not end (see
  below). In `DeviceQueries`, `nSHV = 0`, which divides by zero.
* Text: messages, CSV formatting, logger, Python bindings, sample generation.
* Floating-point rounding, apart from where it changes what a result means (the
  float of an error code). The caches of the SHAVE and DMA models store cycles
  as floats, so a repeated cost above 2^24 may be rounded; here it is exact. So
  is a shared cost, which `vpu_cost_model.cpp:243` casts to a float before it
  adds it to the cache (`Share`).
* The batch dimension: the tensors of the models have batch 1, so the batch
  checks of the validators (`dpu_operations_validator.h:168`, `:185`, `:216`,
  `vpu_layer_validator.h:157`, `:172`, `:196`) always pass and are left out.
* Two hazards are described but not covered by a property, because the code has
  them and nothing in the repository promises otherwise: SHAVE workloads that
  share a cache entry though their layouts differ (`ShaveAnswer` admits the cost
  of another call with the same key), and the `+=` over several tensors of one
  SHAVE tile, which can wrap (`ShaveLayerExact` asks nothing of such a tile when
  a transfer fails, and the costs of its run do not wrap otherwise).

## 6. Disagreements between code and documentation

* `nn_label`: a cost that an AUTO query took from the profiling service or the
  theoretical model is put in the cache of raw network values. A later NN query
  finds it and its row names the network as the provider; the repository's
  README promises the provider that was used.
* `shared_result`: the shared value is final cycles, but it is read back as a
  raw value and post-processed again. With a post-processing other than the
  identity the second query of a workload returns a different cost.
* `row_provider`: rows of a batch query name no provider, and their cycles go to
  a column that the file does not have.
* `tile_error`: a comment in the pre-split SHAVE query says that the error code
  of a tile dominates any regular value. The code divides the tile's answer by
  the number of SHAVEs, as floats, and converts it back before it looks at it.
  With two SHAVEs a failed tile is a regular cost of about 2^31 cycles; with one
  the conversion is undefined. `Layer` tests before it divides. Two tests that
  ask for kernels nobody knows pass because of this.

Met while reading, without a run of their own:

* `LRUCache::add` keeps what is there, so the sharing at
  `vpu_cost_model.cpp:243` does not replace the invalid raw value that the
  network's inference cached a moment before in the same query.
* `split_options.h:30` says that `nDPU = 0` means auto-detection; the loops of
  `hwtiling.cpp:44` and `ztiling.cpp:61` then never advance.
* `SOH_HALO_inputs`: when the padding at the start reaches past the first tile,
  the second tile's halo is set to zero and its lines are in two memories, though
  `layer.h:527` speaks of a distributed overlap. `HaloLinesStoredOnce` excepts
  this case.
* `HWTiling` clears `broadcast_cnt.right` in the first column and does not
  restore it for the last. `ZTiling::splitOverZ` makes workloads of no channels,
  which only the L1 validation refuses.
* `PriorityShaveCostProvider` and `PriorityDMACostProvider` announce the last
  error and return a fixed one. `NameMappingShaveCostProvider` documents the
  names of the underlying provider and returns the mapped ones.
* `vpu_dma_cost_model.h` says that without a network the answer is
  ERROR_INFERENCE_NOT_POSSIBLE; the chain falls back to the theoretical model.
* The order of `VPUTensor` leaves out the layout and that of `SHAVEWorkload` the
  extra parameters, both of which `==` compares: such workloads share a cache
  entry. For samples of less than a byte the layout changes the size in memory
  and so the cost (`tensor_size` pads rows), and the second workload gets the cost
  of the first; `ShaveAnswers` excludes these. `DMANNWorkload`'s order includes
  `loc_name`, which `dma_workload.cpp:49` calls no cache key.
* On VPU 2.7 the second registration of "vpuem.mvn" (`shave_collection.cpp:191`)
  has no effect, because `insert` keeps the first.
* `SmartRanges::roundToNextLarger` has no value below the lower bound, contrary
  to its comment. `InterpolateWH_IWHO_ActExec` takes the width for the height.

## 7. Plan

Done: the cache with its abstract specification and proofs, the L1 chain, the
log, the L2 queries for DPU layers with proofs, layer splitting, tiler and
validation, the SHAVE and DMA models and the SHAVE layers.

Proved: all safety properties of the cache, its refinement, the L2 queries for DPU
layers, the L1 chain, the log; of the SHAVE queries selectors, listed
operations and answers; of splitting, the geometry, the halos and the memory of the
tiles, that both routes to them agree, the ranges, and the regular splits of a tile.

Not done, in order of interest:

1. `DPU(vector)`, whose inference post-processes twice and whose result vector is
   only reserved, compared with the single query as reference.
2. Two serializers on one file, header updates and a crash in between.
3. The HTTP client's time limits and cut responses.
