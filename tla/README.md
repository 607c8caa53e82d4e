# GrainGEMM: a TLA+ verification project

GrainGEMM multiplies INT8 activations by INT8 weights with one scale per K
group of 256, on Triton and on hand-written CUDA kernels (`sm110`, `sm12x`), and
builds a mixture-of-experts feed-forward API on top. This directory keeps the
models of the parts whose correctness rests on the order of events: the
shared-memory pipelines of the CUDA kernels, the concurrent routing kernels of
the MoE path, the other Triton launches, the choice of a kernel for a call, the
dispatch under CUDA-graph capture, the loading of native libraries, and the
benchmarks, whose reports are made over hours, in several processes and across
rebuilds. Paths below are relative to the repository root.

## 1. Inventory

| Component | State it keeps | Operations | Interacts through | Hard because | Correct when |
|---|---|---|---|---|---|
| two-SM pipeline, `src/grain_gemm/kernels/csrc/sm110/int8_g256_pipeline.cuh` | operand ring (P slots), scale ring (P slots), TMEM ring (2 stages), six kinds of mbarrier, register sums, exchange buffer | TMA issue/land, scale issue/publish, MMA issue/retire, commit arrivals, consumer read/release, epilogue write/sync/store, join and free | mbarriers of two CTAs, multicast commits, remote arrivals, named barriers | twenty-four warps, two CTAs and three asynchronous engines meet only on parity waits | no buffer is refilled while read; every tile's sum is complete; the kernel returns |
| one-SM pipeline, `int8_g256_pipeline_1sm.cuh` | same rings in one CTA, no persistence | same | mbarriers; operand storage is reused as the BF16 exchange | the reuse is legal only after every ring drained | exchange never overlaps a copy or MMA |
| one-kernel ping-pong, `sm110/int8_g256_cute.cu` | P TMA stages, P+1 scale slots, 2 TMEM buffers | prologue, MMA, prefetch, promote | one mbarrier per TMEM buffer, `__syncthreads` | promotion lags the MMA by one group | promoted fragment and scales are of one group |
| MoE kernels, `sm110/int8_g256_moe_{gather,interleaved,fused}.cu` | rings as above, 4 TMEM buffers, A tiles cached across two halves, hidden tile | decode of work items, gather of rows, SwiGLU quantisation | mbarriers, named barriers | skipped tiles, a cached operand, a third arrival on the operand barrier | as above, plus: cached A is of the current tile |
| cp.async mainloop, `sm12x/cutlass/collective.hpp`, `sm12x/int8_g256_cute.cu` | multistage shared-memory ring, register fragments, scale fragments | prologue, wait, copy, pipe advance, promote | `cp.async` groups, `__syncthreads` | group-count waits, register prefetch across tiles | every MMA reads the tile of its own step |
| routing, `kernels/moe.py` (`prepare_routes`, `prepare_ragged_tiles`) | keys, chunk histograms and offsets, order, inverse, tile table | histogram, prefix, scatter, tile search | kernel launches on one stream; programs of a launch are concurrent | concurrent programs, relaxed atomics, reused output buffers, masked slots | order is the stable sort, inverse its inverse, tiles cover each expert once |
| MoE dispatch, `moe.py` (`moe_ffn`) | statistics, capacity, workspace; under capture: a graph with frozen sizes | validate, route, choose kernel, pack, GEMMs, combine | routing, native libraries, CUDA graphs | sizes are decided on the host from data that changes at replay | no routed row is dropped, masked rows are zero |
| GEMM dispatch, `gemm.py`, `kernels/{cuda,cutlass,cutlass_moe,_native}.py` | cached tables and libraries | validate, choose, describe, launch, batched launches | native libraries, Triton, measured tables | a library is looked for twice while tools replace it; Python, tables and C launchers each have conditions | what was chosen runs, explicit backends are honoured |
| native loaders, `kernels/{_native,cuda,cutlass,cutlass_moe,moe_gather,moe_fused,moe_interleaved}.py` | process-wide caches of loaded libraries | check files, hashes and device; load | files written by `tools/build_*.py` | the files change while processes run | what is loaded matches source and device |
| native builds, `tools/build_*.py` | library and `build.json` on disk | compile, replace, hash, write metadata | the loaders | several files replaced one after the other | a crash leaves nothing a loader accepts wrongly |
| Triton launches, `kernels/triton.py`, `kernels/moe.py` (packers, ragged GEMM, activation, combination), `kernels/moe_input_io.py`, the GEMM of `baselines/sglang.py` | an output buffer with anything in it | launches of concurrent programs | the stream; routing's outputs | tails, banded tile order, padding beside tokens, 32-bit offsets | every element stored once, right, from live rows |
| benchmarks, `experiments/prefill/`, `experiments/thor_mega_bf16/`, `experiments/cutlass/`, `experiments/m256-dispatch/`, `benchmarks/` | reports and checkpoints on disk, GPU temperature | open or resume, hash, measure, save, merge, cool, render | child processes, the libraries under `_native/`, the sensor | kills, restarts, rebuilds between and inside sessions, a GPU that does not cool | what is saved stays and names what it measured; they end |
| CUTLASS kernels for Thor, `sm12x/cutlass/{kernel,epilogue}.hpp` | the library's | the library's | | CUTLASS's own | not modelled |

## 2. Modules

| Module | Models | Used by |
|---|---|---|
| `Mbarrier` | the mbarrier object: arrivals, transaction count, phase parity | every `sm110` pipeline |
| `TwoSmPipeline` | one cluster of `thor_ws2::kernel` | `MCTwoSmPipeline`, `CuteLaunch` |
| `TileStream` | what a tiled kernel promises: each writer's blocks in order, return after the last | instantiated by `TwoSmPipeline` |
| `OneSmPipeline` | one block of `thor_ws1::kernel` | `CuteLaunch` |
| `PingPong` | one block of `thor::kernel` | `CuteLaunch` |
| `MultistageMainloop` | one block of `CollectiveG256` and of `gemm_device` | `CuteLaunch` |
| `CuteLaunch` | one call of `grain_cute_g256`: its switch on the configuration, with the four kernels above composed | `MCCuteLaunch` |
| `MoePipeline` | one cluster of the three Thor MoE kernels: `grain_moe_gather`, `_interleaved`, `_fused` | `MCMoePipeline` |
| `RouteSpec` | what routing promises: the stable sort by effective expert | `MoeRouting`, `MoeFfn`, `TritonLaunch` |
| `MoeRouting` | `prepare_routes`, `prepare_ragged_tiles` | `MCMoeRouting` |
| `TritonLaunch` | the Triton launches outside routing, and the SGLang GEMM | `MCTritonLaunch` |
| `MoeFfn` | `moe_ffn`, eager, captured and replayed | `MCMoeFfn` |
| `GemmDispatch` | `int8_gemm`, `get_kernel_config`, the batched launches, the C launchers' choice | `MCGemmDispatch` |
| `NativeBuild` | the build tools, the files they leave, the loaders | `MCNativeBuild` |
| `BenchSweep` | sweeps that save shape by shape: `prefill/benchmark.py` and `prefill/historical_benchmark.py`, `compare_thor.py`/`compare_backends.py`, `sweep_thor.py`; their validators | `Benchmarks` |
| `BenchCheckpoints` | `compare_cutlass.py` and `cutlass/optimization/compare_optimized.py`: one process and one file per shape, then the rendered report and its audit (`audit_results.py`) | `Benchmarks` |
| `BenchPaired` | methods timed in turn: `bench_moe_interleaved.py`, `thor_mega_bf16/benchmark.py`, `cutlass/paired_benchmark.py`, `m256-dispatch/measure.py` and its historical copy | `Benchmarks` |
| `BenchTokens` | token count after token count: `bench_moe_{optimized,ffn,cosmos,vllm}.py` | `Benchmarks` |
| `Benchmarks` | the four families composed; shared variables are one | `MCBenchmarks` |
| `TwoSmPipelineProofs` | theorems about `TwoSmPipeline` | `CuteLaunchProofs` |
| `OneBlockProofs` | theorems about `OneSmPipeline` and about `PingPong` (its instance `Pong`), for any ring size | `CuteLaunchProofs` |
| `CuteLaunchProofs` | theorems about `CuteLaunch`, and with them about `MultistageMainloop` | |
| `MoePipelineProofs` | theorems about `MoePipeline` | |
| `MoeFfnProofs` | theorems about `MoeFfn`, lemmas about `RouteSpec` | |
| `RoutedKernelsProofs` | theorems about `MoeRouting` and `TritonLaunch`, lemmas about the sort and the sums of `RouteSpec` | |
| `NativeLibraryProofs` | theorems about `GemmDispatch` and about `NativeBuild` | |
| `BenchmarksProofs` | theorems about `Benchmarks` and its four families | |

`MoeFfn` and `TritonLaunch` use `RouteSpec` for their routes; `MoeRouting`'s
invariants say that the routing kernels meet that contract, so they compose at
the contract and not in one state space. `CuteLaunch` and `Benchmarks` compose
by choice: one kernel or one benchmark runs in a behaviour, variables of one
name are one, the others are `Unused`.

### 2.1 The shared-memory pipelines

Data are tags. A buffer holds the number of the step (or the pair of item and
step) it was filled for, or `Garbage` while an engine writes it. Reading a
buffer that is being refilled therefore yields `Garbage` or another step's tag,
and the stability invariants say that this never happens. Arithmetic, swizzles,
addresses and BF16 conversion do not appear.

*mbarriers.* `Mbarrier` counts completed phases in `done`. The code sees only
the parity, and so do the models: every wait is `Passes(b, parity)` with the
parity expression of the source. `ArriveExpectTx` and `CompleteTx` are separate
steps that may come in either order.

*Roles.* A role is a cursor (`tma`, `sf`, `mma`, `sequence`, ...) and actions
guarded by its waits. Asynchronous engines are actions of their own: `TmaIssue`
starts a copy and `TmaLand` ends it; `MmaIssue`, `MmaRetire` and the commit
arrivals `CommitEmpty`/`CommitFull` are separate steps, the commits delivered to
each CTA at any later time (in `MoePipeline`, where commits come with the
retirement, a late arrival is the same as a waiter that polls later). A consumer
warp's read spans `ConsumerRead` to its last `ConsumerRelease`; where each lane
arrives for itself (`scale_empty` of the two-SM kernel, both empty barriers of
the one-SM kernel) each lane is a step.

*Shared storage.* The one-SM, ping-pong and `cp.async` kernels stage their
output in the operands' own shared memory. The models overwrite the operand
buffers with `Staged` when the epilogue writes, so an MMA or copy still running
there is visible.

*MoE.* Work items, padding ones included, are a sequence of flags; every role
walks it by its own test and keeps its own serial. `CacheA` is `K == 1536`, in
the model `groups = CachedGroups`; `CachedGroups >= P` is a named assumption and
holds in the code (six groups, at most `P` slots). Without it the next item's
load would overwrite rows that an MMA still reads. A launch is `packed` for the
fused kernel, which has no gather warp: warp 1 loads A with B, and the leader
announces A's bytes only for a half that loads it (`Announced`), which is the
same comparison of halves as the gather's (`LoadsA`). A's and B's loads land
apart, in any order. Both gathering kernels have the same arrivals; the
interleaved one holds both projections in one accumulator, as does `tmem` in the
model. An item's decoding to rows
and columns is left out: items are distinct work, whatever their coordinates.

*cp.async.* `MultistageMainloop` has per-thread groups of pending copies and
waits by count, exactly as `cp.async.wait_group` does: a group that lands late
is another step. `kernel` is an instantiation: ring size, the way the scales
arrive and the width of a store. At 128 bits (configurations 0 to 7) a block
drains its copies and exchanges rows through the stages' storage (`Drain`,
`StageRows`, `StoreRows`); at 32 and 16 (8 to 15, and 16) each thread stores its
own registers and leaves, its trailing copies still in flight and other threads
still in the loop (`StoreDirect`). `CollectiveG256` always drains, as the widest
does.

*The launcher.* `CuteLaunch` has the switch's template parameters as functions of
the configuration: `KernelOf`, `RingOf`, `StoreBitsOf`. A specialised kernel's ring
depth is a constant of the model (`TwoSmRing`, `OneSmRing`, `PingPongRing`), and
`ConfigAssumption` admits only configurations that have it. Any configuration may
refuse a call, also 0 after a fallback: `accepts` says which of the two take it.

### 2.2 Routing and the feed-forward call

`MoeRouting` is one action per program of each launch: programs of one launch in
any order, launches in stream order (`Run`). Every output starts `Stale`
(`torch.empty`). The counting sort and the general sort are both initial
choices. `Replay` overwrites ids and mask and starts the launches again on the
same buffers. `Width` stands for the 32 bits of the bins, so that an id that
would wrap is among the inputs.

`MoeFfn` is one action per host decision or launch group of `moe_ffn`, in the
order of the code: `Select`, `Route`, `Validate`, `CheckExplicit`, `Size`,
`CheckWorkspace`, `Launch`, then the kernels. A row of a buffer is a tag (token,
experts applied, run), so a row of an earlier run, a padding row or an unwritten
row can be told from the right one. Under capture the host decisions are frozen,
and `Replay` runs only the kernels with other ids and masks.

### 2.3 The other Triton launches

In `TritonLaunch` a program is one action: it loads rows and stores a function
from addresses to values. `memory` records for each address its value and how
often it was stored, `loaded` the input rows that were read, so that a race of
two programs, an element nobody wrote and the reading of a masked row (which may
hold NaNs) are all visible whatever order the programs run in. Values are tags of
what was computed from what; quantisation and rounding are left out. Columns are
counted in groups of K, and offsets are `OffsetBits` bits wide: the host's limits on
offsets and on workspaces are applied to the same width.

### 2.4 The choice of a kernel

`GemmDispatch` has a thread per caller. `Begin` validates and starts to choose,
`TryCutlass` and `TryCuda` are the two questions `get_kernel_config` asks of the
disk (each also fills `_load_library`'s bounded cache), `Launch` and
`LaunchBatched` load again and run the C launcher's own switch. A thread may
describe a call before it makes it (`promise`). `vector` is a `scale_b` aligned to 16
bytes: Python asks for it for CUTLASS's vector kernels only, `thor_ws2::launch` (CUDA
26 and 27) asks too and otherwise runs configuration 0 (`ReadsVectors`,
`HandedOver`). Meanwhile tools install builds for
another architecture or break them. `disk` says only what the loaders would
accept; how that comes about is `NativeBuild`'s subject.

### 2.5 Builds and loaders

`NativeBuild` gives each file operation of the tools and of the loaders its own
step. `kind` is the library. A source has a version number, a library is the
versions, architecture and build it came from. `Hashed` tells the protocol:
`build_moe_gather.py` and its copies hash before and after compiling, record the
library's hash and rename both files; `build_cuda.py` and the CUTLASS tools rename
the library, hash the sources then, and write the metadata in place. A kind has
its own set of sources (Thor's units include GB10's). `Abandon` is a failed
compiler or a killed tool, at any step. An edit that returns to older contents
happens between builds only (a change and its undoing inside one compilation
would defeat any hash).

### 2.6 The benchmarks

*Sources.* What a process runs (`loaded`) and what it hashes into its report
(`hashed`) are versions taken at different steps, in the order of the code:
interpreter and imports first, hashes later, or the other way round. `Edit` may
come between any two steps. A case carries both.

Tools that follow one protocol are one module, and `tool` says which is run.
`historical_benchmark.py` is the sweep before resumption was guarded: it starts
over with any existing report unless told to resume (`Replaces`), so what it
promised counts from there. `compare_optimized.py` ("families") also loads the
library from before the optimization, after it has hashed it (`LoadBaseline`),
and its cases name it; `compare_cutlass.py` ("checkpoints") has no such source.
Their measurement is two steps, tuning every backend (`Tune`) and timing the
fastest (`Time`), each of which may raise and save nothing. `Audit` is what the
audit scripts of both make of the checkpoints: it reads and changes nothing, so it
is an operator, and `AuditSound` says what a pass means. `m256-dispatch` loads the
library to see that it is available and compares the file with the occupancy
record only then (`CheckOccupancy`); `thor_mega_bf16` and
`bench_moe_interleaved.py` are under the guard in every stage that uses the GPU
(`Watched`).

*Disk.* `prefill/benchmark.py` and the comparisons of `BenchCheckpoints` sync the
bytes, replace, and sync the directory: `durable` is what a restart of the host may leave, and
`promised` is history, what the last save that returned contained. The other
exports sync nothing, so a restart may leave the report before, the new one, or
a name without bytes (`Torn`); reports older than that are taken as written back.

*Sessions.* A session ends by finishing, by an exception at the place where the
code raises, by `Kill` or by `HostRestart`, and another may resume what it finds.
Measurement itself is a choice: which candidates fit, whether a result is wrong,
whether the GPU heats. The guards' temperatures are one value of each range the
code tells apart.

*Clock.* `compare_thor.py` and `sweep_thor.py` read the limits of the GPU's clock
around every measurement; limits that are equal fix it. `SetClock` may change them
between any two steps. A report keeps what its validator needs of the readings: the
one recorded as the setting, what those beside the cases amount to (`steady`), and
the last, which `sweep_thor.py` takes again after validating (`FinishSweep`).

*Left out.* Further waits of the same kind: the cool-down before the correctness
checks of the paired benchmarks, their second measurement of a pair. The CSV beside a JSON report, setting and restoring clocks, printed
tables, and the smoke, quick and profiling modes.

## 3. Runs

| Run | Question | Bounds, and why they are enough |
|---|---|---|
| `two_sm_rings` | do the three rings ever let a role read what another writes | P = 2, one tile, three groups, two lanes: the third group reuses every slot and stage |
| `two_sm_tiles` | do the warps store what a tiled kernel promises | two tiles of one group, two warps: the sums restart and the exchange buffer is reused |
| `cute_launch` | do all four GEMM kernels of one launcher return, with operands, fragments, stages and the exchange buffer undisturbed | configurations 0, 7, 9, 14 (cp.async: two and three stages, both scale paths, with the exchange and with direct stores), 25 (ping-pong), 27 (two-SM) and 29 (one-SM), each accepting the call, falling back to 0, or refused by both. One-SM: P = 2, five groups, so every ring wraps twice, with two lanes and two scale lanes. Ping-pong: P = 3, eight groups, so that the ring of P + 1 scale slots wraps too. cp.async: two tiles (no steady state) and six (every stage reused). Two-SM: P = 2, three groups, two sub-tiles, one thread a role |
| `moe_cached` | is a cached A of its own item | P = 2, one buffer, two groups (as few as P allows), one warp a CTA; gathered: live-padding-live items; packed: two live items |
| `moe_warps` | is each stored row of its own item and complete | P = 1, two buffers, two warps, A not cached; gathered: one and three groups, padding first; packed: one group |
| `routing` | stable sort, exact totals, partition into tiles | two tokens of two ids, three experts, all inputs with a negative, a wrapping and never-chosen ids; two and more chunks; one replay |
| `ffn` | is every accepted call's output complete, and every call that cannot run rejected | two tokens, two experts, all setups, capacity rounded to 3, workspaces of 6 and 12 rows, one replay |
| `dispatch` | does a call run the kernel it was told, and never one that its shape or alignment does not fit | one thread with every kind of call (the three architectures and two unsupported ones, entries of both tables, single defects, batched functions), another that loads for two other devices, three changes of the libraries |
| `triton` | is each output element stored once and right, from live rows | GEMMs of at most nine rows with tails in M, N and K, full and low bands, outputs at the limit of the offsets; three tokens of two ids with masks, invalid and equal ids; capacities of exactly the busiest expert and one more |
| `native` | is what the checks accept what it says it is | two tools on one hashed library, killed and edited under; the others' tools one at a time; three builds, three source versions, one process, two architectures |
| `native_plain_edit` | expected violation: see Findings | as `native`, the plain protocol with edits |
| `bench` | do the benchmarks keep what they saved, name what they measured, finish only whole reports, time in fair turns, and end | three shapes of four uses, two sizes, two checkpoints, two token counts; three sessions (two of the Thor comparison, `MaxThorSessions`), one edit, rounds of a whole rotation (six paired, five by token count), two polls before a time-out; one frequency besides a free clock, changes of it counted with the edits; 330 thousand states, two minutes |

*What the properties say.* `OperandStable`, `AccumulatorStable`, `ScaleStable`,
`FragmentStable` and `PromotionStable` are the absence of read/refill races, each
for one resource; in `CuteLaunch` and `MoePipeline` `OperandStable` includes the
barriers' and cursors' types. `PhasesTrackLaps` says that parity is
unambiguous: no barrier is a whole lap away from its waiter. `DrainedWhenFreed`
and `ExchangeSound` say that a teardown or reuse that tests only the roles'
progress also finds the engines idle: at the two-SM kernel's `FreeTmem` all groups
are multiplied and promoted and nothing uses tensor memory. A commit's arrival at an
empty operand slot may still be owed then, one per slot, since no producer waits for
the last ones; `DrainedWhenFreed` says that there are no others. `ExchangeSound` asks
for idle engines only of the epilogues that stage rows, and of every epilogue that each
group is in what it stores. `ImplementsTileStream`, `OutputComplete`
and `GroupsExact` are end-to-end: what is stored has each term once and in
order. `StableOrder`, `CountsExact` and `TilesPartition` compare routing with its
definition in `RouteSpec`; `OutputExact`, `StoredOnce` and `OnlyLiveLoaded` compare
the other launches with what they should leave, said without programs.
`InvalidRejected` and `NativeJustified` relate the host's decisions to what the
kernels then do; `LaunchSupported`, `LibraryStays`, `ExplicitHonoured` and
`DescriptionHolds` relate three sets of conditions and two looks at a disk that
changes; both make one exception, for the call that the two-SM launcher hands to
configuration 0 (see Findings). `AcceptedBytesMatch`, `HashedPairConsistent` and `RebuildRepairs` relate
the files to the sources. `SweepProvenance` and `ReportUniform` relate each result
to the versions its report names, `SavedKept` the disk to what saves promised,
`ReportComplete` a finished report to its validator (two ways in which the code lets
them disagree are its premises, see Findings), `SuccessIsSound` a verdict to
what was really timed, `OrdersFair` the turns of the methods.

*Symmetry* is used for warps, threads and build tools that the models treat
alike, never together with a liveness property.

*Fairness.* `cute_launch` assumes `WF_vars(Next)`: the resident warps and the
engines do not all stop while one can move. That is all the hardware is asked
for: each kernel's grid is launched resident, blocks of a cluster are
co-scheduled, and every step advances a cursor, so progress of some role is
enough for progress of the kernel. No fairness between roles is assumed.
`MoePipeline` has deadlock checking in its place. `bench` assumes that a running
process goes on (`WF` of `SweepWork`, `CheckpointWork`, `PairedWork` and
`TokensWork`, each the steps of the program and nothing of its environment) and,
for the sweep, which waits without a limit, that an idle GPU cools
(`SweepGpuCools`). Without the last `SessionsEnd` is false, as it is of the code;
the benchmarks of `MeasureEnds` limit their wait and are given no such fairness.

*Deadlock checking* is off in `routing`, `triton`, `ffn` and `native`, which end
when their calls or builds are used up, in `bench`, which ends with its bounds on
sessions and edits, and in `cute_launch`, where `KernelReturns` asks for more.

## 4. Proofs

`TwoSmPipeline` is proved for P of 2 and 3 (the two the code instantiates), and
for any numbers of tiles, groups, sub-tiles, promotion groups, warps and lanes,
from the assumptions `PAssumption`, `SizeAssumption` and `ThreadAssumption`:

| Theorem | Module | Says |
|---|---|---|
| `OperandsSafe` | `TwoSmPipelineProofs` | `Spec => []OperandStable` |
| `RingsHold` | `TwoSmPipelineProofs` | `Spec => []RingInv` |
| `TypesHold` | `TwoSmPipelineProofs` | `Spec => []TypeOK` |
| `AccumulatorsSafe`, `ScalesSafe` | `TwoSmPipelineProofs` | the stability of accumulators and scales |
| `PhasesSafe` | `TwoSmPipelineProofs` | parity waits are unambiguous |
| `FreeSafe` | `TwoSmPipelineProofs` | `Spec => []DrainedWhenFreed`: all groups promoted and nothing in flight when TMEM is freed, but for last arrivals at the empty slots |
| `PipelineImplements` | `TwoSmPipelineProofs` | `Spec => ImplementsTileStream`: every step is one of the abstract stream or a stutter |

None of the safety properties is inductive: that a slot holds the data of an
MMA in flight says nothing about why the next copy must wait. `RingInv` adds the
accounting. For each slot `k`, `Fills(x, k, n)` is the number of times a cursor
at `x` has passed it; the invariant orders the counts of one slot

    retired <= issued MMAs <= full phases <= landed copies
            <= issued copies <= empty phases + 1

and says of each barrier how many arrivals are still missing (`Counted`: the
members of its set that are one use behind). A parity wait then yields an exact
phase (`ParityWait`), because the chain leaves only two candidates, which differ
by one. The operand ring, the scale rings and the TMEM ring share no barrier, so
`RingInv` is the conjunction of `OperandInv`, `ScaleInv` and `StageInv` with the
consumers' types; each part is preserved by itself, one lemma per action. That a
barrier with `Counted` members completes exactly when the last arrives is a fact
of finite cardinality (`CountedArrive`).

The refinement needs the epilogue as well. `WarpOk` says what a warp's registers,
exchange buffer and stores are as functions of its program counter, sequence and
sub-tile: the sum of the groups promoted so far, of this tile and of no other, lane by
lane while some lanes have promoted the current group and others have not. That a
block is stored from rows its own warps wrote needs `Mates`: the warps of a promotion
group, which meet twice a sub-tile, are in the same sub-tile, and all or none of them
are past its first barrier. With both, `StoreRows` maps to the stream's store of the next
block, `FreeTmem` to its return, and everything else to a stutter.

`PingPong` is proved for any numbers of stages, groups, warps and lanes, from
`ShapeAssumption`:

| Theorem | Module | Says |
|---|---|---|
| `PingPongSafe` | `OneBlockProofs` | `Pong!Spec => []PongBlockSafe`: types, `OperandStable`, `PromotionStable` and `ExchangeSound` |

Its warps share one `for` loop with a block barrier in every round, so the invariant
`BlockInv` is about rounds instead of cursors: which round a warp is in
(`ControlInv`), which phases the matrix barriers have completed and which a warp
still awaits (`MatrixInv`), and for each buffer the window of rounds whose data it
holds behind the newest: the last P groups of the operands, the last two of TMEM, the
last P + 1 of the scales. A committed MMA may lag the round by one. `SumInv` relates
a warp's registers to the rounds whose promotion it has passed.

`OneSmPipeline` is proved for any numbers of slots and groups, warps, lanes and scale
lanes, from `SizeAssumption` and `ThreadAssumption`:

| Theorem | Module | Says |
|---|---|---|
| `OneSmSafe` | `OneBlockProofs` | `Spec => []BlockSafe`: types, `OperandStable`, `FragmentStable` and `ExchangeSound` |

Its rings are counted like those of the two-SM kernel, but their depths are not bounded
by three, and the lanes of a warp release a scale slot and a TMEM stage one by one:
`Reached` counts the groups each lane has released, and both empty barriers are
`Counted` by it. `SumInv` says what a warp has promoted and still holds. The epilogue
reuses the operands' storage, so the invariant has a part for the time after the join:
once the roles have ended, every copy has landed and every MMA retired (`Quiet`), hence
nothing can disturb the exchange.

`CuteLaunch` is proved for any numbers of groups, warps, lanes, copy threads and MMA
steps per tile, for any ring depths and any configurations that have them
(`ConfigAssumption`; of the cp.async kernel all), from `KernelAssumptions`:

| Theorem | Module | Says |
|---|---|---|
| `LaunchOperandsSafe` | `CuteLaunchProofs` | `Spec => []OperandStable`, of all four kernels, and with it `TypeOK` |
| `LaunchPromotionsSafe` | `CuteLaunchProofs` | `Spec => []PromotionStable` |
| `LaunchGroupsExact` | `CuteLaunchProofs` | `Spec => []GroupsExact` |
| `LaunchExchangeSafe` | `CuteLaunchProofs` | `Spec => []ExchangeSound` |

A launch runs one kernel from its initial state, and the kernel's variables change only
by its steps, so `LaunchInv` is the invariant of the kernel that the configuration
names. The specialised kernels bring theirs: the proof modules are instantiated with the
launch's constants, and `SameTwoSm`, `SameOneSm` and `SamePingPong` show that what they
prove of their copy of a kernel is about the launch's. The cp.async kernel is proved in
the same module. Its threads wait only for their own copies, so nothing local says that
a stage is whole; `LoopInv` therefore numbers the copies of each thread. A thread in
tile `p` has issued `Stages - 1` copies more than `p`, or one more once it has copied
ahead, and has waited for those up to `p`, or `p + 1` before the next barrier
(`PlaceOf`); copy `c` is of tile `c`, or of the last tile, and is the latest in stage
`c % Stages` (`BufferOf`); and threads between two barriers are in the same round
(`Together`). Together these say that every thread's share of the present tile has
landed and that a thread that runs ahead copies into the stage of the tile before
(`ContentOf`, `CopyStep`). `RegisterOf` follows the fragments, the accumulated steps and
the scales; the redundant copies at the end are covered by `Tile`, and the wait for all
of them before the exchange by `DrainMoves`. A direct store needs neither: what a
thread stores is its own sum.

`MoePipeline` is proved for any numbers of slots, accumulators and cached groups and
any launches that satisfy `ShapeAssumption`: gathered or packed, any K, any mixture of
work items with rows and padding, any finite set of warps.

| Theorem | Module | Says |
|---|---|---|
| `IInvHolds` | `MoePipelineProofs` | the inductive invariant |
| `OperandSafe` | `MoePipelineProofs` | `Spec => []OperandStable` |
| `FragmentSafe` | `MoePipelineProofs` | `Spec => []FragmentStable` |
| `OutputSafe` | `MoePipelineProofs` | `Spec => []OutputComplete` |

Its roles keep counters of work item, half and group that each advances by itself, so
the proof first shows that they agree: a role's `serial` alone tells which item, half
and group it is at (`TagAt`, where the item is the one with so many items with rows
before it, `LiveBelow`). `OrderInv` then orders the serials, `FullOk` says of the
leader's barrier exactly which arrivals and transactions of either CTA are still owed,
and `Holds` says for how long a buffer keeps what was written to it: a slot for P
steps, a cached A for 2 * groups, both halves of an item. For the cached A the next
item's first load must not overtake the last MMA that reads the old rows, and this is
where `CachedGroups >= P` is used. `ConsumerOk` says what a warp holds at each place of
its loop; that the two CTAs' warps quantise rows of one item follows from `LiveBelow`
being injective on the items with rows.

`MoeFfn` is proved for any numbers of tokens, experts and ids, any masks, alignment,
threshold, workspace sizes and replays, from `SizeAssumption`, `FfnAssumption` and
`SetupAssumption`:

| Theorem | Module | Says |
|---|---|---|
| `IInvHolds` | `MoeFfnProofs` | the inductive invariant |
| `OutputSafe` | `MoeFfnProofs` | `Spec => []OutputComplete` |
| `NativeSafe` | `MoeFfnProofs` | `Spec => []NativeJustified` |
| `InvalidSafe` | `MoeFfnProofs` | `Spec => []InvalidRejected` |

`PlanInv` says what each phase of the call may rely on (the checks that were made
before it, in the order in which they are made), `RouteInv` that the routes are those of the
current ids and mask, `BufferInv` that every buffer launched has a row for everything
that may be routed, `RowInv` that the row of each routed assignment carries its own
token through its own expert. The last needs that rows do not collide, which
`MoeFfnProofs` first shows of the stable sort: ranks are a permutation, and one expert's
assignments fill one run of places, so that both the ragged row and the native row
`expert * capacity + place` are injective.

`MoeRouting` is proved for any numbers of tokens, ranks and experts, any chunk, block and
tile sizes, any ids and masks and any replays, from `SizeAssumption` and
`ShapeAssumption`. The latter says that the experts' bins fit their index type, and
that powers of two are natural numbers, which TLC evaluates and the provers cannot:

| Theorem | Module | Says |
|---|---|---|
| `RoutingHolds` | `RoutedKernelsProofs` | the inductive invariant `RouteInv` |
| `RoutesSorted` | `RoutedKernelsProofs` | `Spec => []StableOrder` |
| `RoutesCounted` | `RoutedKernelsProofs` | `Spec => []CountsExact` |
| `RoutesTiled` | `RoutedKernelsProofs` | `Spec => []TilesPartition` |

`RouteInv` says, kernel by kernel, what the programs that have run left in their part
of the buffers, no matter which they are: the keys of their block (`Keyed`), the places
before a chunk's first assignment of each expert (`Based`), the slots of their
assignments (`Scattered`, `Counting`), their tiles (`Tiled`). It names the buffers'
contents by the call's ids and mask alone, hence a replay owes nothing to what the last
call left. The arithmetic is in the lemmas: a
cumulative sum over chunks counts the assignments before a chunk (`BlockSums`), so base plus
place within the chunk is the rank in the stable sort (`RankByBlocks`); the halving search,
run as often as the experts have bits, ends at the expert whose tiles contain the tile
(`SearchIs`, `BitsAre`); `CeilDiv(Slots, BlockM) + Experts` tiles are enough
(`TilesEnough`). Sums, maxima and the search are recursive functions, and the least
counterexample stands in for induction (`LeastOf`, `AllOf`).

`TritonLaunch` is proved for any launches that satisfy `LaunchAssumption`: sizes that are
not 0, any strides, tiles, bands, blocks, capacities, ids and masks, any width of the
offsets. The calls are those that the host's checks admit (`Runs`), and the combination is
given a capacity that holds the busiest expert, as `moe_ffn` does. Its specification
is `LaunchSpec`, for the same reason as `BuildSpec` below:

| Theorem | Module | Says |
|---|---|---|
| `LaunchInvHolds` | `RoutedKernelsProofs` | the inductive invariant `LaunchInv` |
| `OutputsExact` | `RoutedKernelsProofs` | `LaunchSpec => []OutputExact` |
| `StoredAtMostOnce` | `RoutedKernelsProofs` | `LaunchSpec => []StoredOnce` |
| `LoadsAreLive` | `RoutedKernelsProofs` | `LaunchSpec => []OnlyLiveLoaded` |

The programs of a launch share nothing but the output, so the invariant is short: an
element that a program has stored (`Written`) has its final value and was stored once, any
other is as the call found it (`MemoryHolds`). It is inductive because of what a launch's
programs are, `Sound`: each stores only what it should, where it should (`Exactly`); no two
store the same element (`Once`); together they store all that must change (`Wholly`); and
they load only live rows (`OnlyAlive`). For each kernel a writer names the program that
stores an element, as a function of its row and column (`PackWriter`, `GemmWriter`, ...),
and `SoundIf` derives the four from it. The work is in the writers being right:
`CellIs` that no offset wraps around for a call that the host admits; for the GEMM that
the banded order of programs, whose last band is lower and whose rows are turned by the
program's number, reaches each tile once (`Turned`, `BandSplit`, `BandJoin`, `PidTile`,
`TilePid`); for the scatter that ranks are places of one run per expert
(`FillerHasRow`, `ScatterCells`) and that the padding is exactly the rest (`ZeroCells`);
for the ragged GEMM that a row is in one tile of one expert (`RowIs`, `TileRowIs`); for
the combination that the stable sort puts an assignment where counting its predecessors
does (`LocalIs`).

`NativeBuild` is proved for any numbers of tools, processes, devices, versions and
builds, and any library of the hashed protocol. Its specification is
`BuildSpec`, so that one module can extend both models:

| Theorem | Module | Says |
|---|---|---|
| `AcceptedBytesSafe` | `NativeLibraryProofs` | `BuildSpec => []AcceptedBytesMatch` |
| `HashedPairSafe` | `NativeLibraryProofs` | `BuildSpec => []HashedPairConsistent` |
| `RebuildRepairsSafe` | `NativeLibraryProofs` | `BuildSpec => []RebuildRepairs`, if no plain tool is disturbed |

The first two are not inductive: they say nothing of what a tool holds half-way. `BuildIInv` adds,
for every tool, that while it runs the versions of each source only grow,

    hashed before <= compiled <= on disk,

so that a tool which finds the first equal to the last compiled exactly what it
will record; and for the metadata, for what a loader has read and for the caches,
that each names the bytes it was made for. The third is about the other protocol and
holds only with one tool at a time and no edit while it runs (`Disturbed` names the
libraries for which the model allows more): `native_plain_edit` shows that it fails
without. Its invariant `PlainInv` says what the one running tool has done so far: from
`replace` on what it compiled is the current sources, from `hash` on the library is
its own, from `open` on its hashes are theirs.

`GemmDispatch` is proved for any number of threads, any calls, any bound on changes
and any measured tables that satisfy `DispatchAssumption`: an entry's configurations
exist on its architecture and their tiles divide its shape, and SM121's CUTLASS
configurations are among the 32 it has. The three
tables under `src/grain_gemm/kernels/configs/` do (19, 19 and 18 entries); TLC evaluates it
for those in `MCEntries`.

| Theorem | Module | Says |
|---|---|---|
| `LaunchesSafe` | `NativeLibraryProofs` | `Spec => []LaunchSupported` |
| `ExplicitSafe` | `NativeLibraryProofs` | `Spec => []ExplicitHonoured` |
| `LibrarySafe` | `NativeLibraryProofs` | `Spec => []LibraryStays` |
| `DescriptionSafe` | `NativeLibraryProofs` | `Spec => []DescriptionHolds` |

`CutlassTakes` and `CudaTakes` are the arithmetic: what Python chooses for a call that
passes `_native_compatible` divides as the C launcher will demand. The invariant
carries that from the choice to the launch (`Fitting`), with what each place in
the call knows of the backend asked for (`ThreadInv`); the disk and the caches do
not enter it, so it holds whatever the tools do. The other two need the caches:
`CacheInv` says that a library's cache lists distinct architectures, at most as many
as there are, so that entering one never drops another (`RoomLeft`, `EnteredKeeps`);
hence what is cached stays cached (`Grows`). `Wanted` names the kernel a call's
arguments ask for, a function of the call alone, and `Kept` says of every thread that
the kernel it was promised and the one it chose are wanted and cached (`Ready`), and
that after the promise each place of the call still leads to it or to one preferred
to it.

`Benchmarks` is proved for any lists of operations, token counts, sizes and shapes,
any settings, any numbers of rounds, and any bounds on sessions, edits and polls.
`SweepAssumption` and `ListsAssumption` say only that the lists are finite, that no square size is given twice
(`parse_args` refuses it) and that there is something to compare; a case limit is any
integer, since a Python slice takes any. `RoundsAssumption` is that rounds are positive,
as every `parse_args` demands. Nothing is assumed of the order of the token counts:
that they ascend is a premise of `ReportComplete`, for sweeps by token count.

| Theorem | Module | Says |
|---|---|---|
| `SweepsTraced` | `BenchmarksProofs` | `BenchmarksSpec => []SweepProvenance` |
| `ReportsUniform` | `BenchmarksProofs` | `BenchmarksSpec => []ReportUniform` |
| `ReportsComplete` | `BenchmarksProofs` | `BenchmarksSpec => []ReportComplete` |
| `SavedIsKept` | `BenchmarksProofs` | `BenchmarksSpec => []SavedKept` |
| `SuccessHolds` | `BenchmarksProofs` | `BenchmarksSpec => []SuccessIsSound` |
| `OrdersAreFair` | `BenchmarksProofs` | `BenchmarksSpec => []OrdersFair` |

A behaviour stays with one tool's family, so the invariant is one of four:

- `SweepInv` speaks of every copy of the report: in memory, on disk, and in each
  directory that a restart may leave. Its cases are the first shapes of its plan, in
  order (`Planned`), each with the results owed (`Whole`) and traced to the sources named
  for it (`Traced`); what the last save that returned contained is a prefix of all of
  them (`PromiseInv`). That a complete report passes its validator needs the plan to be
  the model's uses merged by dimensions, each use in exactly one shape
  (`WorkloadsMerged`); and for the Thor sweep that the readings of the clock kept in a
  report are those that were validated (`TogetherRead`, `Settled`). `Workloads` is a recursive function, and the library's induction
  cannot be used; `Least`, that a set of numbers has a least element, stands in for it: a
  shortest list of uses that cannot be merged would be one use longer than one that can.
- `CheckpointInv`: a checkpoint that is there is never replaced, a run through every
  shape has passed those before `next`, and what `promised` has is in every directory.
- `PairedInv`: of the interleaved MoE benchmark hashed <= loaded <= on disk, so that when the
  hash at the end is the one of the beginning, it is that of what was loaded; and `success` is
  raised only after every method was timed and nothing was wrong.
- `TokensInv`: the same three versions for each part of `optimized`, and the cases are
  those of the first token counts, in order.

`OrdersAreFair` has an invariant beside these. `OrdersInv` says that what was timed so
far is the schedule up to there, and so is every case that a report has (`PairedRan`,
`TokensRan`). That a schedule is fair is arithmetic: a method stands at a given place of
an order for exactly one rotation (`WheelOffset`), turned round or not, so that one pass
of every block of n, or one round for every sample, has it there, and these passes are
in bijection with the blocks or samples (`CountBlocks`, `CountSamples`). That two
methods come before each other equally often is a bijection too: three rounds on, the
paired benchmark times in reverse (`OppositeIs`).

Model-checked only: liveness (`KernelReturns`, `SessionsEnd`, `MeasureEnds`), which is
beyond the proof system. Every other property of a passing run is a theorem's.

## 5. Findings

`native_plain_edit`: `build_cuda.py` and the CUTLASS tools hash the sources
after the compiler has read them and after the library is in place. Sources
edited in between are recorded as those of the library, and `is_available`
accepts it, against its docstring (`src/grain_gemm/kernels/cuda.py:93`). The
gather family's tools compare hashes from before and after. The same tools killed
between the two files leave a new library under the old metadata, which the
loaders also accept when the sources match it; a later build that runs to its end
repairs this (`RebuildRepairs`).

`get_kernel_config` says: "Pass the same dtype and scale tensors for an exact dispatch
description" (`src/grain_gemm/gemm.py:88`). On Thor it is not exact for one kind of call: with M
and N that suit it and a `scale_b` that is not aligned to 16 bytes, it names CUDA
configuration 26 or 27 and `thor_ws2::launch` quietly runs configuration 0
(`sm110/int8_g256_pipeline.cuh:376`). The result is right, the kernel another.
`Executed` is this exception in `LaunchSupported` and `DescriptionHolds`; without it
TLC finds both violated by such a call.

A report marked complete fails its own validator in two ways. `prefill/benchmark.py`
takes `--tokens 1024 512`, and `validate_results.py:81` wants them sorted
(`Ascending`). `sweep_thor.py:178` reads the clock again after validating, and
`plot_thor.py` refuses the report if somebody changed a fixed clock since the last size
(`Settled`). Both are premises of `ReportComplete`.

Met while modelling, without contradicting a statement of the repository:

- Between the check of the library's bytes and `CDLL`, which opens the path anew,
  another tool may replace the file. `AcceptedBytesMatch` speaks of the checked
  bytes, and the step apart (`Load`) shows the window.
- `auto` may choose the native path and then fail for a workspace over 2^31 - 1
  elements, where the ragged path would fit (`CheckWorkspace`).
- The tile search runs one halving more than any number of experts up to the
  modelled bound needs.

- A sweep that resumes a report which `compare_thor.py` began and left without any
  case ends with a `KeyError` on `measurement_segments` after its first child
  (`benchmarks/sweep_thor.py:151`): only a report with cases is given segments on
  opening.
- `m256-dispatch/measure.py` compares the library with the occupancy record once,
  before it measures, and writes the hash the file has afterwards: a library that
  is rebuilt in between leaves a result with the hash of one build and the
  registers of another (`CheckOccupancy`, `WriteM256`).
- `thor_mega_bf16/benchmark.py` imports before it hashes, and `bench_moe_{ffn,cosmos,vllm}.py`
  name hashes they never compare again: of these `SuccessIsSound` says only what
  the code can promise. A method whose results are wrong stays wrong in the model: a
  fault that shows in one sample and not in the next is not among its behaviours.
- Outside the paired benchmark the schedules balance places only; which method comes
  before which is not balanced, and `OrdersFair` does not ask it.

## 6. Not modelled

The CUTLASS kernels for Thor (their pipeline is the library's), the template
shell and epilogue around the `sm12x` mainloop, tensor-map encoding and grid
configuration, `ctypes` signatures, the chain from `build_cutlass.py` to
`build_cutlass_moe.py`, the arithmetic of quantisers and GEMMs, the plots
of the benchmarks and their smoke, quick and profiling modes, the further
copies of the modelled tools archived under `experiments/cutlass/`, and the tests. Floating-point results are
outside all models. `build_moe_fused.py` and `build_moe_interleaved.py` are copies of
`build_moe_gather.py` and share its actions; the runs take the gather's name only.

## 7. Plan

Done, in this order: the two-SM kernel with its abstract promise and proofs; the
other pipelines and their launcher; routing against a stable sort; the feed-forward
call with capture and replay; the Triton launches; builds and loaders with their
proofs; the choice of a kernel with its proofs; the benchmarks with theirs.

What is left: the decoding of the MoE kernels' work items to tiles (each tile once).
