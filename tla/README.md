# TLA+ models of the diffusion compiler

This directory models the part of the diffusion compiler whose correctness is
about *order*: which tensors may share device memory, what the host submits to
which CUDA stream while weights are streamed in behind the computation, which
results are reused from run to run, how threads fill the pinned buffers the
device copies from; and about *meaning under rearrangement*: program rewrites and
the search that strings them together, slicing, reverse-mode differentiation, and
the elements every reference kernel reads and writes for the shapes the verifier
admits; and what processes that overlap, fail or are killed leave in shared files.
The arithmetic of kernels, generated code and byte formats are not modelled.

Contents: [system](#the-system), [modules](#modules), [runs](#runs),
[assumptions](#bounds-and-fairness), [findings](#findings),
[proofs](#proofs), [what is left out](#not-modelled), [plan](#plan).

Line numbers below refer to `src/` as in `PROJECT.json`; `cuda_executor.cpp` is
`src/src/runtime/cuda_executor.cpp`, and so on.

## The system

A model front end builds a **DiffIR program**: a list of operations over tensors
with role flags (input, output, constant, streamed). Optimizer passes rewrite
it. At *preparation* the CUDA executor selects lowerings, plans device memory
and compiles kernels; a prepared execution then *runs* any number of times, each
run being some warmup and measured *iterations* of `execute()`. Constants too
large for the device are *streamed*: before each use they are copied from mapped
weight files through a ring of pinned buffers into device slots shared with
other tensors.

| Component | State it keeps | Operations | Interacts with | What is hard | Properties that make it right |
|---|---|---|---|---|---|
| Memory planner (`memory_plan.cpp`) | local maps of producers, consumers, alias roots, lifetimes, slots | `plan_memory` | called by preparation and by the residency planner | lifetimes widened by prefetch distance, aliases, 64-bit sums, options that exclude or promote tensors | slots are never shared by overlapping lifetimes, are large enough, lifetimes cover every use, planning terminates |
| DiffIR and verifier (`ir.hpp`, `verify.cpp`) | immutable programs | `verify` | everything | rules the planners and the kernels rely on, written apart from both | what is verified is well formed and keeps kernels inside their tensors |
| CPU reference executor (`cpu_executor.cpp`) | tensor values of one run | `prepare`, `run`, a kernel per opcode | verifier, autodiff | strides, windows, shared heads, packed layouts; kernels that must agree with each other | every index is inside, every element of a result gets one value, kernels that stand for others read what those read |
| CUDA preparation (constructor of `CudaPreparedExecution`) | plans for absorbed bias, fused SwiGlu, aliased reshapes, parallel groups, repeated region | construction, with many rejections | planner, run loop | each lowering moves reads and writes to another position in the schedule | what a lowering does is covered by the plan |
| CUDA run loop (`execute`, `run`) | events, iteration, flags | one turn per operation; groups; reuse; drain | CUDA streams, prefetcher, cache | asynchronous streams, events recorded again in every iteration | operands in place, no conflicting concurrent accesses, each operation once and in order |
| Streamed prefetcher | ring, ready and copy events, overwrite waits, lazy residents | `prefetch`, `wait`, `complete`, `complete_iteration` | run loop, staging pool, file I/O pool | slot and buffer reuse behind asynchronous copies | a slot is overwritten after its last reader, a buffer after its last copy |
| Repeated-invariant cache | snapshots, valid flag, cache storage | decide, preserve, restore in `run` | run loop | exceptions that leave `run` half way | results consumed are those of the run's inputs |
| Staging pool | published job, cursor, counters, worker threads | `copy`, `participate`, `work`, destructor | prefetcher | late workers, wake-ups, shutdown | `copy` returns after every chunk, stragglers write nothing, threads join |
| File I/O pool and direct reads (`tensor_io.cpp`) | queue, latch per request | `submit`, `loop`, `read_direct`, `prefetch`, destructor | prefetcher | failing chunks, latch, dropped jobs | success means all chunks; no job outlives its read |
| Residency planner (`residency_plan.cpp`, `layout_plan.cpp`) | a greedy selection under a byte ceiling | `plan_streamed_residency`, `plan_reshape_aliases` | planner | totals are re-planned at every step | the plan finally executed stays under the ceiling; nothing that fits is turned away without reason |
| Rewrites (`opt/rewrite.cpp`) | a context: program, bindings, options | discovery and application of some twenty transforms | search, plan replay | each is legal because of readers, producers, roles and types which earlier ones change | same outputs for all inputs, verified programs |
| Search and plan replay (`opt/search.cpp`, `plan.cpp`) | candidates, retained contexts, beam | `optimize`, `replay_program` | rewrites, executor, tuning database | noisy timings, dropped contexts, ties | the winner is the best admissible candidate; recorded sequences rebuild it |
| Slicer (`compiler/slice.cpp`) | none | `slice_operations` | tools | rewrites put new ids between old ones | a slice computes what the whole does |
| Autodiff (`training/autodiff.cpp`) | a growing program, pending contributions | `differentiate` | training builders | values with several uses, frozen weights, order of accumulation | gradients are derivatives, in any order of the operations |
| Benchmark chain and stage cache | child processes, cache directory | `run_chain`, store, restore | tools | processes, partial failure, shared directories | children are reaped; restored entries are whole |
| Published files: checkpoints, tuning database, packages, weight caches | files under temporary and final names | write, publish, read, resume, record, load | tools | kills at every step, full disks, overlapping processes | what a reader accepts is whole and of one writer; records survive |
| Codec, weights, GPU kernels, plug-ins, front ends, samplers, text, telemetry, tools | mostly none | pure functions, numerics, formatting | | | |

`PROJECT.json` lists all of them under "components", with what is left out of
each, and 40 places where the code can go wrong in ways tests hardly reach
under "hazards".

How the modelled parts interact: preparation calls the planner once and hands
its slots to the prefetcher, whose constructor derives from them, for every
streamed constant, the operation whose completion frees the slot. `execute()`
walks the operations; at each it calls the prefetcher (which stages through the
two thread pools and submits to the copy stream), waits for readiness events,
launches kernels on the main stream or, for a parallel group, on lane streams,
and records completion events the prefetcher will wait for later. `run()`
decides about the cache before the first iteration and sets its valid flag after
the last.

## Modules

```
DiffIR                  programs and their verification
 +- MemoryPlanReference the plan in closed form
 |    +- ResidencyPlan  reshape views, streamed residency
 |    |    +- MemoryPlan     plan_memory, loop by loop     <- MemoryPlanProofs
 |    |         +- MCMemoryPlan   instances
 |    +- Preparation    lowerings, acceptance, Prepared(o)
 |    +- Rewrite        contexts, verification, transforms, discovery
 |         +- Search    optimize, plan replay, database records
 |         |    +- Slice  slice_operations                     <- SearchProofs
 |         +- Autodiff  differentiate, and derivatives to compare with
 |              +- MCSearch   programs to optimize, to slice and to train
 +- ProgramExecution    what executing a program promises (abstract)
 +- StreamedExecution   run loop, prefetcher, CUDA streams <- StreamedExecutionProofs
      +- MCStreamedExecution  programs x policies, through Preparation
ClosedFormProofs        lemmas about ResidencyPlan and Preparation, for
                        MemoryPlanProofs and StreamedExecutionProofs
OperationRules          verify(), one rule per opcode
 +- CpuKernels          what each kernel reads and writes
      +- KernelIdentities   what kernels stand for
           +- CpuExecution  prepare, run, differentiate (Autodiff), run the gradients
                +- MCCpuExecution  small tensors and their neighbours
RepeatedInvariant       the cache from run to run         <- RepeatedInvariantProofs
StagingPool             one pool copy                     <- HostStagingProofs
 +- HostStaging         prefetch()'s staging: StagingPool + FileIoPool <- HostStagingProofs
FileIoPool              direct reads and the job queue
StageChain              run_chain and the stage cache     <- StageChainProofs
 +- MCStageChain        two processes, a recipe of three stages
FileSystem              names and files (external)
 +- Publication         how the tools publish and read files   <- PublicationProofs
      +- MCPublication  sessions of overlapping commands
```

**DiffIR** has programs as records: operations are positions `0 .. count-1`, each
with the sets of tensors it reads and writes, every tensor with its roles and
bytes. `Verified` is the structural part of `ir::verify`; shapes, attributes and
per-opcode rules do not influence planning or scheduling.

**OperationRules** has the other part of `verify`: one definition per opcode, about
operations as records of descriptors (type and extents) and attributes. Numeric
attributes no kernel uses as an index are left out.

**CpuKernels** has `Kernel(op, values)` for the kernels of `cpu_executor.cpp`: the set
of *stores*, each an element of a result with the elements of operands (and of
scratch vectors) its value is computed from. Index arithmetic is translated as it is
written, arithmetic on values is not there. `values` are the integer inputs, whose
contents decide where some kernels read; `Fails` is what they refuse of them.

**KernelIdentities** says what kernels stand for, as pairs of short programs that must
depend on the same elements of their operands (`Claims`, `Holds`): a fused kernel and
its parts, a padded convolution and the padding before it, shared heads and repeated
ones, a transposition there and back.

**CpuExecution** is `prepare` (verify), `run` (bind inputs, execute), `differentiate`
and the run of the gradient operations, for one operation at a time. The gradient
operations are those of **Autodiff** (`INSTANCE`), with the descriptors and attributes
the kernels need (`Stamped`).

**MemoryPlan** is `plan_memory`. `phase` is the loop the function is in, and
each action one iteration of a loop, or its end: `Scan` (first and last uses),
`BeginAlias`/`FollowAlias`/`RecordAlias` (the search for alias roots),
`MakeInterval` (lifetimes and dedication), `PlaceInSlot`/`PlaceInNewSlot`
(best fit). The loops over hash maps take any order. Each call of `fail` is
`Fail`, and every addition and rounding is refused where the code's overflow
check refuses it, against the constant `MaxU64`.

**MemoryPlanReference** defines the same plan without loops (earliest and latest
uses, roots through the alias function, a fold over the sorted tensors). That the
loops compute it is `MatchesReference`, checked and proved; `Preparation` uses it, so
that executed programs share slots exactly as the planner would have them share. A slot
of `MaxU64` bytes is never taken again, in the loops (which look for one smaller than the
smallest so far) and here.

**ResidencyPlan** is `plan_reshape_aliases` and `plan_streamed_residency` as
operators over the closed-form plan: candidates in order of size or of first use,
each admitted when the plan without it, what the backend needs and the bytes of all
resident constants together stay under the ceiling (`Required`). Its property,
`CeilingRespected`, is a property of `MemoryPlan`: it asks the question about the
program and arguments of the call, under every one of `Budgets`, and is proved.

**Preparation** is what the constructor fixes: `CanFuse`, `CanAbsorb`, `CanAlias`,
`CanGroup`, `CanCache` are the conditions of the lowerings, `Accepted` all checks
that throw, `Request` the arguments of `plan_memory`, `Launch` what the launch at
a position then reads, writes and completes, `OverwriteWait` the releases the
prefetcher's constructor computes. The absorbed tensors are excluded from the
plan as in the code. `AsWritten` are the options under which no lowering, group or
region applies.

**StreamedExecution** is one `run()`. `host`, `turn` and `target` say where the
submitting thread is; one action per call it makes: `Begin` (restore from the
cache), `Prime`/`Primed` (the first `depth` prefetches), `ReuseTurn`,
`FollowupTurn`, `FetchOwn`, `Launch`, `EnterGroup`/`PrefetchLane`/`LaunchGroup`,
`Ahead`, `EndTurns`, `Drain`. Each stream is a queue of waits and works; `retired`
counts what it has done. An event is a stream with a position, so recording it
again moves it and waiting for an unrecorded one is a no-op, which is what
`cuEventRecord`/`cuStreamWaitEvent` do. `memory` maps places (slots, own storage,
cache copies, ring buffers) to the tensor whose value they hold; work that finds
something else than it expects writes `Garbage`. The streams (`PassWait`,
`PerformWork`) are external code modelled from the calls made.

**ProgramExecution** is the abstract specification: in every iteration every
operation is performed once, after those it depends on. `StreamedExecution`
implements it with `job <- run`; it is checked including its fairness.

**RepeatedInvariant** is the cache over any sequence of `run()` calls: a result is
represented by the input values it was computed from; `Fail` is an exception
leaving `run()` at a place that can throw, with nothing taken back. `interrupted`
is a history variable: it remembers that a run replaced the snapshots of a valid
cache and failed, until a run fills the cache again.

**StagingPool** models threads at the granularity of critical sections, atomic
operations and `memcpy` calls: `Publish`, `Notify`, `Claim` (fetch_add on the
cursor), `CopyChunk`, `CountChunk`, `Return`; `Leave`, `Take`, `Block` are the
three outcomes of a worker's critical section; `Stop`, `NotifyStop`, `Join` the
destructor. Old jobs stay alive in `held`, like the code's `shared_ptr`.

**FileIoPool** has `read_direct` submit one job a chunk (`SubmitChunk`, then
`NotifyOne` outside the lock), wait on the latch (`WaitDone`/`CheckDone`), and
answer. `ChunkRead`/`ChunkFails` let any chunk fail, `Latch` is the last critical
section of a job. `WarmPages` submits jobs nobody waits for. The destructor drops
the queue.

**HostStaging** composes both pools the way `prefetch()` uses them: direct read
when the pages are cold, optional warming, pool copy otherwise or after a failed
read; then the device transfer, then the buffer's next turn; at the end the
destructors.

**StageChain** is `run_chain`, executed by several processes with one cache
directory. `phase` says where a process is: in the launch loop (`Fork`, `Restore`,
`RestoreFile`, `EndLaunch`), in `wait4` (`Wait`), or storing (`Truncate`, `Write`
for every `copy_file`, `Publish` for the manifest, `StoreFails`). Children end in
their own time (`Exit`, `Break`). `CutShort` is an exception or a kill, at any
step. A file is represented by the recipe input it was computed from, or `Torn`
after a truncation; a key is the stage with what `stage_cache_key` takes from each
key file, so two files it cannot tell apart give one key. `contested` is a history
variable: entries stored into by two processes at once, or again after their
manifest was written.

**Rewrite** is a context as a record (operations with ids in program order, tensors
with types, shapes and roles, bindings, prefetch distance) and `rewrite.cpp` as
operators on it: `Discover` proposes transforms, `Apply` performs one or fails, at one
place of its scope after the other (`AtSites`, `AtSite`, one definition per transform),
`VerifiedContext` is `verify` (identifiers and roles, operand counts, one writer before
every reader, shapes), `PlannedBytes` is `measure_memory`. What a program
computes is a pair of uninterpreted terms for every output: `exact` distinguishes
rounding, storage precision and accumulation order, `real` forgets them; numeric
transforms have to keep the second, all others the first. An input of the program
stands for any value, not for the sample the search happens to have bound.

**Search** is `optimize`: `Baseline`, then for every depth `Expand` (discover),
`Try` one transform at a time, `NextParent`, `EndDepth` (beam), and `Select` (noise
recheck, winner, replay, database records). What a run of a candidate gives is the
environment's: refused, or timed at any of `Latencies`. A context stands for its
fingerprint. Ties in digests are broken any way.

**Slice** is `slice_operations`: the operations with ids in a range, in program order
(`Kept`), with the roles of the tensors at its borders. What is asked of it is asked of
the search's programs, whose ids the rewrites have put out of order.

**Autodiff** is `differentiate`: the loop over the operations in reverse
(`BackThrough`), the rule of every opcode (`Rule`, `Passed`, `Recompute`), pending
contributions and their folding by consumer (`Resolve`), targets (`Deliver`). The
second half of the module is what it is compared with: dual numbers carried forward
through the original program, over one-element tensors and the integers modulo 97.
Linear opcodes are themselves there; a cube stands for an activation, a square times
the weight for a norm, `q k^2 v` for attention, with the corresponding kernels.

**FileSystem** has names that link to files, so that a process keeps writing the
file it opened after somebody moved its name; **Publication** is a session of
commands over it: `diftrain` (resume, train, checkpoint), a tuning database that is
loaded and recorded into, `difquant` (program, shard, bundle), the weight cache of
`difflux2sample`, and a reader of packages. Actions are the steps between which a
process can die: `Start`, `Work`, `Open`, `Write`, `Close`, `Rename`, `Use`; `Fail`
is an exception (with what each tool then removes), `Kill` a crash, `CloseShort` a
stream whose destructor cannot write its buffer any more and tells nobody, `Tidy`
the user who removes a temporary file that was left. `contested` (names that two
overlapping processes were to publish; who only reads a name contests nothing), `spoiled` (lost last bytes) and `saved` (which
candidates `record` returned for, and in which database) are history variables.
`SessionsAssumption` is about the user's choice of paths, not about the code: commands
of different kinds have different outputs, the three files of a package are published
together, and what is resumed is a trainer's output.

## Runs

| Run | Instance | What it shows |
|---|---|---|
| `memory_plan` | every program of a family of four operations (one or two earlier activations each), streamed constants with prefetch distance 0, 1, 2, even, uneven and falling sizes (so that the best slot is not the first), aliases, persistent, excluded and replaced tensors; calls that must be rejected; `MaxU64 = 63` so that sums and rounding reach the limit | `StorageDisjoint`, `AliveThroughUses`, `MatchesReference`, `Terminates`, and of residency plans of the same programs `CeilingRespected` |
| `streamed_execution` | programs of five or six operations under: overlap on and off, depth 1 to 3, rings of 2 to 4 buffers, promoted and lazily promoted constants, a parallel group, a cached region, an absorbed bias + view + fused SwiGlu; 2 or 3 iterations | `OperandsReady`, `NoConflict`, `OutputsDelivered`, `StagingNotOverwritten`, and `PerformsProgram`: the run implements `ProgramExecution`, with its liveness |
| `repeated_invariant` | two inputs of two values, two crossing results, two iterations, any number of calls and failures | `ConsumesOwnInputs`, `CacheNotMixed` |
| `host_staging` | one worker beside the caller, two I/O threads, a constant of three chunks then one of two through one buffer, two direct reads, four queued jobs | `CopyComplete`, `NoLateWrites`, `StagedHolds`, `DirectReadComplete`, `NoJobOutlivesItsRead`, and the liveness of staging (`StagingEnds`) and of shutdown (`ThreadsJoin`) |
| `stage_chain` | two processes that run one recipe once each, before, after or while the other does, with two possible inputs; stage 0 is followed by two concurrent stages, of which the first is cached and has two outputs | `CompletesAll`, `ReturnsAlone`, `PublishedIsWhole`, `OwnResults`, and that every call returns (`Returns`) |
| `search` | six small programs in which rewrites meet (packed QKV, shared Linears with a bias, biases per head, casts both ways, values read late, F32 work), under structural, numeric and memory options and both objectives; six training programs (adapter, attention block, mixed precision, missing rules) with several sets of targets | `MeaningPreserved`, `ProposedAreLegal`, `PlansRebuild`, `WinnerIsBest`, `SlicesAreFaithful`, `GradientsAreDerivatives`, `GradientsIgnoreOrder` |
| `publication` | five sessions of two to four commands, at most two at work at a time: training with resumes, two recorders, packages with a reader, a weight cache used twice | `LoadedIsWhole`, `ResumedIsUninterrupted`, `RecordsSurvive`, `PackageConsistent`, `PublishedStays` |
| `reference_execution` | every opcode in the shapes its kernel treats differently, 113 seeds, and around each of them all operations with one extent or one numeric attribute one more or one less (2528 in all, of which the verifier admits 191); integer inputs hold any of -2 .. 4; every admitted operation is executed and, where there is a rule, differentiated | `ExecutesInside`, `AgreesWithComposition`, `BackwardIsAdjoint` |
| `interrupted_reuse`, `fused_swiglu`, `folded_input`, `interleaved_gradient` | one small instance each | a sentence of the repository is violated; see [findings](#findings) |

`memory_plan` also checks the type invariant of its module, which is proved too; those
of the cache, the pools, the chain, the run loop and the published files are proved, as
is that tensors fit their slots.

The properties in words:

* `StorageDisjoint` -- two tensors of one slot are never alive at the same
  operation; `AliveThroughUses` -- lifetimes cover producer, readers, readers of
  aliases, outputs to the end, and the prefetch issued `distance` operations
  earlier. Only together do they say that slot sharing is safe.
* `OperandsReady` -- whatever the head of a stream is about to read is in its
  place, for kernels, copies to the device, cache copies and restores.
* `NoConflict` -- works at the heads of two streams never touch the same place
  unless both only read, and no kernel writes what it reads. Streams advance
  independently, so any two works that *could* overlap in time meet at the heads
  in some behaviour.
* `StagingNotOverwritten` -- the host never stages into a ring buffer while a
  queued copy still reads it.
* `ConsumesOwnInputs` -- the crossing results the program reads were computed from
  this run's inputs, unless a refill was interrupted before; `CacheNotMixed` --
  between runs, under the same exception, a valid cache is one computation.
* `StagedHolds` -- while the device may copy from a buffer it holds the staged
  constant, whichever thread of either pool is late, also after a direct read
  that failed half way.
* `OwnResults` -- after a run that succeeded, every output in its work directory is
  what its stages compute from its own input, restored or not;
  `PublishedIsWhole` -- an entry with a manifest has all its outputs, from one
  input, although processes may have died while filling it. Both exclude contested
  entries: while another process truncates the files of a published entry, a
  restore reads torn files. Nothing in the repository promises otherwise; it is
  recorded as a hazard.
* `CeilingRespected` -- a budget is refused exactly when the plan as it is does not
  fit; the plan that a residency plan leads to, with its resident constants, needs no
  more than the ceiling; every streamed constant is decided about, and one that stays
  streamed would have broken the ceiling when its turn came; the reported totals are
  those of the plan.
* `MeaningPreserved` -- every candidate computes what its parent computes, for all
  inputs; `ProposedAreLegal` -- what is proposed can be applied and verifies, with
  one exception: a bias fused into a Linear with a result of rank three or more,
  which the verifier rejects and the search discards.
* `PlansRebuild` -- the recorded sequence of every database record, and the returned
  plan, replayed on the base give the candidate they stand for.
* `WinnerIsBest` -- the winner passed its bars and is within the memory budget, beats
  the baseline by more than margin and noise unless it is the baseline, and neither the
  baseline nor an admissible candidate is better.
* `SlicesAreFaithful` -- any range of ids, of the programs handed in and of winners,
  is a verified program which, given the whole program's values at its borders,
  computes the whole program's values, and outputs what the rest needs.
* `GradientsAreDerivatives` -- `differentiate` delivers if and only if every operation
  between the targets and the loss has a rule and every target has a path, and what
  it delivers is the derivative. Two things the reference takes over from the code,
  because nothing says otherwise: the target of a loss and the tables of a rotation
  get no gradient, and a path through them is dropped silently.
  `GradientsIgnoreOrder` -- the gradients are the same terms, bit by bit, for every
  topological order of the program.
* `ExecutesInside` -- of whatever the verifier admits, and whatever the integer inputs
  hold that the kernel does not refuse, no kernel touches an element outside of a
  tensor or its scratch vector, and every element of every result is written once.
  `AgreesWithComposition` -- kernels depend on the elements that what they stand for
  depends on. `BackwardIsAdjoint` -- element x of an operand gets a gradient from
  element y of the result's gradient exactly when y was computed from x.
* `LoadedIsWhole` -- whatever a reader accepts is the whole of what one writer wrote;
  for the database also when recorders overlap. `RecordsSurvive` -- what `record`
  returned for is in the database afterwards, unless recorders overlapped (the last
  one to rename wins) or a full disk cut a file off at its close, which nothing
  reports. `PackageConsistent` -- a package that loads is the work of one
  quantizer, wherever the loader's three reads fall between the three renames of a
  quantizer that is still at work, and whatever earlier ones left behind.
  `ResumedIsUninterrupted` and `PublishedStays` as their comments say. The last three
  are about names that no two processes were publishing at the same time; readers may
  overlap with whom they like.
* `ReturnsAlone` -- a run that returns leaves no child behind, also after a failure.

Each property of a passing run has a mutant in `PROJECT.json`: a definition and
the plausible bug of that code (defined just before it, marked "Mutant") under
which the property fails in the same run.

## Bounds and fairness

* Planner: four operations make every overlap pattern of a slot with two earlier
  tenants and a later one; the greedy placement looks at one tensor and the slots
  only. All safety properties of the run are proved for every program and every
  argument, so for them the bound does not matter. Bytes are small numbers; `MaxU64` is 63 instead of 2^64-1 so that the
  checks of sums and of rounding are reached from both sides.
* Streams: programs have more operations than any ring has buffers and than any
  prefetch distance, so ring buffers and slots are used again within an iteration,
  and two iterations so that every event is recorded again. With three iterations
  and depth 3 nothing new happens.
* `Preparation` counts bytes in units of 256, the alignment used there.
* Cache: a second input and a second crossing result are what "all" can go wrong
  about; the run has no bound on calls. Proved for all values.
* Search: depth 3, a beam of two and five candidates make a transform meet what two
  earlier ones left, with contexts dropped on the way; two latencies within and
  beyond the margin and noises 0 and 30 % order candidates both ways. `MaxCandidates`
  also bounds the run. `PlansRebuild`, `WinnerIsBest` and `SlicesAreFaithful` are
  proved for any bounds, transforms and measurements. Shapes have at most three dimensions of size at most 6.
* Training: two assignments of values modulo 97 separate the derivatives of these
  programs; a wrong factor, operand or path would have to agree in both.
* Kernels: extents of one to four separate strides, groups, heads and windows from
  each other, because the neighbours of a seed make any two equal extents differ; where
  a format fixes a block (256 of a rotation, 32 by 128 of scale tiles) the tensors are
  just longer than one block. The neighbours put every bound of the verifier on both
  its sides. Not among the seeds: a `QkNormPartialRope` without `RotaryDim`, or
  with `Interleaved` and a table as wide as the rotation (see below); in the seed with
  `Interleaved` the tables are F32, which has no gradient rule.
* Publication: a file is two parts of payload and its digest, enough for every cut.
  `MaxOverlap = 2` also lets a loader run beside a quantizer; longer sessions add commands that start from complete files.
  All five properties are proved for any session and any overlap.
* Staging: one worker and the caller are two claimants of chunks; two turns of the
  buffer make stragglers possible; two I/O threads make the latch's order matter.
  `Copies`, `MaxChunks`, `Requests` and `MaxJobs` bound the counters. The staging
  pool's properties, alone and together with the file threads, are proved for any
  number of threads, copies, chunks and reads (`HostStagingProofs`).

* Chains: one call per process suffices for a restore, because the two calls may
  follow each other, and a third process would only add entries nobody relates.
  Two outputs make a partly stored entry possible. In the instance no key file
  exceeds the digest limit (`Large` is empty): beyond it a product is in the key by
  its size only, as the header says (`process.hpp:46-47`). A longer recipe, with restored stages that enable others, was left out because
  its liveness check takes too long.

Fairness. In `StreamedExecution` the submitting thread and the device are weakly
fair: the thread has no other blocking call than the synchronizations the guards
model, and CUDA retires the head of a stream once its waits are satisfied. It is
fair to the *set* of streams only; a wait for an event that never completes stays
a deadlock of that stream. In `HostStaging` every thread is weakly fair (the OS
schedules runnable threads; mutexes are held for a few instructions). The calls
themselves (`TryDirect`, `SkipDirect`, `Close`) are *not* fair: nothing obliges
the program to stage another constant or to end. The planner is sequential, its
step is weakly fair. In `StageChain` a process or one of its children goes on:
`wait4` blocks only while a child runs, and stages are assumed to end some time;
calling `run_chain` and cutting it short are not fair. `CHECK_DEADLOCK FALSE` is set where the system stops by
itself: a plan that is finished or failed, a run that is done, a process that has
exited, chains that made their calls. `Search` and `Publication` make safety statements
only and are not fair; both stutter when they are finished. `RepeatedInvariant` never stops, and deadlock is checked there.

Restrictions of the *passing* instances of `streamed_execution`, each the
complement of a finding or of a hazard: a group is wider than the prefetch distance, its
activation has a slot of its own, an absorbed bias is resident, and what a fused
Linear reads is used again after the SwiGlu. The overlap option does not change
between preparation and run. Regions are not combined with groups or views in one
program, and absorbed Linears are not put in groups.

## Findings

Four runs are expected to be violated; `PROJECT.json` quotes the sentences.

1. `interrupted_reuse` (`cuda_executor.cpp:10546`). `run()` overwrites the input
   snapshots before checks and uploads that can throw, and does not clear the
   valid flag. TLC: a run with inputs A fills the cache; a run with B replaces the
   snapshots and throws; the next run with B compares equal and restores A's
   results.
2. `fused_swiglu` (2658). The fused launch writes the SwiGlu's output at the
   Linear's position, where the plan may have given that output the slot of an
   operand whose lifetime ends there. The acceptance conditions of `Preparation`
   hold, as the constructor would accept the combination; whether shipped models
   contain it was not examined.
3. `folded_input` (`rewrite.cpp:343`). With arithmetic folding, a narrowing cast is
   declared foldable before its inputs are looked at. A cast of a program input then
   becomes a constant made from the sample the search has bound, and the program
   ignores that input from then on.
4. `interleaved_gradient` (`autodiff.cpp:341`). A rotation of neighbouring elements
   (`Implementation` 2, `Interleaved`) is differentiated as a rotation of halves.

Combinations that instances of passing runs leave out because they go wrong, without a
run of their own:

* With overlap, the turn of a group's leader skips the prefetch of operation `index +
  depth` (`cuda_executor.cpp:11361`): when that operation is behind the group, nobody
  prefetches it in this iteration.
* A streamed bias passes the safety check of absorption (2880), but the launch happens
  one operation before the host awaits the bias's copy.
* The release of a group's activation waits for one lane only (7444).
* The verifier takes `RotaryDim` to be twice the width of the tables when the attribute
  is missing (`verify.cpp:1229`), the CPU kernel takes the width of a head
  (`cpu_executor.cpp:1760`) and may then read beyond a row of the tables. All builders
  in the repository stamp the attribute.
* With `Interleaved` the kernel has one pair per column of the table
  (`cpu_executor.cpp:1769`); a table as wide as the rotation, which the verifier admits,
  leads it past the head.

Met in passing: overlapping recorders of one database lose records; a bias of the wrong
rank is proposed and discarded; a streamed constant that is also an output and that no
operation reads is admitted by the verifier and never copied; a close on a full disk is silent; `RmsNorm` adds
`WeightOffset` to its weights, which its gradient does not; `Interleaved` without
`Implementation` 2 is ignored by the CPU kernel; a gate of `[1,N,C]` for a residual of
`[B,N,C]` is admitted and applied to blocks of `B` successive rows, not broadcast.

## Proofs

Checked by TLAPS for all values of the constants, from the named assumptions in
the modules: the tensors are a finite set of naturals (`TensorsAssumption`),
`MaxU64` is a natural (`MaxU64Assumption`), requests are records of well-typed fields
and budgets of numbers and an order (`RequestsAssumption`, `BudgetsAssumption`);
`Crossing` and `Iterations` are positive and `Empty` is no
input (`CrossingAssumption`, `IterationsAssumption`, `EmptyAssumption`); the caller
is no worker, the bounds are naturals, `Blank` is no source (`CallerAssumption`,
`BoundsAssumption`, `BlankAssumption`); the constants to stage have between one and
`MaxChunks` chunks and a source each (`ConstantsAssumption`), the numbers of direct
reads and of jobs are naturals (`DirectAssumption`); the fields of a prepared
execution are what their names say (`ExecutionsAssumption`); of a search, widths, depths,
latencies, noises and the memory budget are naturals and the tolerance is at least
100 percent (`BoundsAssumption`), the base context is not one that failed, and the
options have their types (`RequestsAssumption`); a path is a name, final or
partial (`PathsAssumption`), and sessions are as the user is asked to write them
(`SessionsAssumption`). TLC evaluates them in the passing runs.

**ClosedFormProofs** has what is true of the plan in closed form and of the preparation
whatever runs: no state, no step. The definitions are folds, and TLAPS cannot
instantiate an induction over data. The lemmas do without: `EveryNat` says that a *set*
of naturals that has 0 and is closed under successors has them all, which is a fact about
well-founded relations and has no operator parameter; a fold over a sequence or a set is
then a table of its intermediate results, and a property of the table is the set of the
positions up to which it holds. Where a chain of aliases ends is defined by sets that are
closed under following it (`Leads`, `Closed`), the order of the tensors by the number of
those placed before (ranks), sums of bytes by the number of pairs of a tensor and one of
its bytes. From these: the greedy placement gives tensors of one slot lifetimes one
after the other (`SlotsTakenInTurn`); what the residency planner admits keeps to its
ceiling, decision by decision (`Keeps`); and of a program as it is written
what preparation makes of it (`PreparedFields`, `FirstUseIs`, `ReleaseIs`,
`SharedInTurn`).

**MemoryPlanProofs**: `TypeCorrect`, `SharedSlotsDisjoint`, `SlotsLargeEnough`. The
invariant `StorageDisjoint` is not inductive: when `PlaceInSlot` takes over a slot
it looks at one number, `available_after`, not at the earlier tenants. `Released`
ties the two together (the number is no earlier than the end of any tenant, is the
maximum for a dedicated one, and the slot is as large as each), and the new
tenant moves it to its own end. That this never moves it back needs lifetimes that
are not empty (`SpansOrdered`). An end is never before its start because the scan
records actual uses in order and producers precede readers (`ScanSound`, with
`Verified`). Lemma `AlignUpCovers` is the arithmetic of rounding up, from which `SlotsLargeEnough` follows.

Its second part is `LifetimesCoverUses`, the other half of slot sharing. The invariant
`UInv` says what the maps of the scan hold when it has come to an operation (`Met`: the
one producer, and consumers between the first and the last recorded), that an alias
root has been told of every reader of its aliases (`AliasCovers`), and carries the
lifetime computed from these maps through the two later loops (`IntervalsMade`,
`AwaitingPlace`, `PlacedWithSpan`).

Its third part is `PlansAsReference`: slots, assignments and lifetimes of the loops are
those of the closed form (`MatchesReference`). The invariant `RInv` relates each loop to
the part of the closed form it has computed: recorded first reads are reads
(`FirstReads`), recorded roots are ends of their chains, and the search in progress is
somewhere on its own (`AliasesFound`), the lifetimes made
(`LifetimesMade`), and that the tensors placed are the first ones of the order and their
slots the entries of the table up to there (`Placing`). The loops over hash maps may take any order, and the
closed form takes one: the lemmas about ranks show that the order in which tensors are placed is unique.
`ResidencyKeepsToItsCeiling` (`CeilingRespected`) then needs no invariant of its own,
because a finished plan is the one the residency planner asked about.

**RepeatedInvariantProofs**: `CacheTypeCorrect`, `ReuseIsSound`,
`CacheIsOneComputation`. The strengthening says what the cache and the program's
storage hold in every phase: what was produced and preserved so far (`Filled`), that
a run which reuses found snapshots equal to its inputs and a cache computed from
them (`Kept`, `Reusable`), and that after the first iteration both hold the run's
own results (`Computed_`, `Restored`). The exception for `interrupted` is exactly
finding 1: without it the invariant fails.

**HostStagingProofs** begins with the staging pool alone: `PoolTypeCorrect`,
`CopiesAreComplete`, `StragglersAreHarmless`. The caller waits for a *number*. The invariant gives the
number its meaning: `completed_bytes` is the cardinality of the chunks that were
claimed and are not in anybody's hands (`Counts`), claimed chunks are in at most
one hand (`Exclusive`), and counted or copied chunks hold the source (`Written`).
A full counter then means that no thread holds a chunk of this job (lemma
`FullCounter`, from the library's facts about cardinalities), so whoever is late
only finds an exhausted cursor.

Then the two pools together, for any number of threads, chunks,
constants, reads and jobs: `StagingTypeCorrect`, `StagedCopiesAreComplete`,
`StagedStragglersAreHarmless`, `StagedConstantsAreWhole`, `DirectReadsAreComplete`,
`NoJobIsLeft`. They rest on one inductive invariant, `HInv`. Its first part is the
pool's own invariant, unchanged. Staging and file threads write into the same buffer,
and what keeps them apart is *when*: file threads write only while the reader is
inside `read_direct`, which is only where `prefetch()` waits for it, and there the
pool's caller is outside of `copy` (`AtHand`, `Places`). The second part, `DirectInv`,
gives the latch its meaning, as `Counts` does for the pool: `pending` is the number
of chunks that are not yet submitted, in the queue, or in a thread's hand (`Open`),
each in at most one of these places (`QueueOnce`, `HandsOnce`); a chunk that is none
of them has arrived, or `failed` is set. So a latch at zero without a failure is a
whole constant (lemma `LatchEmpty`), and a reader that is outside `read_direct` has
left no job behind.

**StageChainProofs**: `ChainTypeCorrect`, `ChildrenAreReaped`, `NoStageIsLeftOut`, for
any recipe, any number of processes and any failures, from `RecipeAssumption`
(stages are naturals and come after earlier ones), `OutputsAssumption` and
`TornAssumption`. The launch loop passes over the stages once and never turns back;
`Passed` says why it need not: what it has passed and not started waits for a stage
that has not succeeded, and what succeeds later enables later stages only. A stage
left waiting at the end would have a first one, whose dependencies have all succeeded.
The keys of entries do not change while a stage is restored or stored, because the
stages it reads have ended (`InOrder`, lemma `EntryStands`).

The other half is about what the entries hold (invariant `WInv`). A file of a stage is
made of the run's own input (`Own`, `Computes`) unless an entry it could have come
from was contested; a store that has written its first files has them from the run
(`Stores`), and whoever restores reads an entry that stands (`Restores`);
`Published` ties the key in a manifest to the files beside it. `ManifestMeansWhole` is
`PublishedIsWhole` for recipes in which no cached stage reads what another produced;
`UncontestedIsWhole` is for any recipe but needs every product to be digested
(`Large = {}`), and so does `TheCacheIsInvisible` (`OwnResults`). Neither hypothesis
can be dropped: a product that is in the key by its size alone lets two contents share
an entry.

**StreamedExecutionProofs**. Of all prepared executions, with groups and cached regions:
`StreamedTypeCorrect`, and `RingNotOverwritten` (`StagingNotOverwritten`), because the
event recorded for a ring buffer is behind every copy that reads it (`Staged`). Of the
executions without groups and cached region, `Sequential(run)`, which are 65 of the 73
TLC runs, for any program, prefetch distance, ring, residency and number of iterations:
`KernelsFindOperands` (`OperandsReady`), `StreamsDoNotRace` (`NoConflict`),
`OutputsInPlace` (`OutputsDelivered`) and `RunsInOrder`, which is that `Init` and every step refine
`ProgramExecution` (what `PerformsProgram` says apart from fairness). What they need of the
preparation is `Scheduled(run)`: operands come from an upload, a prefetch or an earlier
launch (`OperandsComeFirst`), a tensor has one writer (`WrittenOnce`), a constant is brought
by its first reader, at least `Lead` operations after the one that releases
its slot (`StreamedByFirst`), two tensors of one slot are used one after the other
(`SlotsShared`), and launches perform operations in order (`PerformedOnce`). TLC
evaluates it on every sequential execution `Preparation` delivers in the passing run
(`ASSUME MCScheduled`); `SlotsShared` is the planner's `StorageDisjoint` and
`AliveThroughUses` as they reach the run, and it is what fails of the execution of
`fused_swiglu`. The theorems are implications for that reason: they say what the run
loop makes of a schedule, whoever made it.

For programs executed as they are written (`AsWritten`: no view, fused launch, absorbed
bias, group or region; 61 of the 73 executions TLC runs) the hypothesis is gone. `PreparedIsScheduled` shows
that what `Prepared` delivers is `Scheduled`, from the lemmas of `ClosedFormProofs`: the
slots are the planner's, so two tensors of one have lifetimes one after the other; a
streamed constant's lifetime begins `depth` operations before its first use, so what used
its slot before has ended by then; and the operation whose completion the prefetcher
awaits is the last end of a lifetime in that slot before the first use. Hence, for every
verified program, prefetch distance, ring, overlap, residency and number of
iterations, `PreparedRunsAreSound` (`OperandsReady`, `NoConflict`, `OutputsDelivered`)
and `PreparedRunsInOrder` (the refinement): planner, preparation and run loop together,
end to end. `AsTheyAreWritten` says that the executions are such prepared ones; TLC
evaluates which options of the run are (`ASSUME MCAsWritten`). One thing `AsWritten`
excludes that the constructor admits: a streamed constant that is an output and is not
promoted before the run, for which see the findings met in passing.

Their invariant `PlainInv` has to hold between a host that is any distance ahead and two
streams that are any distance behind. Events are numbers of entries, so
each part relates a position in a queue to a position on the other stream. `Fetches`:
which operations have been fetched at the host's place, given the distance.
`Completions`: the completion event of an operation is at or behind its kernel.
`MainQueue` and `CopyQueue`: what the entries still to do are, in order, and of which
operation. `Awaited`: a kernel still queued is behind a wait for the copies of what it streams,
unless they are over. `Batches`: constants are copied in the order of the operations that read them. `Released`: a copy is behind a wait for the completion of the
operation that used its slot, unless that is over (the event may be recorded
again in the next iteration, but only after the main stream has been drained).
`InMemory`, from these: a value that was made (`Made`) and that somebody still needs
(`Needed`) is in its place. No two streams can then meet in one place: the one would
be before the other in `SlotsShared`, and the later one is still waiting.

**PublicationProofs**: `PublicationTypeCorrect` and all five properties of the run, for
any session, any number of processes at work at once, and failures, kills and lost
bytes at any step: `ResumeIsExact` (`ResumedIsUninterrupted`), `LoadedAreWhole`
(`LoadedIsWhole`), `PublishedFilesStay` (`PublishedStays`), `PackagesMatch`
(`PackageConsistent`), `RecordsAreKept` (`RecordsSurvive`). Their invariant, `Base`, has
two halves. The first says what any file holds, whoever wrote it and over whatever else
(`Typed`, `Apart`, `Parts`): a file has at most one name, and who still writes a file
that has been moved publishes under that same name; a digest in a database or a package
file is the digest of one whole value, so that a torn file cannot pass for whole; a
checkpoint begins with a state of uninterrupted training. The checkpoint needs that
separately because its digest is computed from what was read back, by name. This half
holds at contested names too; `ResumeIsExact` needs nothing else, and neither does
`LoadedIsWhole` for databases.

The second half, `Sole` and `Drafts`, is about processes while nobody else publishes
their names. `Own` says how far such a process has got: before it computes
(`WorkSole`), which files are drafts (`WriteSole`), how much of the open one is written
(`StreamSole`), which have their names already and which do not (`RenameSole`), and
that all have in the end (`DoneSole`). That what another process does leaves all of
this alone is the longest part; a process that shares the names and only reads them
changes no file, also when it fails (lemma `ReaderFrame`). A final name can then change in one way only, by the
renaming of a complete draft (lemmas `FinalSteps`, `ReadsAfter`), and what the readers
rely on follows from that, each by an induction of its own on top of `Base`: what is
published is whole (`PublishedWhole`); a reader of a package still sees the files it
has read (`LoadedNow`), and the bundle names the shard beside it (`Paired`), also
after a kill between two renames, because `MayStart` then refuses the names that are
taken; the records are in the file, and in the hands of whoever will
write it next (`Recorded`, `RecordHas`).

**SearchProofs**: `RecordedPlansRebuild` (`PlansRebuild`), `SearchReturnsTheBest`
(`WinnerIsBest`) and `ReplayAcceptsTheWinner` (a search fails on its baseline only),
for every base context, any bounds, and whatever the transforms do: `Discover` and
`Apply` are used as they stand, nothing about them is assumed. The search keeps a sequence of
transforms with every candidate but contexts only for some, and drops them when the beam
moves on. The invariant `SInv` says that replaying a candidate's sequence gives its
context and that what is accepted is verified and within the budget (`Sound`), that the
contexts still held are those of their candidates (`Retained`) and the parents to expand
are among them (`Among`), so that one more transform on a parent extends its sequence;
that the first candidate is the base as it was handed in (`BaselineSound`); and that the
returned plan is the winner's sequence (`Chosen`).

`SlicesOfVerifiedPrograms` says of every verified program and every range of ids that has
an operation what `SlicesAreFaithful` says of a search's programs: the slice verifies,
given the whole program's values at its borders it computes the whole program's values,
and outputs what the rest needs. `SlicesKeepTheirValues` is that of `Spec`, because the
candidates are verified (`Sound`). The argument: the kept operations have increasing
positions in the whole program, whatever their ids (`Order`), so that the slice's
writers still come before their readers (`SlicedGraph`) and its tensors keep shapes and
types (`SlicedRules`); in any program with one writer for every tensor, a value is what
its writer computes from the final values of its inputs, since nobody overwrites these
(`ValuesOf`, `Settled`); so the two programs agree on an operation's results when they
agree on its inputs, which are at the border or made by an earlier operation of the slice
(`SliceValues`, by induction along the slice). An operation's results are
uninterpreted terms in its inputs, which is all the proof uses: it is about wiring, roles
and order, and what the operations compute does not matter.

`TransformsPreserveMeaning` says of every verified program, every modelled transform but
the folding of arithmetic, and every scope, discovered or not, that the program it makes
computes the same outputs for all inputs if it verifies: in the reals, and bit by bit
unless the transform is numeric. `RewritesPreserveMeaning` and `SearchesPreserveMeaning`
are that of `Spec` and of `MeaningPreserved`; the exception is finding 3
(`MCFoldedInput`), and with the option off, its default, it is never proposed
(`DiscoverProposes`). `OptimizedProgramsComputeTheSame` takes it from parent to child up
to the program that is returned, compared with the one that was handed in.

There is one hypothesis, `WellBound`: of the base, inputs and constants have values, and
no tensor is both an input and a constant. The executors refuse a program whose inputs
or constants are not bound (`cpu_executor.cpp:2904`), and no front end declares a tensor
both; but `verify` would admit one, and folding would then bake its sample into
the program. The requests of `search` satisfy it, and every transform keeps it.

The argument forgets the order of the program. An operation is an equation between the
terms of the tensors it reads and writes (`Law`), and a program is solved by what satisfies
all its equations and has the given values where they are given (`Solves`). A verified
program is solved by the values it computes and by nothing else (`ValuesSolve`,
`FollowedMeaning`), since one writer comes before all readers. So it is enough that each
rewrite turns a solution into one with the same outputs (`Follows`, or `Carries` when
nothing changes but the equations), and this can be said of the programs in the middle of a
transform too, which need not verify: they are only `Sane` (declared and bound operands, as
many as the opcodes want, of one type where rewrites rely on it). There is one lemma per
rewrite: most replace some equations by others with the same solutions up to new temporaries
(`RewriteKeeps`, with the laws of casts, projections and their rows), folding makes
given what was computed (`FoldingKeeps`), merging reads one result for
another that the same equation defines (`MergeKeeps`, which has to remember that the
pairs were found before the first merge, `Merged`). `AtSitesKeeps` is the induction over a
scope. Where legality conditions are needed shows in these lemmas: without the reader count
or the `InternalOnly` of a site they fail. Those on order (a bias computed before the
Linear) are not needed here: they decide whether the result verifies, which is
`ProposedAreLegal`.

Only model-checked:

* liveness (`Terminates`, `StagingEnds`, `ThreadsJoin`, `Returns`, the fairness part of
  `PerformsProgram`), which TLAPS does not do under fairness;
* `ProposedAreLegal`, `GradientsAreDerivatives`, `GradientsIgnoreOrder`
  and the three properties of `CpuExecution`. They are about recursive functions over
  programs and tensors, one case per opcode: each case would be an induction over data
  that has to be set up by hand with tables, as was done for the planner, the slicer and
  the rewrites;
* that executions with views, absorbed biases or fused SwiGlus are `Scheduled`. The last
  are so only under the restrictions listed with the [bounds](#bounds-and-fairness)
  (finding 2 is an execution that is not);
* executions with parallel groups or a cached region, apart from types and the ring.

## Not modelled

* H3 and W8A8 lowerings (tail staging, ConvRot slots, `cuda_executor.cpp`
  10592-10822), FP8/INT8 plans, intermediate capture, pinned I/O, tracing,
  profiling of the prefetcher, page release, the sizes of the ring buffers.
* A run whose overlap option differs from preparation's; regions together with
  groups or views.
* Of the benchmark chain: environments, log files, timing and resource usage,
  `run_capture`; what orphaned children of a cut-short run still write.
* Of the optimizer: schedule attributes and attention implementations (they name
  kernels), quantization and the competition of physical formats (numeric quality
  decides), `FuseParallelLinears` and `FuseLinearSwiGlu`.
* Of training: the builders of training programs, optimizer arithmetic, the layout
  attribute of `SharedVectorDelta`.
* Of published files: their formats; tools that publish the same way
  (`difdittrain.cpp` 53-69, the caches of `difflux2sample.cpp` from 1342 on,
  `difmodcache.cpp` 209) are not modelled once more.
* Of the CPU executor: arithmetic, rounding and formats; iterations and captured
  tensors. Of the verifier: attributes that are mere numbers, guards
  of products against 2^64, roles of operands.
* GPU kernels, samplers, code generation, codecs, tokenizer, front ends, the OpenCL
  backend, telemetry and the rest of the tools: sequential functions of their inputs,
  or kernel arithmetic, better served by tests than by state exploration. They are most
  of the lines of the repository.

## Plan

Done, in this order: planner and its proofs; preparation and streamed execution,
where the most interacting state is; the cache; host staging; the benchmark chain;
residency; rewrites, search and slices; differentiation; published files; the
composition of both pools, lifetimes and the chain's return proved; the verifier's
rules and the CPU kernels.

Proved since: the chain's cache, the plain run loop and the published files; the plans and
the winner of the search; slices of every verified program; that rewrites, and with them
searches, preserve what a verified program computes; that the planner's loops compute the closed form; the residency
ceiling; that preparation makes a schedule of a program as it is written, and with it the
run of streamed programs from planner to outputs.

Next, the most important first:

1. `StreamedExecutionProofs` for executions with groups: the lanes are further streams,
   joined by events, and `MainQueue` becomes one per lane.
2. `StreamedExecution` extended by the W8A8 tail staging.
3. `Rewrite` extended by quantization and the two remaining fusions.
4. Regions together with groups and views in `streamed_execution`, and runs whose
   overlap option differs from the one at preparation.
