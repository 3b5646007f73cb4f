# Verification of rrtl

rrtl compiles register-transfer-level designs and simulates many independent
stimulus *lanes* of one design at once, on one engine or on many, in one process
or over a network of workers. This directory holds TLA+ models of its core: how a
design is authored, validated and compiled; what the simulation engines compute
and in which order; how a simulation is distributed, checkpointed and recovered;
how a hierarchy is partitioned; and when a surrogate model may stand in for the
simulation. `PROJECT.json` gives the source lines of every definition; *runtime*,
*core*, *sim-ir*, *gpu-sim* and *surrogate* below are the crates of those names.

## 1. Inventory of the system

| Part | State it keeps | Operations | Meets others through |
|---|---|---|---|
| Checkpointed run (runtime 7450-7535) | completed steps, last checkpoint step, count | chunk, tick, emit initial / cadence / final checkpoint | calls the runtime's `tick_many` and the caller's sink |
| Shard worker service (1844-2241) | a shard per worker id: lane range, simulator storage, counters | init, inputs, eval, tick, read, snapshot, restore, stats | requests and responses |
| TCP transport and server (2243-2300, 2759-2895, 8328-8366, worker binary) | socket buffers, the connection being served, connections left | connect, request, accept, serve, timeouts, exit | newline-delimited JSON frames |
| Distributed runtime (6785-8134) | shards with lane ranges and engines, execution mode | construct, set/get, tick, health, checkpoint, restore, recover | one request per shard and operation; one thread per shard in parallel mode |
| Supervisor and worker processes (2300-2757) | child processes, runtime, latest checkpoint and its event | spawn, checkpoint, checkpointed run, recover, shutdown, drop | owns the runtime and the processes it runs on |
| Partition planning (799-1015, 2990-3513, 5767-6470) | none, pure | plan, merge, legalise, place, route, bundle, launch | produces the plans a session deploys |
| Partition session (1907-2083, 3515-4348, 6622-6704) | route mailboxes on each worker, telemetry | deploy, run action, transfer route, scripts | requests to partition workers |
| Autotuner (8136-8240) | none | measure candidate topologies | runs runtimes |
| core: builder, validation, compile | the design under construction, its diagnostics | declare, drive, instantiate, connect, validate, compile | produces `CompiledDesign` |
| core: ready/valid helpers | none; they emit drivers and registers | connect, slice, skid, FIFO | the circuits they emit run in every engine |
| core: scalar simulator | signals, registers, memories of a tree of instances | set, eval, tick | the oracle of all engines |
| sim-ir: packed IR and engines | packed programs; lane-packed storage | lower, schedule, evaluate, tick, replay | the engine of every shard |
| sim-ir: compiled and partitioned simulators | emitted code with its buffers; groups with boundary copies | compile, settle, tick | alternatives to the packed engine |
| sim-ir: optimisers | none; they rewrite blocks | fold, freeze, rebalance, tabulate, reuse slots, linearise, leap | run before an engine is built |
| gpu-sim | device buffers, work-stealing queues, CPU/GPU lane split | compile, dispatch, read back | an alternative engine |
| surrogate | manifests, batches, corpora and plans in files | validate, shadow, policy, plan, FAST run, attach | attaches plans to a runtime |
| rrtl-pyrtl, rrtl-sv, rrtl-sv-frontend, rrtl-macros, rrtl-riscv-asm, rrtl-ir, python/ | translators, emitters, data types | parse, emit | produce designs |

Three things are hard here.

*Failure in the middle.* Every runtime operation is a loop of remote requests, each
of which can fail having had its effect or not; answers carry no request numbers;
recovery is a sequence of fallible steps over two sets of processes. The tests of
the repository exercise the loops with everything working and with a worker that
is gone from the start.

*Many implementations of one meaning.* A dozen engines evaluate the same design in
different orders, word sizes and representations. The tests compare them on
selected designs; the cases that matter are the combinations of reset kinds, clock
domains, memories and instances, and operand widths at a word boundary.

*Judgements made locally and used globally.* Validation looks at one module at a
time, the planner at one boundary, a surrogate policy at one file that may be
replaced before the next command reads it.

`PROJECT.json` lists the hazards at their lines, with the properties that cover
each. What makes each modelled part correct:

* a checkpointed run loses at most one cadence of work, and hands the sink
  exactly the cadence's checkpoints;
* a client can tell what `Ok` means, and no request is carried out twice;
* the runtime is indistinguishable from one simulator of all its lanes, until an
  operation fails, and again after recovery;
* a supervisor never loses the state to recover from, nor a process;
* a partition session knows what its workers hold and did, and can repair a route
  that a fault has left half transferred;
* a plan partitions the work, and only what holds still during a cycle is
  exchanged at its end;
* every engine shows what the design means, instruction by instruction and cycle
  by cycle, and no optimisation changes it;
* a design that validation accepts compiles whole and has one driver per net and
  no loop; a ready/valid buffer neither loses, repeats nor reorders;
* a surrogate result replaces an RTL result only where its manifest allows it.

## 2. The modules

| Modules | Model | Run |
|---|---|---|
| `CheckpointCadence`; `TcpRuntimeSupervisor` | `tick_many_with_checkpoint_sink`; processes, runtime, latest checkpoint, recovery | `MCCheckpointing` |
| `WorkerService`, `TcpWorker` | `LocalRuntimeWorkerService::handle` as operators; a worker process and its TCP clients | `MCTcpWorker` |
| `DistributedRuntime` (over `WorkerService`), `BatchSimulator` | the coordinator over several workers; what it promises | `MCDistributedRuntime` |
| `PartitionSession` | a partition session and its workers | `MCPartitionSession` |
| `PartitionPlanning`; `TraceReplay` | structural partition plans; trace replay over threads and its autotuner | `MCPlanning` |
| `TickEngines`, `PartitionedSimulator` | the order of events in every simulator | `MCSimulators` |
| `MachineInstr`, `LimbEngine`, `CodegenEngines`; `CoreExpr` | one instruction on every engine; one expression on the scalar simulator | `MCEngines` |
| `MachineSchedule`, `ProgramPasses`, `LinearHybrid` | what rewrites a program before it runs | `MCOptimizers` |
| `DesignValidation`, `DesignBuilder` | authoring, validating, compiling | `MCCompiledDesign` |
| `ReadyValid` (over `ReadyValidHelpers`, `RvCircuits`, `ReadyValidChannel`) | the ready/valid helpers, their circuits, what these promise | `MCCompiledDesign` |
| `SurrogateRuntime`, `SurrogateGemm`, `SurrogateEvents` | surrogate plans and their attachment | `MCSurrogates` |
| `CheckpointingProofs`, `WorkerServiceProofs`, `TcpWorkerProofs`, `DistributedRuntimeProofs`, `PartitionSessionProofs`, `RvCircuitsProofs`, `ReadyValidProofs`, `SurrogateProofs` | theorems about the modules they are named after | |

**Mutants.** Definitions preceded by `\* Mutant:` are wrong variants of the
definition that follows them. They take no part in any specification; each is a
plausible bug, and substituting it makes TLC report the property that
`PROJECT.json` pairs it with.

### CheckpointCadence

`pc` is the next call of the function, `completed`, `emitted` and `last` are its
locals, `log` what the sink was handed. `EmitCheckpoint` has the three ends of
`emit_checkpoint`: done; the sink failed after it was handed the checkpoint; the
snapshot failed and the sink was never called. `TickChunk` may fail too. Nothing
in the module depends on the bounds `MaxSteps`, `MaxEvery` and `MaxRuns` except
the sets the arguments are taken from.

### WorkerService

A shard holds, per lane, one input and one register of the documentation's
counter; `cnt' = cnt + in` on every cycle. One design is enough because the
runtime never looks into a shard's storage: it slices, ships, concatenates and
compares. A lane that was ticked twice, not at all, or with another lane's input
has a different count. `Accepted` collects the early returns of `handle`
(`shard_mut`, `already initialized`, lane range and storage size on restore),
`ShardAfter` the assignments, `ResponseTo` the returned value, `ExpectedKind` the
matches of the callers. The service keeps a map from worker id to shard; one
worker id is modelled, as the runtime uses one per process.

### TcpWorker

Each client has a connection with two byte streams, modelled as queues of frames.
`request()` is two steps, because everything interesting happens between them:
`SendRequest` (or `SendFails`, leaving nothing or a prefix of the line in the
stream) and then `ReadResponse`, `ReadTimeout` or `ReadEof`. A timeout may strike
while the response is partly read; the bytes already consumed are gone and the
rest of the line is no response. The kernel accepts connections while the
listener lives, so `Connect` succeeds for a client the worker will not serve until
it has finished with another. `HandleRequest` is one turn of `serve_stream`: read,
handle, write; it is atomic because the worker is single-threaded and nothing it
does in between is visible outside. `Exit` is the end of the process, which closes
every connection. `ServeIoError` is the `?` of `serve`. Frame numbers `id` and the
variables `returns` and `executed` are history; no guard reads them.

### DistributedRuntime and BatchSimulator

A request is one step here, with the outcomes `TcpWorker` exhibits (`Outcomes`):
answered; executed and answered too late, the answer left unread on the
connection; not written; partly written, which garbles the next line; the worker
dead before or after executing it. Answers are read from the front of the
connection's queue of unread lines, so a late answer is taken for a later
request's. Each fault spends one of `MaxFaults`.

The constructor (`AddShard`, `Built`) can fail at every worker and be tried again
(`Retry`) over workers that still hold the shards of the first attempt.
Operations are a record `op`: the shards still to ask, whether all went well, what
was collected. `Turn` takes shards in order except for a parallel
`execute_shards`, where any interleaving is possible. `KeepsGoing` separates
`execute_shards`, which asks every shard and then reports the first error, from
the loops that stop at it. `Restore` makes two requests per shard (`Stats`, to
learn the shard's description, then `RestoreSnapshot`), `Recover` two to each new
worker and switches at `Return`, all shards or none.

`tick`, `tick_many` and `eval_combinational` differ in the number of steps;
`set_input`, `set_input_limbs` and the memory writes, and likewise the reads,
differ in the word they touch. `checkpoint` is modelled with
`validate_checkpoint` and `validate_snapshot` reduced to lane total, number of
shards and ranges; the program and the format version are one constant here.

`BatchSimulator` is what a caller of the runtime wants to know: `mem` is one state
of all lanes; an operation happens to all lanes, once; an operation that failed
leaves the state `Lost`, and only restoring a checkpoint taken before brings it
back. `BehavesAsOneSimulator` is its specification under the mapping

* `mem` is the initial state until construction returns, what the shards held
  when the operation in progress began, what they hold between operations, and
  `Lost` once an operation has failed (history variable `trusted`);
* `store` is the caller's checkpoint, its shards concatenated in lane order;
* `out` is what the last read returned.

The mapping takes an operation's effect at its return, so the refinement says
that no interleaving of shards, and no order of their requests, shows.

### TcpRuntimeSupervisor

Processes are numbered; `processes`, `engines` and `fresh` say which process each
handle, each shard connection and each handle of a recovery in progress denotes.
The simulation is reduced to the number of cycles each process has executed, and a
failed operation may have ticked any set of reachable shards; what a failure can
do in detail is `DistributedRuntime`'s subject. `Spawn*` are the three ends of
`TcpRuntimeWorkerProcess::spawn`: running, ended without reporting an address
(killed and reaped), and an unreadable startup line (returned as an error without
killing the child, history `stray`). Dropping a half-built set kills what was
spawned before. Recovery is the four steps of `recover_from_latest_checkpoint`:
spawn all, restore and exchange, kill and reap the old ones, checkpoint again;
each can end it.

### PartitionSession

Every call of a session is a list of requests (`DeployRequests`, `EachWorker`,
`TransferRequests`) that ends at the first failure; `call` is the call in progress
with the requests still `todo`. Before each request the worker's endpoint is looked
up in the map the caller passed (`missing` are the workers it lacks), except that a
transfer looks up both of its endpoints at the start. `Answer` is a request carried
out and answered, and the session's cached mailbox counts are refreshed with it;
`Refused` an error answer or a missing endpoint; `Lost` a request that never
arrives; `Late` one whose caller gives up before it is carried out. Every request
has a connection of its own, dropped with the first error, so unlike in
`TcpWorker` no answer can be mistaken for another's. The server serves
connections in the order they were made, so a late request is carried out before
any later one to that worker (`pending`, `CatchUp`). `Crash` and `Restart` replace a
process; a fresh one has no partition state, and nothing in the protocol can
remove the state of a running one, so a session that was dropped or failed to
deploy blocks the next until its workers are restarted.

Payloads are limb sequences checked against the width of the route
(`ValidPayload`). Action counters are the workers' `calls` counters; times are left
out. Session health is computed from the deployment report, which only a complete
deployment produces, so `validate_partition_session_ready` never refuses.
One session at a time uses the workers. The variables from `latest` on are history.

### PartitionPlanning and TraceReplay

A planner job is one caller asking for a plan, a placement, routes, a bundle and a
launch; the operators follow the functions of the same names. Diagnostics end a
job where the code returns them. Jobs may be bundled across each other, as the API
takes the three plans by value. Costs are numbers of assignments, registers and
memories, as in the code.

`TraceReplay` encodes a trace, plans the batches, splits lanes over workers, spawns
a thread per worker and joins them in order; `Panic` ends a thread. Each engine
keeps its storage between replays unless it is restored, which is what
`ReplayReportExact` is sensitive to. The autotuner's times are a free choice
(`Advice`): the fastest candidate may be any.

### The engines

`MachineInstr` states the meaning of each instruction of the packed IR (`Reference`)
and which instructions typing can produce. The engine modules say how the limbs,
SIMD words, wide words, bit planes, Cranelift values, C expressions and WGSL limbs
compute it, with the word sizes as constants. In the JIT a value carries what the
generator believes of the bits above its width, and an operand that is believed
dirty may have any. `CoreExpr` builds expressions over the scalar simulator's
`expr_type` and `eval_expr`.

`TickEngines` fixes a notion of one-bit design (wires in declaration order, an
instance, registers with clocks and resets, a memory with write ports) and its
meaning, and follows each simulator's streams: when wires settle, when a reset is
seen, what a register latches, when a write lands; it then adds the
deferred settle, the activity mode, the double buffer, and the compiled vector,
bit-parallel, AOT and kernel simulators; `PartitionedSimulator` the slicing of a
program into groups, their boundary copies, and activity gating. A design on which
an engine is known to differ (section 3) is left out of that engine's family in
`MCSimulators`, and only there.

### The optimisers

`MachineSchedule` numbers expressions into instructions, levels them into packets
and packs the packets again. `ProgramPasses` rewrites a lowered block: folding,
freezing, mux rebalancing, tabulation, slot reuse, narrowing. `LinearHybrid` finds
the affine cones over GF(2), jumps over cycles with matrices, and exchanges
registers between the linear and the general engine.

A leap takes one of three paths, by how much of the 128-bit word the state fills:
up to half of it, the operators for held inputs; up to 127 bits, the idle operator
with the constant as one more bit; all 128 bits, the idle operator without it. The
model has all three, and the packing of the held inputs into a word with its
wrapping shifts. Its word has 4 bits, and among the designs are states of 1 to 4
bits (two 2-bit registers fill the word, with a constant and without), inputs wider
than the word, states of 5 bits that `LinearLeap::build` refuses, and a coupled
design refused because its slice does not fit the vector JIT. It is a release build:
where a debug build panics (the `debug_assert_eq!` of `idle_operator`, a shift past
the word) it goes on with the wrapped value, as release code does. **HybridExact**
holds of every leap but those named in `LeapValid`, each of which does go wrong in
the model when it is taken off the list (section 3 lists them again).

### Designs and ready/valid

`DesignBuilder` has one action per builder call; a call never fails but records a
diagnostic; its last part is `compile`, the simulator's state tree and the flat netlist
the hierarchy means. `DesignValidation` is `validate_design` as sets of diagnostic codes. A name is the sequence of its parts, so that two joins can collide
as they do in the code. `ReadyValidHelpers` has the checks and the emitted drivers;
`RvCircuits` the emitted circuits, clock by clock; `ReadyValidChannel` what they
promise. `ReadyValid` composes them: a behaviour is of one circuit, or of one call of
a helper on two endpoints. An endpoint is one of a design that validation accepts (a
bundle has no field twice), and a depth any number a `usize` holds. `MCCompiledDesign`
makes both halves of `ModuleBuilder`, designs and ready/valid, one specification.

### Surrogates

The commands exchange files, so between any two of them a manifest, batch, trace,
corpus or topology may be replaced (`MaxEdits`). The state is those files (`m`, `b`
or `tr`, `cf`, `corpus`, and `t`), the policy report and the runtime plan on disk, and
a runtime with its attachment and execution report (`rt`, `att`, `exec`). `SurrogateGemm`
and `SurrogateEvents` have one action per command that leaves something behind
(emission, policy, planning for a topology or for worker specs a caller wrote,
attachment); commands that only report (running a batch, the FAST runs, validation,
shadow runs, inspection) are operators, evaluated by the properties on whatever files
are there. `SurrogateRuntime` has what both share: worker specs, tallies by worker and
by lane, the runtime's check of a plan against its shards, and the report after each
action. An emission is the set of the corpora it can write, empty on an error. The
predictors are the code's own (mock GEMM, event rules); an ONNX session is any function
of its inputs (`OnnxGemm`, `OnnxEvent`). Hashes are compared for equality only;
tolerances and errors are integers; a latency of nothing wraps to `MaxU64`.

## 3. The runs

| Run | Bounds | Shows |
|---|---|---|
| `checkpointing` | 7 steps, cadence up to 4, 2 runs; 2 workers, 5 processes, 2 cycles, 1 crash | loss bound, exact cadence, termination; no process or checkpoint lost |
| `tcp_worker` | 2 clients with 3 and 1 requests, 2 connections, client and worker timeouts, kill | lag of answers, meaning of `Ok`, at most once, in order; calls and bounded workers end |
| `runtime` | workers of 1 and 2 lanes, parallel, 4 operations, 2 faults | refinement of `BatchSimulator`, ranges, shards in step, operations return |
| `session` | 2 workers, 3 calls, 2 faults, scripts | mailboxes, reports and telemetry, torn transfers, calls return |
| `planning` | 4 hierarchies, every number of partitions, 8 topologies, two jobs; 3 lanes, 2 replays, 1 panic | plans, placements, launches, replay reports, autotuner |
| `partition_input_cut` | one hierarchy, violation expected | an input two levels down is exchanged although it changes |
| `simulators` | some 800 designs of 2 or 3 registers, a memory word, 2 clocks, resets, an instance; 13 engines | every simulator and every cut shows what the design means |
| `packed_async` | asynchronous resets on the packed engine, violation expected | wires are stale after an asynchronous reset |
| `engines` | widths 1 to 5, 2-bit limbs, every operand | every instruction on every engine, every expression of two operators |
| `optimizers` | 250 programs, 500 blocks, 172 designs, a leap word of 4 bits | scheduling, passes and the hybrid keep the meaning |
| `design` | 4 builder calls on 9 starting points; FIFOs of 3 and 4 entries, two payload values; every pair of 16 endpoints, depths 1 to 4 where 4 is the largest a `usize` holds | validation against the flat netlist, compile, aggregates; the circuits are channels, the helpers join equal payloads |
| `surrogates` | 1 edit, 2 runtime actions, 14 manifests, 6 batches, 5 traces, 4 configs, 4 corpora, 3 topologies, 3 ill-formed lists of worker specs: 279,596 states | policies, plans, attachments and reports |

Why the bounds are enough. Seven steps with cadences up to four contain every
relation of run length and cadence: shorter, equal, multiple, one more, one less
and coprime; two runs show that locals are reset. Five processes are the first two,
one of a failed recovery and two of a successful one. Three requests leave room for
a timeout and two answers after it, so that a lag can be observed to persist; the
second client shows what another's connection can do. Two lanes in one worker and
one in another, with inputs that tell all lanes apart, distinguish every wrong
slice; four operations are an input or a tick, a checkpoint, a failing operation and
a recovery; two faults are one to need the recovery and one to break it. Three
session calls are a deployment, a call that goes wrong and a repair, or a second
deployment on restarted workers; two faults replace both workers, or make one
request late and lose another. The routes run both ways and one stays on a worker;
the payloads are empty, short, full and too long for one of them. One replaced file
makes a plan stale in each of the ways there are; two actions tell a report that
restarts from one that goes on. Widths up to five
with two-bit limbs have one to three limbs, full and partial top limbs, and values
below, at and above every word size of the engines, which are scaled to the same
proportions. Three registers are enough for a chain through two registers and a
wire, one in each clock domain, with a reset on any of them. Of the components in
section 4 the theorems show that no larger instance behaves otherwise.

Deadlock checking is off in every run because every model is a bounded one in
which a caller may stop calling; that nobody waits for ever is stated as the
liveness properties `RunEnds`, `CallReturns`, `BoundedServiceEnds`,
`OperationReturns`, `CallsReturn` and `ReplaysReturn`.

### Fairness

* `CheckpointCadence`: weak fairness of the loop's own steps; it runs on the
  caller's thread, every call in it returns.
* `TcpWorker`: a blocked read eventually returns what is there, or its timeout;
  the worker's loop runs until it blocks, and its read timeout eventually elapses
  on an idle connection. Nothing is assumed of when clients call or leave. With
  the timeouts set to `none`, `CallReturns` is false for a client queued behind an
  idle one; the run uses the worker's default.
* `DistributedRuntime`: the loop over the shards proceeds, which is `CallReturns`.
* `PartitionSession`: a call proceeds (a request returns by its timeout), a script
  proceeds, and a worker serves what waits for it. The owner need not call.
* `TraceReplay`: a spawned thread runs until it ends or panics, and `join` returns.
* The other modules have safety properties only.

### What the properties say

* **LossBound, CompleteRun, StrictlyAscending, RunEnds**: see section 1.
* **ProcessesOwned, CheckpointRecoverable, RecoveryLosesNothing**: the supervisor at
  every point where a call of it can stop. Only a process whose startup line was no
  address runs on unowned, because `spawn` returns the error without killing it.
* **AnswerLag**: a call answered after *n* timeouts on its connection gets the
  answer to the request *n* frames before its own. The lag is never repaired:
  after one timeout every later answer on the connection is a stale one.
* **CarriedOut**: without timeouts, `Ok` means that this very request was carried
  out; none is carried out twice or out of order; a second runtime cannot reset the
  shard of the first. **SnapshotIsCurrent**: no other client can interfere between a
  client's requests.
* **ShardsInStep**: as long as operations return `Ok` no connection is behind, so
  the lag cannot appear without an error having been reported first; a tick that
  failed reached each shard once or not at all; the ranges the coordinator slices by
  are those the workers hold. **LanePartition**: they partition the lanes.
  **BehavesAsOneSimulator**: section 2.
* **MailboxesFaithful**: after complete transfers and clears the two ends of a route
  hold the same payload, whatever failed before them, and the counts in the
  telemetry are the workers'. **TornOnlyByFaults**: nothing that can be refused is
  refused after the producer's mailbox was changed. **ReportsFaithful**: a recorded
  action was carried out everywhere, a failed one by a prefix of the launch order at
  most; no worker's counters restart under a session; telemetry is emitted when its
  cadence says so, once each.
* **PlansSound, PlacementSound, LaunchSound**: work is counted once and the target
  met, partitions are where they may be and evenly, what launches is consistent, and
  plans that belong together always launch. **ReplayReportExact, AutotuneSound**: the
  split over threads and engines never shows in a report.
* **SimulatorsAgree, PartitionsAgree, EnginesExact, ExpressionsExact, PacketsSound,
  HybridExact**: one meaning, at the level of cycles, instructions, expressions,
  blocks and linear cones.
* **HierarchySound, CompiledWhole, LeafForLeaf**: what validation judges module by
  module holds of the hierarchy, and an accepted design compiles to what its author
  wrote. **ImplementsChannel, ReadyValidSound**: the buffers are channels, their
  counters exact, and the helpers join equal payloads only.
* **PoliciesSafe**: a surrogate result replaces an RTL result only within its domain and
  tolerance and under a manifest that says so, and one item without a result to trust
  stops its batch. **PlansHonoured**: an ok plan is accepted where it belongs; a stale
  one only with the same lanes and decisions; attached items lie on lanes their worker
  owns. **SurrogateReportsExact**: counters by worker and lane add up to the totals,
  a runtime's report describes its attachment and the actions since, and an inspection
  says whether the emission will succeed and how many samples it writes.

### Disagreements between documentation and code

Two are kept as runs that TLC must refute:

* `packed_async`: the packed engines apply asynchronous resets after the wires and
  do not evaluate the wires again; `docs/simulation.md` calls all backends checked
  bit for bit against the scalar one.
* `partition_input_cut`: an input of a module below the top is exchanged at the cycle
  barrier as if it held still; the comment at runtime 813 says a classification can
  only over-merge.

The others were met while modelling and are excluded, case by case, from the
families of designs and operands of the passing runs:

* *TCP worker and runtime.* The worker's own read timeout on an idle connection ends
  the process before `--max-connections` are served. `health` returns an error for
  the whole runtime when one shard is unreachable, and never `Unreachable`.
* *Ready/valid.* `rv_register_slice` overwrites its registers at every edge, so it is
  a channel only before a sink that never stalls.
* *Scalar simulator.* `eval_expr` masks where a value is stored, so an operator that
  reads a whole word sees bits above the width (`zext(!a, 3)`); a value that leaves an
  instance, re-enters it and leaves again is not settled by the passes it makes.
* *Packed engines.* `tick_many` drops an evaluation that matters when a register drives
  an asynchronous reset; a memory with write ports on two clocks is gated by the first;
  a single-lane memory address wider than a usize wraps where the others read zero.
* *Bit-parallel and bit-slice engines.* A register under an asynchronous reset never
  leaves its reset value; the generated C has no asynchronous resets; the bit-slice
  settle reads every signal before it stores any, so a wire reads another wire late.
* *Partitioned simulator.* `tick_activity` compares with a snapshot that `tick` and
  memory writes do not keep, and evaluates combinational routes once; a nested
  instance's input port is exchanged as if it were stable; registers are exchanged
  before asynchronous resets; cones of a design with instances are not independent.
* *JIT and AOT.* Designs with intermediate values above 128 bits are accepted; the
  vector JIT picks its element size from signal widths only; trees cut memory
  addresses to 64 bits; activity mode with `tick_clocked` leaves stale snapshots;
  activity and vector modes evaluate write ports in turn; `trivial_output_aliases`
  treats an instance's input port as stable; a reset driven by a wire is read stale;
  an asynchronous reset pulsed between ticks without a settling read is not seen;
  `tick_db` with memories alternates between two copies; `set_signal` does not mark
  dirty. The documentation of `tick_clocked` says that memory writes are not gated,
  the code gates them; that of `compile_lanes` says groups of 64, the code uses 128.
* *Hybrid and passes.* `gen_from_lin` is always empty; a leap ignores resets and, past
  half a word, takes inputs as zero; inputs of more than 128 bits together are mixed
  with each other (the shifts of `LinearLeap::build`, leap.rs 149, and of
  `HybridSimulator::leap`, hybrid.rs 414, wrap in a release build); a state of exactly
  128 bits, which `LinearLeap::build` accepts, leaps without its constant (leap.rs
  192-214, guarded by a `debug_assert_eq!` only), so that `leap(n)` is not
  `tick_many(n)` although the inputs are zero, as hybrid.rs 381-385 promises: the
  comment of `idle_operator` says "valid only when the constant is zero", and no
  caller checks it; `LinearAot` never feeds a reset driven by a wire
  and treats an asynchronous reset as synchronous; tabulation's signed compare lacks
  sign extension; identities of `specialize` differ above 128 bits.
* *GPU.* The shader's unsigned `<` on more than one limb lets the lowest differing
  limb decide, and a multi-limb multiply yields only limb 0, where `docs/gpu.md`
  lists both as supported; a fixed number of combinational repeats misses a chain of
  asynchronous resets; fixed-template replay applies dense inputs first;
  `set_memory` rewrites all memories from a host mirror that ticks do not update;
  replay leaves wires unsettled after the last step.
* *Planning and surrogates.* Siblings wired together inside an instance-only module
  are cut from each other with no exchange between them; the shadow verdicts of a FAST
  GEMM report are copied from the plan, whatever manifest that was made under.

## 4. What is proved

TLAPS checks the following for all values of the constants, under the named
assumptions only, which TLC evaluates in every run. A theorem with a property of a
run says for every instance what the run says for one.

| Module | Theorems | Property of a run |
|---|---|---|
| `CheckpointingProofs` | `CadenceInvariant`, `TypeCorrect`, `LossBounded`, `CadenceExact`, `SinkAscending` | `LossBound`, `CompleteRun`, `StrictlyAscending` |
| | `SupervisorInvariance`, `ProcessesStayOwned`, `CheckpointStaysRecoverable`, `RecoveriesLoseNothing` | `ProcessesOwned`, `CheckpointRecoverable`, `RecoveryLosesNothing` |
| `TcpWorkerProofs` | `TcpInvariance`, `AnswersLag`, `RequestsCarriedOut`, `SnapshotsCurrent` | `AnswerLag`, `CarriedOut`, `SnapshotIsCurrent` |
| `DistributedRuntimeProofs` | `RangesInvariant`, `LanesPartitioned`, `RuntimeInvariance`, `AlwaysInStep`, `RuntimeIsOneSimulator` | `LanePartition`, `ShardsInStep`, `BehavesAsOneSimulator` |
| `PartitionSessionProofs` | `SessionInvariance`, `TransfersWhole`, `SessionProgress`, `MailboxesAreFaithful`, `WorkersHaveCounted`, `ReportsNeverGoBack`, `TelemetryIsExact`, `ReportsAreFaithful` | `TornOnlyByFaults`, `MailboxesFaithful`, `ReportsFaithful` |
| `RvCircuitsProofs` | `CountsTrackPointers`, `FifoIsChannel`, `SkidIsChannel`, `SliceIsChannel` | (the circuits' part of the next) |
| `ReadyValidProofs` | `ReadyValidInvariance`, `ReadyValidIsSound`, `ReadyValidIsChannel` | `ReadyValidSound`, `ImplementsChannel` |
| `SurrogateProofs` | `SurrogatesSafe`, `SurrogatePolicies`, `SurrogatePlans`, `SurrogateReports` | `PoliciesSafe`, `PlansHonoured`, `SurrogateReportsExact` |

With these, every safety property of the runs `checkpointing`, `tcp_worker`,
`runtime`, `session` and `surrogates` is a theorem, and both ready/valid ones of `design`:
for its behaviours that are of `ReadyValid`, the others leave these variables alone.

**Checkpoint loop** (`BoundsAssumption`: the bounds are natural numbers).
`CadenceInvariant` is the inductive invariant: while a run goes on, the logged
steps are exactly those the cadence prescribes up to `completed`; `last` is the
largest of them; and at the head of the loop `completed` is at most one chunk
past the last multiple of `every_steps`. None of the properties is inductive by
itself: that a chunk ends at or before the next multiple needs to know that the
previous one did not end beyond, and that the final checkpoint is not a duplicate
needs to know that a checkpoint was logged at every multiple passed. The step
case rests on four arithmetic lemmas about `%`, because the provers know little
about it.

**Supervisor** (`SupervisorAssumption`: at least one worker, natural bounds).
`ProcessesOwned` says nothing of the processes a recovery is spawning, and
`CheckpointRecoverable` nothing of the shards, so neither is inductive.
`SupervisorInv` adds where every handle is in each phase: every running process is
in `processes`, in `fresh` or stray; `fresh` is empty except while a set is spawned
or reaped and shares no process with `processes`; no two workers share a process; the
runtime is on `processes`, none missing. And what the processes have executed: those
not yet spawned nothing, those of a clean runtime the same, and right after the
exchange of the sets each shard exactly what the checkpoint holds for it. The last is
what makes the checkpoint taken at the end of a recovery hold the same as the one
before it. There is one lemma per action, with one step per part of the invariant.

**TCP worker** (the assumptions of `TcpWorker` and `WorkerService`). `TcpInv` follows every
frame: the requests in a connection, the one the server holds and the answers not
yet read are consecutive frames of that client, and their number is what the client
has sent less what it has read or given up on. `AnswerLag` is about the front of the
queue and so follows from where the queue begins; `CarriedOut` from the log of
executed requests being, per client, an ascending sequence of frames that the
answers are about; `SnapshotIsCurrent` from the server serving one connection at a
time. `WorkerServiceProofs` has the lemmas about the service itself: which requests
keep a shard, which make one, and what a response says of it.

**Distributed runtime** (a non-empty topology of workers with at least one lane, which the
constructor checks). `RangesInvariant`: the ranges recorded so far ascend without
overlap, end at or before `start_lane`, and cover every lane below it; `LanePartition`
is not inductive since it does not say that nothing recorded lies at or above
`start_lane`, where the next range goes. `RuntimeInv` adds, for each shard, what it
has executed of the operation in progress and what waits on its connection, and that
a trusted runtime has no overdue answer. `RuntimeIsOneSimulator` is the refinement:
the initial states map to the initial state, and each step maps to a step of
`BatchSimulator` (a `Return` that succeeded, an operation that failed) or to a
stutter, because what the caller sees of an operation in progress is the state it
began from.

**Partition session** (`SessionAssumption`: at least one worker and routes between
workers of the launch). All steps are first classified into nine abstract steps
(`StepIs`), and each part of the invariant is then kept by each of the nine. The parts
are `BaseInv` (how far a deployment and a transfer have come), `ScriptInv` (what a
script has emitted is in order and complete up to what is due now), `MailInv` (an end
of a route holds its payload *and* nothing waiting at its worker will change it; which
half of a transfer has happened; which prefix of the workers has been cleared),
`ActionsCounted` (a worker's counter and its waiting requests against what the session
has recorded, has had answered in this call and has seen fail, in launch order) and
`ReportsRight` (the counts in the last report are sums over a prefix of the workers,
none above what the worker holds). None of the properties mentions requests that were
given up on but will still be carried out; all of them depend on those.

**Ready/valid circuits** (`RvAssumption`: a positive depth, and registers wide enough for
pointer and count, which `clog2` in the code provides; the provers know nothing about
`2^n`). `FifoInv` is that the count is the distance of the pointers. `WriteAppends` and
`ReadTakesFirst` say what a write and a read do to the sequence of items the registers
hold, for any depth and wrap-around, and give the refinement of `ReadyValidChannel` with
that sequence as its contents. `ReadyValid` instantiates the module once for each FIFO, and
`ReadyValidProofs` uses these lemmas through the same instances.

**Ready/valid helpers** (`ReadyValidAssumption`: `RvAssumption` for both FIFOs, and that
endpoints and depths are those of accepted designs). `HelperInv` says what the result of
a call is: either a code and nothing else, or drivers with the three parts of
`HelpersSound`. Each helper has a lemma (`ConnectSound`, `SliceSound`, `SkidSound`,
`FifoSound`, `MemFifoSound`), resting on:

* No code means equal payloads (`NoEndpointCodes`): the three checks for missing, extra
  and retyped fields leave nothing else, which needs that no bundle has a field twice.
* Drivers pair a destination with one source (`DrivesEachPortOnce` counts them), so a
  helper's driver set is as large as its set of ports because no two leaves share a path.
* A field is read where it was packed: `SumWidths` of a sequence is that of a prefix plus
  that of the rest. The widths are a recursive function, and the lemmas are shown by
  induction over the set of lengths they hold of (`SetOfAllNat`, from the
  well-foundedness of `<`), including that the function exists (`WidthsExist`).

`RvInv` is the invariant of the composition: the invariant of the part the behaviour is
of. `ReadyValidIsChannel` maps each part's contents to the queue of one channel; a FIFO's
capacity is its depth, a stage's is one, and both are at most the channel's.
The proof attempt showed that the endpoint checks had been written as a `CASE` whose
arms overlap, which in TLA+ leaves open which is taken while the code takes the first;
they are an `IF` chain now.

**Surrogates** (`TopologyTypes`, `GemmTypes`, `EventTypes`: the files have the types the
Rust structures give them, nothing more; they may be inconsistent, out of range or made
for each other by nobody). The properties speak of what the commands do with the files
there are, the invariant of where these come from. `SurrogatesInv` says: a policy report
or plan on disk is what the command made of *some* well-typed manifest, corpus and
worker specs, kept in `madeFor` and `policy`, whatever the files say now (`GemmSide`,
`EventSide`); the attachment of a runtime lies on its shards, and its execution report
is `from_attachment` of it after as many actions as there were (`RuntimeSide`). Each
property then follows for any files:

* Worker specs that pass validation are contiguous (`ContiguousSums`), so a lane has one
  owner (`OneOwner`), and so has a plan's item among a runtime's shards.
* Policy items are numbered from 0 (`Numbered`), so that looking an item up by its
  index finds it, in the plan and in the policy alike (`NumberedMatch`); an ok plan
  has them all, and a plan the FAST run accepts has the same lanes and decisions.
* Counters are cardinalities. The tallies of disjoint parts add up to that of their
  union (`PartitionSum`), over workers by name and over lanes.
* A prefix sum is defined by recursion on the length, so what holds of sums is shown by
  induction. The library's induction theorems take an operator and cannot be used;
  `NatSetInduction` says the same of a set, from the well-foundedness of `<` on the
  naturals, and the lemmas `Sums...` rest on it.
* An inspection counts, per feature, the steps a field is missing in, and an emission
  fails at the first; `InspectionPredicts` relates them through the set of samples in
  which something is missing.

### Only model-checked

* All liveness: fairness and `ENABLED` are beyond the prover.
* The modules with `RECURSIVE` operators, `Bitwise` or folds over data (validation,
  compilation, planning, the engines, the passes, trace replay): the prover has no
  arithmetic for `Bitwise` and loses its SMT backend where an operator is recursive.
  Induction itself is possible for a recursive *function* over the naturals, as the
  widths and the prefix sums above show, but these modules recurse over graphs, nested
  expressions and programs.

## 5. What is not modelled, and the plan

Left out for good: parsers and emitters (PyRTL, SystemVerilog, macros, RISC-V
assembler), machine-code emission as such (what the emitted code computes is
modelled), device I/O, the topology autotuner's measurements. `PROJECT.json` gives the
reason for each component.

Simplifications inside the modelled parts: the runtime's shards hold one design (a
counter); one worker id per process; `restart_all` called on the supervisor's process
set behind its back; operation counters, which no decision of the code reads; one-bit
signals where the order of events is the subject and no more than five-bit ones where
arithmetic is.

Planned:

1. Induction over a set of naturals, as in `SurrogateProofs` and `ReadyValidProofs`, for
   `2^n` and with it `RvAssumption`'s register widths, and for the limb arithmetic.
2. Trace replay without recursive operators, and with it `AutotuneSound` and the replay
   report as theorems.
3. Work stealing and lane splitting of gpu-sim.
