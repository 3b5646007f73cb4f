-------------------------- MODULE SurrogateRuntime --------------------------
(***************************************************************************)
(* What the GEMM and the event surrogates share: the worker specs a        *)
(* runtime plan is made for, the counters of FAST reports, and the side of *)
(* rrtl-runtime that checks a plan against its shards, attaches it and     *)
(* reports on it after every simulation action.                            *)
(*                                                                         *)
(* Worker specs and shards are sequences of [id, start, lanes].  A plan is *)
(* [schema, ok, total, workers, items]; `ok' is false exactly when the     *)
(* plan carries errors.  A plan item has at least [index, lane, worker,    *)
(* decision, source, prov, shadow]: `source' is the result that replaces   *)
(* or confirms the RTL's, `prov' its provenance, `shadow' whether the      *)
(* shadow comparison agreed ("none" where there was none).  Lanes stay far *)
(* below the range of usize, so its saturating sums are sums.              *)
(***************************************************************************)
EXTENDS Integers, FiniteSets, SequencesExt

CONSTANTS
    Nothing,        \* an absent file or optional value
    WorkerId,
    Topologies,     \* the topologies a user may write, sequences of [id, lanes]
    SpecLists,      \* worker specs a caller may plan for directly
    MaxEdits,       \* bound on the files replaced during a behaviour
    MaxActions      \* bound on the runtime's actions between two resets

WorkerSpec == [id : WorkerId, start : Nat, lanes : Nat]

\* What the Rust types say: lanes are usize, an id is a string.
ASSUME TopologyTypes ==
    /\ Topologies \subseteq Seq([id : WorkerId, lanes : Nat])
    /\ SpecLists \subseteq Seq(WorkerSpec)
    /\ "worker0" \in WorkerId
    /\ MaxEdits \in Nat /\ MaxActions \in Nat

VARIABLES
    m,         \* the manifest on disk
    t,         \* the topology on disk
    policy,    \* the policy report on disk, with the files it was made from
    plan,      \* the runtime plan on disk
    rt,        \* the topology a DistributedRuntime was built with, <<>> before
    att,       \* its surrogate_attachment, a set of at most one
    exec,      \* its surrogate_execution, a set of at most one
    madeFor,   \* history: the files behind the plan and the workers it is for
    acted,     \* history: actions since the attachment or the last reset
    edits

runtimeVars == <<m, t, policy, plan, rt, att, exec, madeFor, acted, edits>>

-----------------------------------------------------------------------------
(* Sequences.                                                              *)

CountSeq(seq, Test(_)) == Cardinality({i \in DOMAIN seq : Test(seq[i])})

\* The sums of a sequence's prefixes, from 0 to its length.
Sums(s) ==
    LET sum[i \in 0..Len(s)] == IF i = 0 THEN 0 ELSE sum[i - 1] + s[i]
    IN  sum

SumOf(s) == Sums(s)[Len(s)]

\* The members of a set of indices, in order.
InOrder(S) ==
    [k \in 1..Cardinality(S) |-> CHOOSE i \in S : Cardinality({j \in S : j <= i}) = k]

Least(S) == CHOOSE i \in S : \A j \in S : i <= j

HasItem(items, index) == \E i \in DOMAIN items : items[i].index = index

\* items.iter().find(|item| item.index == index)
ItemAt(items, index) == items[Least({i \in DOMAIN items : items[i].index = index})]

-----------------------------------------------------------------------------
(* Manifests: [schema, id, class, family, format, tensors, artifact, sha,  *)
(* rows, cols, kmin, kmax, maxErr, maxMean, maxLat, mode, fallback, task,  *)
(* ...].  `schema' is whether the schema is the supported one, `tensors'   *)
(* whether an ONNX artifact lists the tensor names its class needs,        *)
(* `artifact' whether the file is readable and has the hash `sha'.         *)

Modes == {"ApproximateWithTolerance", "ShadowCompare", "TelemetryOnly"}

Fallbacks == {"ExactFallback", "FailClosed"}

Decisions == {"SurrogateUsed", "ExactFallback", "FailClosed", "ShadowCompare"}

validate_transaction_kernel_manifest(man) ==
    /\ man.rows # 0 /\ man.cols # 0
    /\ man.kmin # 0 /\ man.kmax >= man.kmin

validate_event_predictor_manifest(man) ==
    /\ man.task # Nothing
    /\ man.task.target # ""
    /\ man.task.window # 0
    /\ man.task.signals # {}
    /\ man.task.label # Nothing
    /\ man.format # "MockGemm"

\* Mutant: the artifact's hash is not compared with the manifest's.
validate_manifest_stale_artifact(man) ==
    /\ man.class = "TransactionKernel" => validate_transaction_kernel_manifest(man)
    /\ man.class = "EventPredictor" => validate_event_predictor_manifest(man)
    /\ man.artifact # "missing"

validate_manifest(man) ==
    /\ man.schema
    /\ man.id # ""
    /\ man.class = "TransactionKernel" => validate_transaction_kernel_manifest(man)
    /\ man.class = "EventPredictor" => validate_event_predictor_manifest(man)
    /\ man.family = "GnnTransformer" => man.format = "Onnx"
    /\ man.format = "Onnx" /\ man.class \in {"TransactionKernel", "EventPredictor"}
           => man.tensors
    /\ man.maxErr >= 0 /\ man.maxMean >= 0
    /\ man.artifact = "match"

\* The provenance of a result: whether it is exact, and whose it is.
Provenance(man, exact) ==
    [exact |-> exact, surrogate |-> man.id, artifact |-> man.sha, policy |-> man.mode]

-----------------------------------------------------------------------------
(* Worker specs.                                                           *)

TotalLanes(workers) ==
    IF workers = <<>> THEN 0
    ELSE Max({workers[i].start + workers[i].lanes : i \in DOMAIN workers})

\* Mutant: the specs are not required to be contiguous.
validate_runtime_worker_specs_gaps(workers) ==
    /\ \A i, j \in DOMAIN workers : i # j => workers[i].id # workers[j].id
    /\ \A i \in DOMAIN workers : workers[i].lanes # 0

\* Contiguous from lane 0: the expected start is the end of the spec before.
validate_runtime_worker_specs(workers) ==
    \A i \in DOMAIN workers :
        /\ workers[i].id # ""
        /\ \A j \in 1..(i - 1) : workers[j].id # workers[i].id
        /\ workers[i].lanes # 0
        /\ workers[i].start = IF i = 1 THEN 0
                              ELSE workers[i - 1].start + workers[i - 1].lanes

Covers(worker, lane) == worker.start <= lane /\ lane < worker.start + worker.lanes

Covered(workers, lane) == \E i \in DOMAIN workers : Covers(workers[i], lane)

worker_for_lane(workers, lane) ==
    workers[Least({i \in DOMAIN workers : Covers(workers[i], lane)})]

\* plan_runtime_gemm and plan_runtime_events: one worker for all lanes.
OneWorker(lanes) ==
    IF lanes = 0 THEN <<>> ELSE <<[id |-> "worker0", start |-> 0, lanes |-> lanes]>>

\* `--worker id:lanes' and a runtime's shards: start lanes are running sums.
ShardsOf(topology) ==
    LET starts == Sums([i \in DOMAIN topology |-> topology[i].lanes])
    IN  [i \in DOMAIN topology |-> [id    |-> topology[i].id,
                                    start |-> starts[i - 1],
                                    lanes |-> topology[i].lanes]]

\* RuntimeTopology::total_lanes
LanesOf(workers) == SumOf([i \in DOMAIN workers |-> workers[i].lanes])

-----------------------------------------------------------------------------
(* Counters.  `S' holds the indices of the items that are counted.         *)

Counters == {"items", "replaced", "exacts", "closed", "compared", "failed"}

Tally(items, S) ==
    [items    |-> Cardinality(S),
     replaced |-> Cardinality({i \in S : items[i].source = "Surrogate"}),
     exacts   |-> Cardinality({i \in S : items[i].source = "Exact"}),
     closed   |-> Cardinality({i \in S : items[i].decision = "FailClosed"}),
     compared |-> Cardinality({i \in S : items[i].shadow # "none"}),
     failed   |-> Cardinality({i \in S : items[i].shadow = "diverged"})]

OnWorker(items, worker) == {i \in DOMAIN items : Covers(worker, items[i].lane)}

OnLane(items, lane) == {i \in DOMAIN items : items[i].lane = lane}

OfWorker(items, id) == {i \in DOMAIN items : items[i].worker = id}

LanesUsed(items) == {items[i].lane : i \in DOMAIN items}

\* FAST reports count by the lanes a plan's workers cover, and by lane.
WorkerTallies(workers, items) ==
    [k \in DOMAIN workers |-> [id     |-> workers[k].id,
                               start  |-> workers[k].start,
                               lanes  |-> workers[k].lanes,
                               counts |-> Tally(items, OnWorker(items, workers[k]))]]

LaneTallies(items) == [lane \in LanesUsed(items) |-> Tally(items, OnLane(items, lane))]

\* Deterministic shadow samples; stride Nothing marks none.
ShadowSampled(index, opts) ==
    /\ opts.stride # Nothing
    /\ opts.stride # 0
    /\ index >= opts.offset
    /\ (index - opts.offset) % opts.stride = 0

\* A worker's share of a plan, by the worker id the items carry.
PlanSummary(worker, items) ==
    LET mine == Tally(items, OfWorker(items, worker.id))
    IN  [id       |-> worker.id,
         start    |-> worker.start,
         lanes    |-> worker.lanes,
         assigned |-> mine.items,
         used     |-> mine.replaced,
         exacts   |-> mine.exacts]

PlanSummaries(workers, items) == [k \in DOMAIN workers |-> PlanSummary(workers[k], items)]

-----------------------------------------------------------------------------
(* Attaching a plan to the shards of a runtime.                            *)

runtime_shards_by_worker(shards) ==
    /\ \A i \in DOMAIN shards : shards[i].lanes # 0
    /\ \A i, j \in DOMAIN shards : i # j => shards[i].id # shards[j].id

KnownWorker(shards, id) == \E i \in DOMAIN shards : shards[i].id = id

ShardNamed(shards, id) == shards[CHOOSE i \in DOMAIN shards : shards[i].id = id]

WorkersMatch(shards, workers) ==
    /\ Len(workers) = Len(shards)
    /\ \A i, j \in DOMAIN workers : i # j => workers[i].id # workers[j].id
    /\ \A i \in DOMAIN workers :
           /\ KnownWorker(shards, workers[i].id)
           /\ workers[i].start = ShardNamed(shards, workers[i].id).start
           /\ workers[i].lanes = ShardNamed(shards, workers[i].id).lanes

ItemOnItsShard(shards, item) ==
    /\ KnownWorker(shards, item.worker)
    /\ Covers(ShardNamed(shards, item.worker), item.lane)

SummariesMatch(p) ==
    \A i \in DOMAIN p.workers : p.workers[i] = PlanSummary(p.workers[i], p.items)

ProvenanceFits(item) == (item.source = "Exact") = item.prov.exact

\* The attachment a plan's items [index, lane, worker, ...] give.
Attachment(shards, p, items) ==
    [schema  |-> p.schema,
     total   |-> LanesOf(shards),
     workers |-> PlanSummaries(shards, p.items),
     items   |-> items,
     ready   |-> TRUE,
     used    |-> SumOf([k \in DOMAIN shards |-> PlanSummary(shards[k], p.items).used]),
     exacts  |-> SumOf([k \in DOMAIN shards |-> PlanSummary(shards[k], p.items).exacts])]

\* Mutant: the lanes a worker owns are not compared with the shard's.
gemm_plan_attaches_ids(shards, p) ==
    /\ p.schema = "gemm" /\ p.ok
    /\ runtime_shards_by_worker(shards)
    /\ Len(p.workers) = Len(shards)
    /\ \A i \in DOMAIN p.workers : KnownWorker(shards, p.workers[i].id)
    /\ SummariesMatch(p)

\* The checks of attach_gemm_runtime_plan_to_shard_infos, which does not
\* look at the items' provenance.
gemm_plan_attaches(shards, p) ==
    /\ p.schema = "gemm"
    /\ p.ok
    /\ p.total = LanesOf(shards)
    /\ runtime_shards_by_worker(shards)
    /\ WorkersMatch(shards, p.workers)
    /\ \A i \in DOMAIN p.items : ItemOnItsShard(shards, p.items[i])
    /\ SummariesMatch(p)

attach_gemm_runtime_plan_to_shard_infos(shards, p) ==
    Attachment(shards, p,
        [i \in DOMAIN p.items |->
            LET it == p.items[i]
            IN  [index |-> it.index, sample |-> Nothing, target |-> Nothing,
                 lane |-> it.lane, worker |-> it.worker, decision |-> it.decision,
                 source |-> it.source, exact |-> it.prov.exact,
                 surrogate |-> it.prov.surrogate, shadow |-> it.shadow,
                 predicted |-> Nothing, expected |-> Nothing]])

\* Mutant: the topology's total is not compared, nor the workers' lanes.
event_plan_attaches_ids(shards, p) ==
    /\ p.schema = "event" /\ p.ok
    /\ runtime_shards_by_worker(shards)
    /\ Len(p.workers) = Len(shards)
    /\ \A i \in DOMAIN p.workers : KnownWorker(shards, p.workers[i].id)
    /\ SummariesMatch(p)

\* The checks of attach_event_runtime_plan_to_shard_infos.
event_plan_attaches(shards, p) ==
    /\ p.schema = "event"
    /\ p.ok
    /\ p.total = LanesOf(shards)
    /\ runtime_shards_by_worker(shards)
    /\ WorkersMatch(shards, p.workers)
    /\ \A i \in DOMAIN p.items :
           /\ ItemOnItsShard(shards, p.items[i])
           /\ ProvenanceFits(p.items[i])
    /\ SummariesMatch(p)

attach_event_runtime_plan_to_shard_infos(shards, p) ==
    Attachment(shards, p,
        [i \in DOMAIN p.items |->
            LET it == p.items[i]
            IN  [index |-> it.index, sample |-> it.sample,
                 target |-> IF it.target = "" THEN Nothing ELSE it.target,
                 lane |-> it.lane, worker |-> it.worker, decision |-> it.decision,
                 source |-> it.source, exact |-> it.prov.exact,
                 surrogate |-> it.prov.surrogate, shadow |-> it.shadow,
                 predicted |-> it.predicted, expected |-> it.expected]])

-----------------------------------------------------------------------------
(* RuntimeSurrogateExecutionReport.                                        *)

\* Reports of a runtime do not count fail-closed items: a plan has none.
Reported(tally) == [f \in Counters \ {"closed"} |-> tally[f]]

runtime_surrogate_event_workers(a) ==
    [k \in DOMAIN a.workers |->
        [id     |-> a.workers[k].id,
         start  |-> a.workers[k].start,
         lanes  |-> a.workers[k].lanes,
         counts |-> Reported(Tally(a.items, OfWorker(a.items, a.workers[k].id)))]]

runtime_surrogate_event_lanes(a) ==
    [lane \in LanesUsed(a.items) |-> Reported(Tally(a.items, OnLane(a.items, lane)))]

\* saturating_sub
Less(x, y) == IF x < y THEN 0 ELSE x - y

\* The items a shadow comparison was asked of and not made for.
Unavailable(items) ==
    Cardinality({i \in DOMAIN items :
                    items[i].decision = "ShadowCompare" /\ items[i].shadow = "none"})

ExecutionReport(a, kind, count, compared) ==
    LET tally == Tally(a.items, DOMAIN a.items)
        event == a.schema = "event"
        ready == a.ready /\ a.total # 0
    IN  [ready       |-> ready,
         executed    |-> ready /\ tally.items > 0,
         schema      |-> a.schema,
         total       |-> a.total,
         attached    |-> tally.items,
         eligible    |-> tally.replaced,
         fallback    |-> tally.exacts,
         invalid     |-> Less(tally.items, tally.replaced + tally.exacts),
         compared    |-> compared,
         passed      |-> CountSeq(a.items, LAMBDA it : it.shadow = "agreed"),
         failed      |-> tally.failed,
         unavailable |-> Unavailable(a.items),
         kind        |-> kind,
         count       |-> count,
         workers     |-> IF event THEN runtime_surrogate_event_workers(a) ELSE <<>>,
         lanes       |-> IF event THEN runtime_surrogate_event_lanes(a) ELSE <<>>,
         items       |-> IF event THEN a.items ELSE <<>>]

\* Mutant: only the comparisons that failed are counted.
from_attachment_counts_failed(a, kind, count) ==
    ExecutionReport(a, kind, count, Tally(a.items, DOMAIN a.items).failed)

from_attachment(a, kind, count) ==
    ExecutionReport(a, kind, count, Tally(a.items, DOMAIN a.items).compared)

inspect_attachment(a) == from_attachment(a, "None", 0)

ActionKinds == {"EvalCombinational", "Tick", "TickMany"}

ActionCount(reports) == IF reports = {} THEN 0 ELSE (CHOOSE r \in reports : TRUE).count

\* Mutant: the count starts over with every action.
record_surrogate_execution_restarts(as, reports, kind) ==
    IF as = {} THEN reports ELSE {from_attachment(a, kind, 1) : a \in as}

record_surrogate_execution(as, reports, kind) ==
    IF as = {} THEN reports
    ELSE {from_attachment(a, kind, ActionCount(reports) + 1) : a \in as}

-----------------------------------------------------------------------------
(* The runtime.                                                            *)

RuntimeInit ==
    /\ policy = Nothing /\ plan = Nothing /\ madeFor = Nothing
    /\ rt = <<>> /\ att = {} /\ exec = {}
    /\ acted = 0 /\ edits = 0

\* DistributedRuntime::new_with_options
BuildRuntime ==
    /\ t # <<>>
    /\ \A i \in DOMAIN t : t[i].lanes # 0
    /\ rt' = t
    /\ att' = {} /\ exec' = {} /\ acted' = 0
    /\ UNCHANGED <<m, t, policy, plan, madeFor, edits>>

\* What an attachment that is accepted does to the runtime.
Attached(new) ==
    /\ exec' = {inspect_attachment(new)}
    /\ att' = {new}
    /\ acted' = 0
    /\ UNCHANGED <<m, t, policy, plan, rt, madeFor, edits>>

\* An action that succeeded on every shard; another changes none of this.
RuntimeAction(kind) ==
    /\ rt # <<>>
    /\ acted < MaxActions
    /\ exec' = record_surrogate_execution(att, exec, kind)
    /\ acted' = IF att = {} THEN acted ELSE acted + 1
    /\ UNCHANGED <<m, t, policy, plan, rt, att, madeFor, edits>>

ResetStats ==
    /\ rt # <<>>
    /\ exec' = {inspect_attachment(a) : a \in att}
    /\ acted' = 0
    /\ UNCHANGED <<m, t, policy, plan, rt, att, madeFor, edits>>

RuntimeNext == BuildRuntime \/ ResetStats \/ \E kind \in ActionKinds : RuntimeAction(kind)

-----------------------------------------------------------------------------
(* What both pipelines owe.                                                *)

\* A sum over the lanes a report has an entry for.
SumOverLanes(lanes, f) ==
    SumOf([k \in 1..(Max({0} \cup DOMAIN lanes) + 1) |->
              IF k - 1 \in DOMAIN lanes THEN lanes[k - 1][f] ELSE 0])

\* The workers' and the lanes' counters of a FAST report add up to its totals.
TalliesAddUp(fast) ==
    \A f \in Counters :
        /\ SumOf([k \in DOMAIN fast.workers |-> fast.workers[k].counts[f]]) = fast.totals[f]
        /\ SumOverLanes(fast.lanes, f) = fast.totals[f]

\* Attached items lie on the lanes their worker owns in the runtime they
\* are attached to, with the provenance of what they replace or confirm,
\* whatever topology the plan was made for.
AttachedOnOwnedLanes ==
    \A a \in att :
        /\ a.total = LanesOf(ShardsOf(rt))
        /\ \A i \in DOMAIN a.items :
               /\ Covered(ShardsOf(rt), a.items[i].lane)
               /\ worker_for_lane(ShardsOf(rt), a.items[i].lane).id = a.items[i].worker
               /\ a.items[i].exact = (a.items[i].source = "Exact")

\* The runtime's execution report describes the current attachment and the
\* actions since it was attached or the statistics were reset; a refused
\* attachment changes neither.
ExecutionDescribesAttachment ==
    /\ (exec = {}) = (att = {})
    /\ \A r \in exec, a \in att :
        /\ r.ready /\ r.executed = (a.items # <<>>)
        /\ r.attached = Len(a.items) /\ r.invalid = 0
        /\ r.eligible = a.used /\ r.fallback = a.exacts
        /\ r.eligible + r.fallback = r.attached
        /\ r.passed + r.failed = r.compared
        /\ r.compared + r.unavailable <= r.attached
        /\ r.count = acted
        /\ (r.kind = "None") = (acted = 0)

=============================================================================
