---------------------------- MODULE SurrogateGemm ----------------------------
(***************************************************************************)
(* Transaction-kernel surrogates: policy-gemm-batch, plan-runtime-gemm,    *)
(* run-fast-gemm and attach-runtime-gemm of rrtl-surrogate, and a runtime  *)
(* that runs with the plan attached.  The commands exchange files, so the  *)
(* manifest, the batch and the topology may be replaced between any two of *)
(* them, and a plan may be used with another batch than it was made for.   *)
(* A FAST run only reads files: it is an operator, and what it must honour *)
(* is stated of the run the files on disk would give now.                  *)
(*                                                                         *)
(* A transaction is [lane, rows, cols, k, a, w, expected, explat]; a GEMM  *)
(* result is [ok, c, lat, prov].  Matrices are sequences of rows.  Tags    *)
(* and error texts, and the maxima run-gemm-batch reports beside its       *)
(* counters, are left out.                                                 *)
(***************************************************************************)
EXTENDS SurrogateRuntime

CONSTANTS
    GemmManifests,     \* the manifests a user may write
    Batches,           \* the batches [schema, txs]
    Samplings,         \* FAST options [stride, offset]
    OnnxGemm(_, _),    \* external: what a session on this model returns
    MaxU64             \* what the largest u64 stands for

Matrix == Seq(Seq(Int))

Transaction ==
    [lane : Nat \cup {Nothing}, rows : Nat, cols : Nat, k : Nat, a : Matrix, w : Matrix,
     expected : Matrix \cup {Nothing}, explat : Nat \cup {Nothing}]

\* What the Rust types say; a session's tensors are rounded sequences.
ASSUME GemmTypes ==
    /\ \A man \in GemmManifests :
           /\ man.rows \in Nat /\ man.cols \in Nat /\ man.kmin \in Nat /\ man.kmax \in Nat
           /\ man.maxErr \in Int /\ man.maxMean \in Int /\ man.maxLat \in Nat
           /\ man.mode \in Modes /\ man.fallback \in Fallbacks
    /\ Batches \subseteq [schema : BOOLEAN, txs : Seq(Transaction)]
    /\ \A man \in GemmManifests : \A batch \in Batches : \A i \in DOMAIN batch.txs :
           \E out \in {OnnxGemm(man.model, batch.txs[i])} :
               out = Nothing \/ (out.values \in Seq(Int) /\ out.telemetry \in Seq(Int))
    /\ MaxU64 \in Nat

VARIABLE b    \* the batch on disk

gemmVars == <<runtimeVars, b>>

-----------------------------------------------------------------------------
(* Running the model and the reference.                                    *)

Abs(x) == IF x < 0 THEN -x ELSE x

validate_transaction_shape(tx) ==
    /\ Len(tx.a) = tx.rows
    /\ Len(tx.w) = tx.k
    /\ \A r \in DOMAIN tx.a : Len(tx.a[r]) = tx.k
    /\ \A r \in DOMAIN tx.w : Len(tx.w[r]) = tx.cols

\* Mutant: a transaction outside the trained range of k is run all the same.
validate_transaction_domain_any_k(man, tx) ==
    /\ tx.rows = man.rows /\ tx.cols = man.cols
    /\ validate_transaction_shape(tx)

validate_transaction_domain(man, tx) ==
    /\ tx.rows = man.rows /\ tx.cols = man.cols
    /\ tx.k >= man.kmin /\ tx.k <= man.kmax
    /\ validate_transaction_shape(tx)

\* Products of i64 summed in i128 do not overflow.
mock_gemm(tx) ==
    [r \in 1..tx.rows |-> [c \in 1..tx.cols |->
        SumOf([i \in 1..tx.k |-> tx.a[r][i] * tx.w[i][c]])]]

\* Nothing at all to compute wraps around in a release build.
Latency(tx) ==
    IF tx.k + tx.rows + tx.cols = 0 THEN MaxU64 ELSE tx.k + tx.rows + tx.cols - 1

\* Nothing when there is no session, tensor or `onnx-ort' feature; telemetry
\* is the latency, the active cycles and the utilization.
run_onnx_gemm(man, tx) ==
    LET out == OnnxGemm(man.model, tx)
    IN  IF out = Nothing THEN Nothing
        ELSE IF Len(out.values) # tx.rows * tx.cols \/ Len(out.telemetry) < 3 THEN Nothing
        ELSE [c   |-> [r \in 1..tx.rows |-> [c \in 1..tx.cols |->
                          out.values[(r - 1) * tx.cols + c]]],
              lat |-> IF out.telemetry[1] < 0 THEN 0 ELSE out.telemetry[1]]

\* A missing expected element counts as zero.
Expected(expected, r, c) ==
    IF r \in DOMAIN expected /\ c \in DOMAIN expected[r] THEN expected[r][c] ELSE 0

Cells(matrix) == UNION {{r} \X (DOMAIN matrix[r]) : r \in DOMAIN matrix}

\* Row by row, and in a row by column.
Before(x, y) == x[1] < y[1] \/ (x[1] = y[1] /\ x[2] < y[2])

gemm_metrics(actual, expected, lat, explat) ==
    LET err(x) == Abs(actual[x[1]][x[2]] - Expected(expected, x[1], x[2]))
        off == {x \in Cells(actual) : err(x) # 0}
    IN  [max   |-> Max({0} \cup {err(x) : x \in Cells(actual)}),
         sum   |-> MapThenSumSet(err, Cells(actual)),
         count |-> Cardinality(Cells(actual)),
         lat   |-> IF explat = Nothing THEN 0 ELSE Abs(lat - explat),
         first |-> IF off = {} THEN Nothing
                   ELSE CHOOSE x \in off : \A y \in off \ {x} : Before(x, y)]

\* The mean is the sum over the count, and zero of no cells.
MetricsOk(man, metrics) ==
    /\ metrics.max <= man.maxErr
    /\ metrics.sum <= man.maxMean * metrics.count
    /\ metrics.lat <= man.maxLat

GemmOutput(man, tx) ==
    IF man.format = "MockGemm" THEN [c |-> mock_gemm(tx), lat |-> Latency(tx)]
    ELSE run_onnx_gemm(man, tx)

run_gemm_transaction(man, tx) ==
    LET out == GemmOutput(man, tx)
    IN  IF \/ ~validate_manifest(man)
           \/ ~validate_transaction_domain(man, tx)
           \/ man.format = "MockEventPredictor"
        THEN Nothing
        ELSE IF out = Nothing THEN Nothing
        ELSE [ok   |-> tx.expected # Nothing =>
                           MetricsOk(man, gemm_metrics(out.c, tx.expected,
                                                       out.lat, tx.explat)),
              c    |-> out.c,
              lat  |-> out.lat,
              prov |-> Provenance(man, FALSE)]

exact_gemm_result(man, tx) ==
    IF ~validate_transaction_shape(tx) THEN Nothing
    ELSE [ok |-> TRUE, c |-> mock_gemm(tx), lat |-> Latency(tx),
          prov |-> Provenance(man, TRUE)]

LaneOf(tx, index) == IF tx.lane = Nothing THEN index ELSE tx.lane

Surrogate(man, batch, i) ==
    IF batch.schema THEN run_gemm_transaction(man, batch.txs[i]) ELSE Nothing

Passed(result) == IF result = Nothing THEN FALSE ELSE result.ok

\* run-gemm-batch: items [index, lane, ok, result], and counters by lane.
run_gemm_batch(man, batch) ==
    LET items == [i \in DOMAIN batch.txs |->
                     [index  |-> i - 1,
                      lane   |-> LaneOf(batch.txs[i], i - 1),
                      ok     |-> Passed(Surrogate(man, batch, i)),
                      result |-> Surrogate(man, batch, i)]]
    IN  [ok      |-> items # <<>> /\ \A i \in DOMAIN items : items[i].ok,
         count   |-> Len(items),
         total   |-> Cardinality(LanesUsed(items)),
         results |-> items,
         lanes   |-> [lane \in LanesUsed(items) |->
                         [count  |-> Cardinality(OnLane(items, lane)),
                          ok     |-> Cardinality({i \in OnLane(items, lane) : items[i].ok}),
                          failed |-> Cardinality({i \in OnLane(items, lane) : ~items[i].ok})]]]

-----------------------------------------------------------------------------
(* The policy.                                                             *)

PolicyItem(index, lane, decision, sur, exact, error) ==
    [index |-> index, lane |-> lane, decision |-> decision,
     ok |-> decision # "FailClosed", sur |-> sur, exact |-> exact, error |-> error]

\* Mutant: when the exact run fails too, its absence is not an error.
fallback_policy_item_lenient(index, lane, fallback, sur, exact) ==
    IF fallback = "ExactFallback"
    THEN PolicyItem(index, lane, "ExactFallback", sur,
                    IF exact = Nothing THEN sur ELSE exact, sur = Nothing)
    ELSE PolicyItem(index, lane, "FailClosed", sur, Nothing, TRUE)

fallback_policy_item(index, lane, fallback, sur, exact) ==
    IF fallback = "ExactFallback" /\ exact # Nothing
    THEN PolicyItem(index, lane, "ExactFallback", sur, exact, sur = Nothing)
    ELSE PolicyItem(index, lane, "FailClosed", sur, Nothing, TRUE)

\* Mutant: shadow mode uses a surrogate result that passed its tolerance.
policy_gemm_item_shadow_replaces(mode, fallback, index, lane, sur, exact) ==
    IF mode # "TelemetryOnly" /\ Passed(sur)
    THEN PolicyItem(index, lane, "SurrogateUsed", sur, Nothing, FALSE)
    ELSE fallback_policy_item(index, lane, fallback, sur, exact)

\* Mutant: a surrogate result is used although it missed its tolerance.
policy_gemm_item_untested(mode, fallback, index, lane, sur, exact) ==
    IF mode = "ApproximateWithTolerance" /\ sur # Nothing
    THEN PolicyItem(index, lane, "SurrogateUsed", sur, Nothing, FALSE)
    ELSE fallback_policy_item(index, lane, fallback, sur, exact)

policy_gemm_item(mode, fallback, index, lane, sur, exact) ==
    CASE mode = "ApproximateWithTolerance" /\ Passed(sur) ->
           PolicyItem(index, lane, "SurrogateUsed", sur, Nothing, FALSE)
      [] mode = "ApproximateWithTolerance" /\ ~Passed(sur) ->
           fallback_policy_item(index, lane, fallback, sur, exact)
      [] mode # "ApproximateWithTolerance" /\ exact = Nothing ->
           PolicyItem(index, lane, "FailClosed", sur, Nothing, TRUE)
      [] mode = "ShadowCompare" /\ exact # Nothing ->
           PolicyItem(index, lane, "ShadowCompare", sur, exact, FALSE)
      [] mode = "TelemetryOnly" /\ exact # Nothing ->
           PolicyItem(index, lane, "ExactFallback", sur, exact, FALSE)

GemmPolicyReport(results) ==
    LET closed == CountSeq(results, LAMBDA it : it.decision = "FailClosed")
    IN  [ok      |-> /\ results # <<>>
                     /\ closed = 0
                     /\ \A i \in DOMAIN results : results[i].ok,
         count   |-> Len(results),
         used    |-> CountSeq(results, LAMBDA it : it.decision = "SurrogateUsed"),
         exacts  |-> CountSeq(results, LAMBDA it :
                                  it.decision \in {"ExactFallback", "ShadowCompare"}),
         closed  |-> closed,
         results |-> results]

policy_gemm_batch(man, batch) ==
    GemmPolicyReport([i \in DOMAIN batch.txs |->
                         policy_gemm_item(man.mode, man.fallback, i - 1,
                                          LaneOf(batch.txs[i], i - 1),
                                          Surrogate(man, batch, i),
                                          exact_gemm_result(man, batch.txs[i]))])

-----------------------------------------------------------------------------
(* The runtime plan.                                                       *)

gemm_shadow_metrics(item) ==
    IF item.decision # "ShadowCompare" \/ item.sur = Nothing \/ item.exact = Nothing
    THEN Nothing
    ELSE gemm_metrics(item.sur.c, item.exact.c, item.sur.lat, item.exact.lat)

NoDivergence(metrics) ==
    IF metrics = Nothing THEN FALSE
    ELSE metrics.max = 0 /\ metrics.lat = 0 /\ metrics.first = Nothing

gemm_shadow_ok(item) ==
    IF item.decision # "ShadowCompare" THEN "none"
    ELSE IF NoDivergence(gemm_shadow_metrics(item)) /\ ~item.error THEN "agreed"
    ELSE "diverged"

gemm_shadow_error(item) ==
    /\ item.decision = "ShadowCompare"
    /\ \/ item.error
       \/ item.sur = Nothing
       \/ item.exact = Nothing
       \/ gemm_shadow_metrics(item).max # 0
       \/ gemm_shadow_metrics(item).lat # 0

fast_source_result_for_decision(decision) ==
    IF decision = "SurrogateUsed" THEN "Surrogate" ELSE "Exact"

ResultOf(item) == IF item.decision = "SurrogateUsed" THEN item.sur ELSE item.exact

\* runtime_plan_item returns an item, or an error.
Plannable(item, workers) ==
    /\ item.ok
    /\ item.decision # "FailClosed"
    /\ item.lane < TotalLanes(workers)
    /\ Covered(workers, item.lane)
    /\ ResultOf(item) # Nothing
    /\ ResultOf(item).prov.exact = (item.decision # "SurrogateUsed")

runtime_plan_item(item, workers) ==
    [index |-> item.index, lane |-> item.lane,
     worker |-> worker_for_lane(workers, item.lane).id,
     decision |-> item.decision,
     prov |-> ResultOf(item).prov,
     source |-> fast_source_result_for_decision(item.decision),
     shadow |-> gemm_shadow_ok(item), shadowError |-> gemm_shadow_error(item),
     shadowMetrics |-> gemm_shadow_metrics(item)]

\* Mutant: items that cannot be planned are left out without an error.
plan_runtime_gemm_for_workers_skips(pol, workers) ==
    LET kept  == InOrder({i \in DOMAIN pol.results : Plannable(pol.results[i], workers)})
        items == [k \in DOMAIN kept |-> runtime_plan_item(pol.results[kept[k]], workers)]
    IN  [schema  |-> "gemm",
         ok      |-> items # <<>> /\ workers # <<>> /\ validate_runtime_worker_specs(workers),
         total   |-> TotalLanes(workers),
         workers |-> PlanSummaries(workers, items),
         items   |-> items]

plan_runtime_gemm_for_workers(pol, workers) ==
    LET kept  == InOrder({i \in DOMAIN pol.results : Plannable(pol.results[i], workers)})
        items == [k \in DOMAIN kept |-> runtime_plan_item(pol.results[kept[k]], workers)]
    IN  [schema  |-> "gemm",
         ok      |-> /\ pol.results # <<>>
                     /\ pol.closed = 0
                     /\ workers # <<>>
                     /\ validate_runtime_worker_specs(workers)
                     /\ \A i \in DOMAIN pol.results : Plannable(pol.results[i], workers),
         total   |-> TotalLanes(workers),
         workers |-> PlanSummaries(workers, items),
         items   |-> items]

-----------------------------------------------------------------------------
(* The FAST run.                                                           *)

\* Mutant: the plan's items are only looked up, not compared.
validate_fast_gemm_plan_lookup(pol, p, opts) ==
    /\ p.ok
    /\ opts.stride # 0
    /\ \A i \in DOMAIN pol.results :
           pol.results[i].ok => HasItem(p.items, pol.results[i].index)

\* Whether a plan item is what the policy item of the same index asks for.
GemmItemsAgree(planned, it) ==
    /\ planned.lane = it.lane
    /\ planned.decision = it.decision
    /\ planned.source = fast_source_result_for_decision(it.decision)

validate_fast_gemm_plan(pol, p, opts) ==
    /\ p.schema = "gemm"
    /\ p.ok
    /\ pol.count = Len(pol.results)
    /\ opts.stride # 0
    /\ \A i, j \in DOMAIN pol.results : i # j => pol.results[i].index # pol.results[j].index
    /\ \A i, j \in DOMAIN p.items : i # j => p.items[i].index # p.items[j].index
    /\ \A i \in DOMAIN pol.results :
           LET it == pol.results[i]
           IN  /\ it.lane < p.total
               /\ it.decision # "FailClosed" =>
                      HasItem(p.items, it.index) /\ GemmItemsAgree(ItemAt(p.items, it.index), it)
    /\ \A i \in DOMAIN p.items :
           /\ HasItem(pol.results, p.items[i].index)
           /\ ItemAt(pol.results, p.items[i].index).decision # "FailClosed"

\* The shadow verdict is the plan's, everything else the fresh policy's.
fast_gemm_item(it, p, opts) ==
    LET planned == HasItem(p.items, it.index)
        item    == ItemAt(p.items, it.index)
    IN  [index    |-> it.index,
         lane     |-> it.lane,
         decision |-> it.decision,
         source   |-> IF it.decision = "FailClosed" THEN "None"
                      ELSE fast_source_result_for_decision(it.decision),
         result   |-> IF it.decision = "FailClosed" THEN Nothing ELSE ResultOf(it),
         shadow   |-> IF planned THEN item.shadow ELSE "none",
         shadowError   |-> planned /\ item.shadowError,
         shadowMetrics |-> IF planned THEN item.shadowMetrics ELSE Nothing,
         sampled  |-> ShadowSampled(it.index, opts),
         error    |-> it.error]

FastGemmReport(valid, results, p) ==
    LET totals == Tally(results, DOMAIN results)
    IN  [ok      |-> /\ valid
                     /\ totals.closed = 0
                     /\ \A i \in DOMAIN results : results[i].result # Nothing,
         total   |-> p.total,
         totals  |-> totals,
         passed  |-> CountSeq(results, LAMBDA it : it.shadow = "agreed"),
         workers |-> WorkerTallies(p.workers, results),
         lanes   |-> LaneTallies(results),
         results |-> results]

FastGemm(pol, p, opts) ==
    FastGemmReport(validate_fast_gemm_plan(pol, p, opts),
                   [i \in DOMAIN pol.results |-> fast_gemm_item(pol.results[i], p, opts)], p)

run_fast_gemm_batch_with_options(man, batch, p, opts) ==
    FastGemm(policy_gemm_batch(man, batch), p, opts)

-----------------------------------------------------------------------------

GemmInit ==
    /\ m \in GemmManifests /\ b \in Batches /\ t \in Topologies
    /\ RuntimeInit

\* A user replaces a file on disk.
GemmEdit ==
    /\ edits < MaxEdits
    /\ edits' = edits + 1
    /\ \/ m' \in GemmManifests \ {m} /\ UNCHANGED <<b, t>>
       \/ b' \in Batches \ {b} /\ UNCHANGED <<m, t>>
       \/ t' \in Topologies \ {t} /\ UNCHANGED <<m, b>>
    /\ UNCHANGED <<policy, plan, rt, att, exec, madeFor, acted>>

\* A report that is not ok is written all the same.
PolicyGemmBatch ==
    /\ policy' = [m |-> m, b |-> b, report |-> policy_gemm_batch(m, b)]
    /\ UNCHANGED <<m, b, t, plan, rt, att, exec, madeFor, acted, edits>>

Plan(workers) ==
    /\ plan' = plan_runtime_gemm_for_workers(policy.report, workers)
    /\ madeFor' = [m |-> policy.m, b |-> policy.b, workers |-> workers]
    /\ UNCHANGED <<m, b, t, policy, rt, att, exec, acted, edits>>

PlanRuntimeGemm ==
    /\ policy # Nothing
    /\ \/ Plan(ShardsOf(t))
       \/ \E workers \in SpecLists : Plan(workers)
       \/ \E n \in {0, 2} : Plan(OneWorker(n))

\* Mutant: the old attachment is dropped before the new plan is checked.
AttachSurrogatePlan_drops ==
    /\ plan # Nothing /\ rt # <<>>
    /\ IF gemm_plan_attaches(ShardsOf(rt), plan)
       THEN Attached(attach_gemm_runtime_plan_to_shard_infos(ShardsOf(rt), plan))
       ELSE att' = {} /\ UNCHANGED <<m, t, policy, plan, rt, exec, madeFor, acted, edits>>
    /\ UNCHANGED b

\* DistributedRuntime::attach_surrogate_plan; an error leaves the old one.
AttachSurrogatePlan ==
    /\ plan # Nothing /\ rt # <<>>
    /\ IF gemm_plan_attaches(ShardsOf(rt), plan)
       THEN Attached(attach_gemm_runtime_plan_to_shard_infos(ShardsOf(rt), plan))
       ELSE UNCHANGED runtimeVars
    /\ UNCHANGED b

GemmNext ==
    \/ GemmEdit
    \/ PolicyGemmBatch
    \/ PlanRuntimeGemm
    \/ AttachSurrogatePlan
    \/ RuntimeNext /\ UNCHANGED b

-----------------------------------------------------------------------------
\* The FAST runs of the files on disk, one for every choice of options.
FastRuns == {run_fast_gemm_batch_with_options(m, b, plan, opts) : opts \in Samplings}

\* What replaces RTL results is marked approximate and what confirms them
\* exact, in the FAST report as in the attachment, even though
\* attach_gemm_runtime_plan_to_shard_infos never looks.
ProvenanceFollowsSource ==
    plan # Nothing =>
        \A fast \in FastRuns : \A i \in DOMAIN fast.results :
            LET it == fast.results[i]
            IN  /\ (it.source = "None") = (it.decision = "FailClosed")
                /\ it.source # "None" =>
                       /\ it.result # Nothing
                       /\ it.result.prov.exact = (it.source = "Exact")

\* docs/surrogate.md: shadow plans `attach as exact fallbacks and do not
\* replace RTL state', and neither does a telemetry-only manifest.
ShadowNeverReplaces ==
    plan # Nothing =>
        /\ m.mode # "ApproximateWithTolerance" =>
               \A fast \in FastRuns : fast.totals.replaced = 0
        /\ madeFor.m.mode # "ApproximateWithTolerance" =>
               \A i \in DOMAIN plan.items : plan.items[i].source = "Exact"

\* A surrogate result replaces an exact one only for a transaction in the
\* trained domain, within tolerance of a given reference, by the artifact
\* the manifest names.
ReplacedOnlyWithinDomain ==
    plan # Nothing =>
        \A fast \in FastRuns : \A i \in DOMAIN fast.results :
            fast.results[i].source = "Surrogate" =>
                LET tx == b.txs[i]
                IN  /\ m.artifact = "match"
                    /\ tx.k \in m.kmin..m.kmax
                    /\ tx.expected # Nothing =>
                           \A r \in 1..tx.rows : \A c \in 1..tx.cols :
                               Abs(fast.results[i].result.c[r][c]
                                   - Expected(tx.expected, r, c)) <= m.maxErr

\* An item without a trustworthy result stops the whole batch: no plan that
\* is ok leaves it out, and no FAST run with one is ok.
FailClosedStopsTheBatch ==
    plan # Nothing =>
        /\ plan.ok => /\ Len(plan.items) = Len(madeFor.b.txs)
                      /\ \A i \in DOMAIN plan.items : plan.items[i].index = i - 1
        /\ \A fast \in FastRuns :
               fast.ok => fast.totals.closed = 0 /\ fast.totals.items = Len(plan.items)

\* Every item of an ok FAST report belongs to one worker: the workers' and
\* the lanes' counters each add up to the totals.
CountersAddUp ==
    plan # Nothing => \A fast \in FastRuns : fast.ok => TalliesAddUp(fast)

\* A plan that is ok is accepted by the FAST run of the batch and manifest
\* it was made from, and attaches to every topology with its workers.
OwnPlanAccepted ==
    plan # Nothing /\ plan.ok =>
        /\ madeFor.m = m /\ madeFor.b = b =>
               \A opts \in Samplings : opts.stride # 0 =>
                   run_fast_gemm_batch_with_options(m, b, plan, opts).ok
        /\ \A topology \in Topologies :
               ShardsOf(topology) = madeFor.workers =>
                   gemm_plan_attaches(ShardsOf(topology), plan)

\* A plan made for another batch or manifest is accepted only if it covers
\* the same lanes with the same decisions.
StalePlanSameContract ==
    plan # Nothing =>
        \A fast \in FastRuns : fast.ok =>
            /\ Len(plan.items) = Len(fast.results)
            /\ \A i \in DOMAIN fast.results :
                   /\ plan.items[i].lane = fast.results[i].lane
                   /\ plan.items[i].source = fast.results[i].source

\* run-gemm-batch and the policy agree: under the approximate policy the
\* surrogate replaces exactly the items the batch run reports ok.
BatchRunAgreesWithPolicy ==
    policy # Nothing =>
        LET run == run_gemm_batch(policy.m, policy.b)
        IN  policy.m.mode = "ApproximateWithTolerance" =>
                /\ \A lane \in DOMAIN run.lanes :
                       /\ run.lanes[lane].ok =
                              Cardinality({i \in DOMAIN policy.report.results :
                                  /\ policy.report.results[i].lane = lane
                                  /\ policy.report.results[i].decision = "SurrogateUsed"})
                       /\ run.lanes[lane].ok + run.lanes[lane].failed = run.lanes[lane].count
                /\ CountSeq(run.results, LAMBDA it : it.ok) = policy.report.used
                /\ CountSeq(run.results, LAMBDA it : ~it.ok)
                       = policy.report.exacts + policy.report.closed
                /\ run.ok => policy.report.ok

GemmPolicySafe ==
    ProvenanceFollowsSource /\ ShadowNeverReplaces /\ ReplacedOnlyWithinDomain
        /\ FailClosedStopsTheBatch

GemmPlansHonoured == OwnPlanAccepted /\ StalePlanSameContract /\ AttachedOnOwnedLanes

GemmReportsExact == CountersAddUp /\ ExecutionDescribesAttachment /\ BatchRunAgreesWithPolicy

=============================================================================
