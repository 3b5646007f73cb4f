--------------------------- MODULE SurrogateEvents ---------------------------
(***************************************************************************)
(* Event-predictor surrogates: an instrumentation trace and an emitter     *)
(* config become a corpus of labelled windows; validate-events,            *)
(* shadow-events, policy-events, plan-runtime-events and run-fast-events   *)
(* judge a predictor on it, and a runtime runs with the plan attached.     *)
(* Traces, configs, manifests, corpora and topologies are files that may   *)
(* be replaced between any two commands.  A FAST run only reads files: it  *)
(* is an operator, and what it must honour is stated of the run the files  *)
(* on disk would give now.                                                 *)
(*                                                                         *)
(* A trace is [schema, top, hash, steps], a step [cycle, lane, signals,    *)
(* program, labels], the last three functions from field names to          *)
(* integers; a mapping is [name, const, src, field]; an event is [schema,  *)
(* sample, lane, target, window, horizon, program, signals, label], a      *)
(* corpus [schema, hash, top, events].  A schema is whether it is the one  *)
(* supported.  Features stay far within an i64, so their sums are sums.    *)
(***************************************************************************)
EXTENDS SurrogateRuntime

CONSTANTS
    Traces, Configs,   \* the traces and emitter configs a user may write
    Corpora,           \* corpora written by other tools
    Workspaces,        \* the trace, config and corpus a user may start with
    EventManifests,    \* the manifests a user may write
    EventSamplings,    \* FAST options [stride, offset]
    OnnxEvent(_, _)    \* external: what a session on this model predicts

Fields(f) == f \in [DOMAIN f -> Int]

\* What the Rust types say: cycles and lanes are usize, features i64.
ASSUME EventTypes ==
    /\ \A trace \in Traces :
           /\ trace.steps \in Seq(ToSet(trace.steps))
           /\ \A i \in DOMAIN trace.steps :
                  LET step == trace.steps[i]
                  IN  /\ step.cycle \in Nat /\ step.lane \in Nat \cup {Nothing}
                      /\ Fields(step.signals) /\ Fields(step.program) /\ Fields(step.labels)
    /\ \A config \in Configs :
           /\ config.window \in Nat /\ config.horizon \in Nat
           /\ config.signals \in Seq(ToSet(config.signals))
           /\ config.program \in Seq(ToSet(config.program))
           /\ \A map \in ToSet(config.signals) \cup ToSet(config.program)
                         \cup {config.label} \cup ({config.lane} \ {Nothing}) :
                  /\ map.const \in Int \cup {Nothing}
                  /\ map.src \in {"inputs", "outputs", Nothing}
    /\ \A man \in EventManifests : man.mode \in Modes /\ man.fallback \in Fallbacks
    /\ \A c \in Corpora :
           /\ c.events \in Seq(ToSet(c.events))
           /\ \A i \in DOMAIN c.events : c.events[i].lane \in Nat \cup {Nothing}
    /\ Workspaces \subseteq [tr : Traces, cf : Configs, corpus : Corpora \cup {Nothing}]

VARIABLES
    tr, cf,    \* the trace and the emitter config on disk
    corpus     \* the event corpus on disk

eventVars == <<runtimeVars, tr, cf, corpus>>

-----------------------------------------------------------------------------
(* Emission.                                                               *)

\* What is inserted later wins.
Over(later, fields) ==
    [name \in DOMAIN later \cup DOMAIN fields |->
        IF name \in DOMAIN later THEN later[name] ELSE fields[name]]

\* The fields both maps of a normalized step begin with.
Seen(step) ==
    Over(step.signals, Over(IF step.lane = Nothing THEN <<>> ELSE [name \in {"lane"} |-> step.lane],
                            [name \in {"cycle"} |-> step.cycle]))

normalize_rrtl_instrumentation_trace(trace) ==
    [i \in DOMAIN trace.steps |->
        [inputs  |-> Over(trace.steps[i].program, Seen(trace.steps[i])),
         outputs |-> Over(trace.steps[i].labels, Seen(trace.steps[i]))]]

validate_event_feature_mapping(map) ==
    /\ map.name # ""
    /\ \/ map.const # Nothing /\ map.src = Nothing /\ map.field = Nothing
       \/ map.const = Nothing /\ map.src # Nothing /\ map.field \notin {Nothing, ""}

Mappings(config) ==
    ToSet(config.signals) \cup ToSet(config.program) \cup {config.label}
        \cup (IF config.lane = Nothing THEN {} ELSE {config.lane})

\* `schema' also stands for the optional input schema.
validate_event_emitter_config(config) ==
    /\ config.schema
    /\ config.top # "" /\ config.hash # "" /\ config.target # ""
    /\ config.window # 0 /\ config.horizon # 0
    /\ config.signals # <<>>
    /\ \A map \in Mappings(config) : validate_event_feature_mapping(map)

\* collect_missing_instrumentation_mapping
Missing(step, map) ==
    /\ map.const = Nothing
    /\ map.src # Nothing /\ map.field # Nothing
    /\ map.field \notin DOMAIN step[map.src]

resolve_feature(step, map) ==
    IF map.const # Nothing THEN map.const ELSE step[map.src][map.field]

\* A mapping of each feature's name; a repeated name keeps its last value.
FeatureMap(step, maps) ==
    [name \in {maps[i].name : i \in DOMAIN maps} |->
        resolve_feature(step, maps[Max({i \in DOMAIN maps : maps[i].name = name})])]

Samples(steps, config) ==
    LET need == config.window + config.horizon
    IN  IF Len(steps) < need THEN 0 ELSE Len(steps) - need + 1

\* Mutant: the label is read from the last step of the window.
LabelStep_leaks(sample, config) == sample + config.window

\* Steps are numbered from one, samples from zero.
LabelStep(sample, config) == sample + config.window + config.horizon

\* Whether the steps of a sample lack a field it needs.
SampleMissing(steps, config, sample) ==
    \/ \E k \in (sample + 1)..(sample + config.window) : \E i \in DOMAIN config.signals :
           Missing(steps[k], config.signals[i])
    \/ \E i \in DOMAIN config.program : Missing(steps[sample + 1], config.program[i])
    \/ config.lane # Nothing /\ Missing(steps[sample + 1], config.lane)
    \/ Missing(steps[LabelStep(sample, config)], config.label)

resolve_lane(step, config) ==
    IF config.lane = Nothing THEN Nothing ELSE resolve_feature(step, config.lane)

\* A lane must fit a usize.
LaneFits(step, config) == config.lane # Nothing => resolve_lane(step, config) >= 0

\* A set of at most one corpus, empty on an error.
emit_event_corpus(steps, config) ==
    IF \/ ~validate_event_emitter_config(config)
       \/ \E sample \in 0..(Samples(steps, config) - 1) :
              SampleMissing(steps, config, sample) \/ ~LaneFits(steps[sample + 1], config)
    THEN {}
    ELSE {[schema |-> TRUE, hash |-> config.hash, top |-> config.top,
           events |-> [i \in 1..Samples(steps, config) |->
              [schema  |-> TRUE,
               sample  |-> i - 1,
               lane    |-> resolve_lane(steps[i], config),
               target  |-> config.target,
               window  |-> config.window,
               horizon |-> config.horizon,
               program |-> FeatureMap(steps[i], config.program),
               signals |-> [o \in 1..config.window |->
                               FeatureMap(steps[i + o - 1], config.signals)],
               label   |-> FeatureMap(steps[LabelStep(i - 1, config)], <<config.label>>)]]]}

emit_instrumented_event_corpus(trace, config) ==
    IF trace.schema
    THEN emit_event_corpus(normalize_rrtl_instrumentation_trace(trace), config)
    ELSE {}

\* Mutant: only the first sample's fields are looked up.
inspect_rrtl_instrumentation_trace_compatibility_first(trace, config) ==
    LET steps == normalize_rrtl_instrumentation_trace(trace)
        count == IF config.window + config.horizon = 0 THEN 0 ELSE Samples(steps, config)
    IN  [samples |-> count,
         ok |-> /\ validate_event_emitter_config(config)
                /\ count # 0
                /\ ~SampleMissing(steps, config, 0)]

inspect_rrtl_instrumentation_trace_compatibility(trace, config) ==
    LET steps == normalize_rrtl_instrumentation_trace(trace)
        count == IF config.window + config.horizon = 0 THEN 0 ELSE Samples(steps, config)
    IN  [samples |-> count,
         ok |-> /\ validate_event_emitter_config(config)
                /\ count # 0
                /\ \A sample \in 0..(count - 1) : ~SampleMissing(steps, config, sample)]

inspect_rrtl_instrumentation_trace(trace, config) ==
    LET fit == inspect_rrtl_instrumentation_trace_compatibility(trace, config)
    IN  [ok      |-> /\ trace.schema /\ trace.top # "" /\ trace.hash # ""
                     /\ trace.steps # <<>>
                     /\ fit.ok,
         samples |-> fit.samples]

inspect_event_corpus(c) ==
    [ok |-> /\ c.schema /\ c.top # "" /\ c.hash # "" /\ c.events # <<>>
            /\ \A i \in DOMAIN c.events :
                   LET e == c.events[i]
                   IN  /\ e.window = c.events[1].window /\ e.horizon = c.events[1].horizon
                       /\ e.schema /\ e.target # "" /\ Len(e.signals) = e.window
                       /\ DOMAIN e.label # {}
                       /\ \A name \in DOMAIN e.label : e.label[name] \in {0, 1},
     positive |-> [name \in UNION {DOMAIN c.events[i].label : i \in DOMAIN c.events} |->
                      CountSeq(c.events, LAMBDA e : name \in DOMAIN e.label
                                                    /\ e.label[name] = 1)]]

-----------------------------------------------------------------------------
(* Predictors.  A manifest's `rule' is the mock artifact's rule, Nothing   *)
(* when the artifact does not parse as one; `model' stands for an ONNX     *)
(* artifact.                                                               *)

Get(f, name) == IF name \in DOMAIN f THEN f[name] ELSE 0

Values(e, name) == [i \in DOMAIN e.signals |-> Get(e.signals[i], name)]

\* .max().unwrap_or(0), and the same of the minimum
MaxOrZero(values) == IF values = <<>> THEN 0 ELSE Max(ToSet(values))

MinOrZero(values) == IF values = <<>> THEN 0 ELSE Min(ToSet(values))

Reductions == {"sum", "max", "min", "last", "unique_count"}

Comparisons == {">=", ">", "<=", "<", "==", "=", "!="}

\* mock_event_rule_value is an error for any other source or reduction.
RuleSourceKnown(x) == x.source = "program" \/ (x.source = "signal" /\ x.reduction \in Reductions)

mock_event_rule_value(x, e) ==
    LET values == Values(e, x.feature)
    IN  CASE x.source = "program" -> Get(e.program, x.feature)
          [] x.source # "program" /\ x.reduction = "sum" -> SumOf(values)
          [] x.source # "program" /\ x.reduction = "max" -> MaxOrZero(values)
          [] x.source # "program" /\ x.reduction = "min" -> MinOrZero(values)
          [] x.source # "program" /\ x.reduction = "last" ->
                 IF values = <<>> THEN 0 ELSE Last(values)
          [] x.source # "program" /\ x.reduction = "unique_count" -> Cardinality(ToSet(values))

compare_mock_rule_value(actual, op, expected) ==
    CASE op = ">=" -> actual >= expected
      [] op = ">"  -> actual > expected
      [] op = "<=" -> actual <= expected
      [] op = "<"  -> actual < expected
      [] op \in {"==", "="} -> actual = expected
      [] op = "!=" -> actual # expected

RuleHolds(x, e) == compare_mock_rule_value(mock_event_rule_value(x, e), x.op, x.value)

evaluate_mock_event_rule(rule, e) ==
    IF \/ rule.kind # "linear_threshold"
       \/ \E x \in ToSet(rule.terms) \cup ToSet(rule.bonuses) : ~RuleSourceKnown(x)
       \/ \E x \in ToSet(rule.bonuses) : x.op \notin Comparisons
    THEN Nothing
    ELSE LET weighed == [i \in DOMAIN rule.terms |->
                            mock_event_rule_value(rule.terms[i], e) * rule.terms[i].weight]
             extra   == [i \in DOMAIN rule.bonuses |->
                            IF RuleHolds(rule.bonuses[i], e) THEN rule.bonuses[i].bonus ELSE 0]
         IN  IF SumOf(weighed) + SumOf(extra) >= rule.threshold THEN 1 ELSE 0

mock_cache_miss_event(e) ==
    LET sets == {e.signals[i]["cache_set"] :
                     i \in {j \in DOMAIN e.signals : "cache_set" \in DOMAIN e.signals[j]}}
        pressure == SumOf(Values(e, "load")) * 2 + SumOf(Values(e, "tag_delta")) * 3
                    + MaxOrZero(Values(e, "pending_misses")) + Cardinality(sets)
                    + (IF Get(e.program, "working_set_log2") >= 14 THEN 4 ELSE 0)
                    + (IF Get(e.program, "stride") >= 64 THEN 3 ELSE 0)
    IN  IF pressure >= 14 THEN 1 ELSE 0

mock_stall_event(e) ==
    LET stores == SumOf(Values(e, "store"))
        mixed  == IF stores > 0 /\ SumOf(Values(e, "load")) > 0 THEN 2 ELSE 0
        pressure == MaxOrZero(Values(e, "pending_misses")) * 2
                    + MaxOrZero(Values(e, "store_buffer_occupancy")) + stores + mixed
    IN  IF pressure >= 12 THEN 1 ELSE 0

mock_event_prediction(man, e) ==
    CASE man.rule # Nothing -> evaluate_mock_event_rule(man.rule, e)
      [] man.rule = Nothing /\ man.task.target = "cache_miss" -> mock_cache_miss_event(e)
      [] man.rule = Nothing /\ man.task.target = "stall_event" -> mock_stall_event(e)
      [] OTHER -> Nothing

\* An error of the session, or a result that does not round to a bit.
run_onnx_event_predictor(man, e) ==
    IF OnnxEvent(man.model, e) \in {0, 1} THEN OnnxEvent(man.model, e) ELSE Nothing

event_prediction(man, e) ==
    IF man.format = "MockEventPredictor" THEN mock_event_prediction(man, e)
    ELSE run_onnx_event_predictor(man, e)

\* One failed prediction fails the corpus.
event_predictions(man, c) ==
    LET guess == [i \in DOMAIN c.events |-> event_prediction(man, c.events[i])]
    IN  IF \E i \in DOMAIN guess : guess[i] = Nothing THEN Nothing
        ELSE [i \in DOMAIN guess |->
                 [sample    |-> c.events[i].sample,
                  lane      |-> IF c.events[i].lane = Nothing THEN 0 ELSE c.events[i].lane,
                  expected  |-> c.events[i].label[man.task.label],
                  predicted |-> guess[i]]]

\* A manifest's `exports' is whether its export schema is that of corpora.
validate_event_corpus_shape(man, c) ==
    /\ man.class = "EventPredictor"
    /\ man.format \in {"MockEventPredictor", "Onnx"}
    /\ c.schema /\ man.exports
    /\ c.hash = man.hash /\ c.top = man.top
    /\ c.events # <<>>
    /\ man.task # Nothing
    /\ \A i \in DOMAIN c.events :
           LET e == c.events[i]
           IN  /\ e.schema /\ e.target = man.task.target
               /\ e.window = man.task.window /\ e.horizon = man.task.horizon
               /\ Len(e.signals) = man.task.window
               /\ man.task.program \subseteq DOMAIN e.program
               /\ \A k \in DOMAIN e.signals : man.task.signals \subseteq DOMAIN e.signals[k]
               /\ man.task.label \in DOMAIN e.label
               /\ e.label[man.task.label] \in {0, 1}

\* Predictions of a corpus a manifest may be judged on, or Nothing.
Predictions(man, c) ==
    IF validate_manifest(man) /\ validate_event_corpus_shape(man, c)
    THEN event_predictions(man, c) ELSE Nothing

OrEmpty(preds) == IF preds = Nothing THEN <<>> ELSE preds

Right(preds) == {i \in DOMAIN preds : preds[i].predicted = preds[i].expected}

\* Mutant: record_event_mismatch counts every mismatch as a false positive.
Metrics_one_sided(preds, S) ==
    [samples |-> Cardinality(S),
     correct |-> Cardinality(S \cap Right(preds)),
     fp      |-> Cardinality(S \ Right(preds)),
     fn      |-> Cardinality({i \in S : preds[i].predicted = 0 /\ preds[i].expected = 1})]

\* The metrics of the predictions with an index in S.
Metrics(preds, S) ==
    [samples |-> Cardinality(S),
     correct |-> Cardinality(S \cap Right(preds)),
     fp      |-> Cardinality({i \in S : preds[i].predicted = 1 /\ preds[i].expected = 0}),
     fn      |-> Cardinality({i \in S : preds[i].predicted = 0 /\ preds[i].expected = 1})]

FirstMismatch(preds) ==
    IF DOMAIN preds \subseteq Right(preds) THEN Nothing
    ELSE preds[Least(DOMAIN preds \ Right(preds))].sample

ValidationReport(preds, all) ==
    [ok      |-> preds # Nothing /\ DOMAIN all \subseteq Right(all),
     metrics |-> Metrics(all, DOMAIN all),
     first   |-> FirstMismatch(all)]

validate_event_corpus(man, c) ==
    LET preds == Predictions(man, c) IN ValidationReport(preds, OrEmpty(preds))

ShadowReport(preds, all) ==
    [ok      |-> preds # Nothing /\ DOMAIN all \subseteq Right(all),
     total   |-> Cardinality(LanesUsed(all)),
     metrics |-> Metrics(all, DOMAIN all),
     lanes   |-> [lane \in LanesUsed(all) |-> Metrics(all, OnLane(all, lane))],
     first   |-> FirstMismatch(all),
     results |-> [i \in DOMAIN all |-> [p |-> all[i], ok |-> i \in Right(all)]]]

shadow_event_corpus(man, c) ==
    LET preds == Predictions(man, c) IN ShadowReport(preds, OrEmpty(preds))

-----------------------------------------------------------------------------
(* The policy.                                                             *)

EventItem(man, index, e, p, decision) ==
    [index |-> index, sample |-> e.sample, lane |-> p.lane, target |-> e.target,
     decision |-> decision, ok |-> decision # "FailClosed",
     predicted |-> p.predicted, expected |-> p.expected,
     prov |-> Provenance(man, decision \in {"ShadowCompare", "ExactFallback"})]

\* Mutant: shadow mode uses a prediction that agrees with its label.
policy_event_item_shadow_replaces(man, index, e, p) ==
    IF man.mode # "TelemetryOnly" /\ p.expected = p.predicted
    THEN EventItem(man, index, e, p, "SurrogateUsed")
    ELSE EventItem(man, index, e, p, "ExactFallback")

policy_event_item(man, index, e, p) ==
    CASE man.mode = "ShadowCompare" -> EventItem(man, index, e, p, "ShadowCompare")
      [] man.mode = "TelemetryOnly" -> EventItem(man, index, e, p, "ExactFallback")
      [] man.mode = "ApproximateWithTolerance" /\ p.expected = p.predicted ->
             EventItem(man, index, e, p, "SurrogateUsed")
      [] man.mode = "ApproximateWithTolerance" /\ p.expected # p.predicted ->
             EventItem(man, index, e, p, man.fallback)

EventPolicyReport(results, valid) ==
    LET closed == CountSeq(results, LAMBDA it : it.decision = "FailClosed")
    IN  [ok      |-> valid /\ closed = 0,
         count   |-> Len(results),
         used    |-> CountSeq(results, LAMBDA it : it.decision = "SurrogateUsed"),
         exacts  |-> CountSeq(results, LAMBDA it :
                                  it.decision \in {"ExactFallback", "ShadowCompare"}),
         closed  |-> closed,
         results |-> results]

policy_event_corpus(man, c) ==
    LET preds == Predictions(man, c)
    IN  EventPolicyReport([i \in DOMAIN OrEmpty(preds) |->
                              policy_event_item(man, i - 1, c.events[i], preds[i])],
                          preds # Nothing)

-----------------------------------------------------------------------------
(* The runtime plan.                                                       *)

fast_source_result_for_event_decision(decision) ==
    IF decision = "SurrogateUsed" THEN "Surrogate" ELSE "Exact"

\* runtime_event_plan_item returns an item, or an error.
EventPlannable(item, workers) ==
    /\ item.ok
    /\ item.decision # "FailClosed"
    /\ item.lane < TotalLanes(workers)
    /\ Covered(workers, item.lane)
    /\ item.prov.exact = (item.decision # "SurrogateUsed")

runtime_event_plan_item(item, workers) ==
    [index |-> item.index, sample |-> item.sample, lane |-> item.lane, target |-> item.target,
     worker |-> worker_for_lane(workers, item.lane).id,
     decision |-> item.decision, prov |-> item.prov,
     source |-> fast_source_result_for_event_decision(item.decision),
     predicted |-> item.predicted, expected |-> item.expected,
     shadow |-> IF item.decision # "ShadowCompare" THEN "none"
                ELSE IF item.expected = item.predicted THEN "agreed" ELSE "diverged"]

\* Mutant: items that cannot be planned are left out without an error.
plan_runtime_events_for_workers_skips(pol, workers) ==
    LET kept  == InOrder({i \in DOMAIN pol.results : EventPlannable(pol.results[i], workers)})
        items == [k \in DOMAIN kept |-> runtime_event_plan_item(pol.results[kept[k]], workers)]
    IN  [schema  |-> "event",
         ok      |-> items # <<>> /\ workers # <<>> /\ validate_runtime_worker_specs(workers),
         total   |-> TotalLanes(workers),
         workers |-> PlanSummaries(workers, items),
         items   |-> items]

plan_runtime_events_for_workers(pol, workers) ==
    LET kept  == InOrder({i \in DOMAIN pol.results : EventPlannable(pol.results[i], workers)})
        items == [k \in DOMAIN kept |-> runtime_event_plan_item(pol.results[kept[k]], workers)]
    IN  [schema  |-> "event",
         ok      |-> /\ pol.results # <<>>
                     /\ pol.closed = 0
                     /\ workers # <<>>
                     /\ validate_runtime_worker_specs(workers)
                     /\ \A i \in DOMAIN pol.results : EventPlannable(pol.results[i], workers),
         total   |-> TotalLanes(workers),
         workers |-> PlanSummaries(workers, items),
         items   |-> items]

-----------------------------------------------------------------------------
(* The FAST run.                                                           *)

\* Mutant: as on the GEMM side, predictions and labels are not compared.
EventItemsAgree_decisions(planned, it) ==
    /\ planned.lane = it.lane
    /\ planned.decision = it.decision
    /\ planned.source = fast_source_result_for_event_decision(it.decision)

\* Whether a plan item is what the policy item of the same index asks for.
EventItemsAgree(planned, it) ==
    /\ planned.sample = it.sample
    /\ planned.lane = it.lane
    /\ planned.decision = it.decision
    /\ planned.source = fast_source_result_for_event_decision(it.decision)
    /\ planned.predicted = it.predicted
    /\ planned.expected = it.expected

validate_fast_event_plan(pol, p, opts) ==
    /\ p.schema = "event"
    /\ p.ok
    /\ pol.count = Len(pol.results)
    /\ opts.stride # 0
    /\ \A i, j \in DOMAIN pol.results : i # j => pol.results[i].index # pol.results[j].index
    /\ \A i, j \in DOMAIN p.items : i # j => p.items[i].index # p.items[j].index
    /\ \A i \in DOMAIN pol.results :
           LET it == pol.results[i]
           IN  /\ it.lane < p.total
               /\ it.decision # "FailClosed" =>
                      HasItem(p.items, it.index) /\ EventItemsAgree(ItemAt(p.items, it.index), it)
    /\ \A i \in DOMAIN p.items :
           /\ HasItem(pol.results, p.items[i].index)
           /\ ItemAt(pol.results, p.items[i].index).decision # "FailClosed"

\* The shadow verdict is the plan's, everything else the fresh policy's.
fast_event_item(it, p, opts) ==
    [index     |-> it.index, sample |-> it.sample, lane |-> it.lane, target |-> it.target,
     decision  |-> it.decision,
     source    |-> IF it.decision = "FailClosed" THEN "None"
                   ELSE fast_source_result_for_event_decision(it.decision),
     predicted |-> it.predicted, expected |-> it.expected, prov |-> it.prov,
     shadow    |-> IF HasItem(p.items, it.index) THEN ItemAt(p.items, it.index).shadow
                   ELSE "none",
     sampled   |-> ShadowSampled(it.index, opts)]

FastEventReport(valid, results, p) ==
    LET totals == Tally(results, DOMAIN results)
    IN  [ok      |-> valid /\ totals.closed = 0,
         total   |-> p.total,
         totals  |-> totals,
         passed  |-> CountSeq(results, LAMBDA it : it.shadow = "agreed"),
         workers |-> WorkerTallies(p.workers, results),
         lanes   |-> LaneTallies(results),
         results |-> results]

FastEvents(pol, p, opts) ==
    FastEventReport(validate_fast_event_plan(pol, p, opts),
                    [i \in DOMAIN pol.results |-> fast_event_item(pol.results[i], p, opts)], p)

run_fast_event_corpus_with_options(man, c, p, opts) ==
    FastEvents(policy_event_corpus(man, c), p, opts)

-----------------------------------------------------------------------------

EventInit ==
    /\ m \in EventManifests /\ t \in Topologies
    /\ \E w \in Workspaces : tr = w.tr /\ cf = w.cf /\ corpus = w.corpus
    /\ RuntimeInit

\* A user replaces a file on disk.
EventEdit ==
    /\ edits < MaxEdits
    /\ edits' = edits + 1
    /\ \/ tr' \in Traces \ {tr} /\ UNCHANGED <<cf, m, t, corpus>>
       \/ cf' \in Configs \ {cf} /\ UNCHANGED <<tr, m, t, corpus>>
       \/ m' \in EventManifests \ {m} /\ UNCHANGED <<tr, cf, t, corpus>>
       \/ t' \in Topologies \ {t} /\ UNCHANGED <<tr, cf, m, corpus>>
       \/ corpus' \in Corpora \ {corpus} /\ UNCHANGED <<tr, cf, m, t>>
    /\ UNCHANGED <<policy, plan, rt, att, exec, madeFor, acted>>

\* emit-instrumented: an error leaves the file alone.
EmitInstrumented ==
    /\ \E new \in emit_instrumented_event_corpus(tr, cf) : corpus' = new
    /\ UNCHANGED <<runtimeVars, tr, cf>>

\* A report that is not ok is written all the same.
PolicyEvents ==
    /\ corpus # Nothing
    /\ policy' = [m |-> m, corpus |-> corpus, report |-> policy_event_corpus(m, corpus)]
    /\ UNCHANGED <<m, t, plan, rt, att, exec, madeFor, acted, edits, tr, cf, corpus>>

EventPlan(workers) ==
    /\ plan' = plan_runtime_events_for_workers(policy.report, workers)
    /\ madeFor' = [m |-> policy.m, corpus |-> policy.corpus, workers |-> workers]
    /\ UNCHANGED <<m, t, policy, rt, att, exec, acted, edits, tr, cf, corpus>>

PlanRuntimeEvents ==
    /\ policy # Nothing
    /\ \/ EventPlan(ShardsOf(t))
       \/ \E workers \in SpecLists : EventPlan(workers)
       \/ \E n \in {0, 2} : EventPlan(OneWorker(n))

\* Mutant: the execution report waits for the first action.
AttachEventSurrogatePlan_silent ==
    /\ plan # Nothing /\ rt # <<>>
    /\ event_plan_attaches(ShardsOf(rt), plan)
    /\ att' = {attach_event_runtime_plan_to_shard_infos(ShardsOf(rt), plan)}
    /\ acted' = 0
    /\ UNCHANGED <<m, t, policy, plan, rt, exec, madeFor, edits, tr, cf, corpus>>

\* DistributedRuntime::attach_event_surrogate_plan; an error leaves the old one.
AttachEventSurrogatePlan ==
    /\ plan # Nothing /\ rt # <<>>
    /\ IF event_plan_attaches(ShardsOf(rt), plan)
       THEN Attached(attach_event_runtime_plan_to_shard_infos(ShardsOf(rt), plan))
       ELSE UNCHANGED runtimeVars
    /\ UNCHANGED <<tr, cf, corpus>>

EventNext ==
    \/ EventEdit
    \/ EmitInstrumented
    \/ PolicyEvents
    \/ PlanRuntimeEvents
    \/ AttachEventSurrogatePlan
    \/ RuntimeNext /\ UNCHANGED <<tr, cf, corpus>>

-----------------------------------------------------------------------------
\* The FAST runs of the files on disk, one for every choice of options.
FastEventRuns ==
    IF corpus = Nothing THEN {}
    ELSE {run_fast_event_corpus_with_options(m, corpus, plan, opts) : opts \in EventSamplings}

\* inspect-instrumentation tells what emit-instrumented will do: a trace it
\* finds compatible yields the samples it announces, except that only
\* emission refuses a negative lane; and a corpus that can be emitted with
\* samples comes from a trace that inspects well.
InspectionPredictsEmission ==
    LET report == inspect_rrtl_instrumentation_trace(tr, cf)
        steps  == normalize_rrtl_instrumentation_trace(tr)
    IN  /\ report.ok /\ (\A i \in 1..report.samples : LaneFits(steps[i], cf)) =>
               \E new \in emit_instrumented_event_corpus(tr, cf) :
                   Len(new.events) = report.samples /\ report.samples > 0
        /\ tr.top # "" /\ tr.hash # "" =>
               \A new \in emit_instrumented_event_corpus(tr, cf) :
                   report.ok = (new.events # <<>>)

\* A label never comes from the window it is predicted from, every step
\* that can be a label is one once, and consecutive windows slide by one.
SamplesSlideOverTheTrace ==
    LET steps == normalize_rrtl_instrumentation_trace(tr)
    IN  \A new \in emit_instrumented_event_corpus(tr, cf) :
            /\ \A i \in DOMAIN new.events :
                   new.events[i].label[cf.label.name] =
                       resolve_feature(steps[Len(steps) - (Len(new.events) - i)], cf.label)
            /\ \A i \in 1..(Len(new.events) - 1) :
                   Tail(new.events[i].signals) = Front(new.events[i + 1].signals)

\* Three commands judge a predictor on a corpus and agree: validation and
\* shadow give the same verdict and metrics, the lanes' metrics add up to
\* the totals, and the policy replaces exactly what the shadow run found
\* right.
ReportsAgree ==
    corpus # Nothing =>
        LET valid  == validate_event_corpus(m, corpus)
            shadow == shadow_event_corpus(m, corpus)
            pol    == policy_event_corpus(m, corpus)
        IN  /\ valid.ok = shadow.ok /\ valid.metrics = shadow.metrics
            /\ valid.first = shadow.first
            /\ \A f \in {"samples", "correct", "fp", "fn"} :
                   SumOverLanes(shadow.lanes, f) = shadow.metrics[f]
            /\ valid.metrics.correct + valid.metrics.fp + valid.metrics.fn = pol.count
            /\ m.mode = "ApproximateWithTolerance" => pol.used = shadow.metrics.correct
            /\ valid.ok => pol.ok /\ pol.closed = 0

\* An event is replaced only when its label agreed, on a corpus of the
\* source, target and window the manifest was trained for.
ReplacedOnlyWhenRight ==
    plan # Nothing =>
        \A fast \in FastEventRuns : \A i \in DOMAIN fast.results :
            /\ fast.results[i].source = "Surrogate" =>
                   /\ fast.results[i].predicted = corpus.events[i].label[m.task.label]
                   /\ m.mode = "ApproximateWithTolerance"
                   /\ m.artifact = "match"
                   /\ corpus.hash = m.hash
                   /\ corpus.events[i].window = m.task.window
            /\ fast.results[i].source # "None" =>
                   fast.results[i].prov.exact = (fast.results[i].source = "Exact")

\* An ok FAST report means the fresh policy was ok and complete, and its
\* shadow verdicts, though copied from the plan, are those of this corpus:
\* unlike the GEMM side the plan's predictions and labels are compared.
FastOkMeansFresh ==
    plan # Nothing =>
        \A fast \in FastEventRuns : fast.ok =>
            /\ policy_event_corpus(m, corpus).ok
            /\ Len(fast.results) = Len(corpus.events)
            /\ Len(plan.items) = Len(fast.results)
            /\ \A i \in DOMAIN fast.results :
                   LET it == fast.results[i]
                   IN  it.shadow = IF it.decision # "ShadowCompare" THEN "none"
                                   ELSE IF it.predicted = it.expected THEN "agreed"
                                   ELSE "diverged"

\* The workers' and the lanes' counters of an ok FAST report, and of the
\* runtime's execution report, each add up to the totals.
EventCountersAddUp ==
    /\ plan # Nothing =>
           \A fast \in FastEventRuns : fast.ok => TalliesAddUp(fast)
    /\ \A r \in exec :
           /\ r.unavailable = 0
           /\ SumOf([k \in DOMAIN r.workers |-> r.workers[k].counts.items]) = r.attached
           /\ SumOf([k \in DOMAIN r.workers |-> r.workers[k].counts.replaced]) = r.eligible
           /\ SumOf([k \in DOMAIN r.workers |-> r.workers[k].counts.compared]) = r.compared
           /\ SumOf([k \in DOMAIN r.workers |-> r.workers[k].counts.failed]) = r.failed
           /\ SumOverLanes(r.lanes, "items") = r.attached
           /\ SumOverLanes(r.lanes, "compared") = r.passed + r.failed

\* A plan that is ok covers its corpus, is accepted by the FAST run of the
\* files it was made from, and attaches to every topology with its workers.
OwnEventPlanAccepted ==
    plan # Nothing /\ plan.ok =>
        /\ Len(plan.items) = Len(madeFor.corpus.events)
        /\ madeFor.m = m /\ madeFor.corpus = corpus =>
               \A opts \in EventSamplings : opts.stride # 0 =>
                   run_fast_event_corpus_with_options(m, corpus, plan, opts).ok
        /\ \A topology \in Topologies :
               ShardsOf(topology) = madeFor.workers =>
                   event_plan_attaches(ShardsOf(topology), plan)

EventPolicySafe == ReplacedOnlyWhenRight /\ FastOkMeansFresh

EventPlansHonoured == OwnEventPlanAccepted /\ AttachedOnOwnedLanes

EventReportsExact ==
    /\ InspectionPredictsEmission /\ SamplesSlideOverTheTrace /\ ReportsAgree
    /\ EventCountersAddUp /\ ExecutionDescribesAttachment

=============================================================================
