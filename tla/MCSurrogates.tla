---------------------------- MODULE MCSurrogates ----------------------------
(***************************************************************************)
(* The two surrogates, a behaviour of one or of the other, and the files   *)
(* TLC lets a user write.                                                  *)
(***************************************************************************)
EXTENDS SurrogateGemm, SurrogateEvents

VARIABLE part    \* the pipeline of this behaviour

-----------------------------------------------------------------------------
(* What both use: one and two workers, worker specs with a gap, with an    *)
(* overlap and with a repeated name.                                       *)

Pool(a, na, c, nc) == <<[id |-> a, lanes |-> na], [id |-> c, lanes |-> nc]>>

MCTopologies == {Pool("w1", 1, "w2", 2), Pool("w1", 2, "w2", 1), <<[id |-> "worker0", lanes |-> 2]>>}

Spec(id, start, lanes) == [id |-> id, start |-> start, lanes |-> lanes]

MCSpecLists == {<<Spec("w1", 0, 1), Spec("w2", 2, 1)>>, <<Spec("w1", 0, 2), Spec("w2", 1, 2)>>,
                <<Spec("w1", 0, 2), Spec("w1", 2, 2)>>}

MCWorkerId == {"", "w1", "w2", "worker0"}

MCSamplings == {[stride |-> Nothing, offset |-> 0], [stride |-> 2, offset |-> 1],
                [stride |-> 0, offset |-> 0]}

-----------------------------------------------------------------------------
(* Events: traces with one and two lanes, a missing field and a negative   *)
(* lane field; configs with and without a lane mapping, one ill-formed;    *)
(* manifests of every mode with a rule, the built-in predictors and ONNX.  *)

Step(cycle, lane, load, miss) ==
    [cycle |-> cycle, lane |-> lane, signals |-> ("load" :> load @@ "core" :> cycle - 1),
     program |-> ("stride" :> 64), labels |-> ("miss" :> miss)]

Trace(steps) == [schema |-> TRUE, hash |-> "h", top |-> "top", steps |-> steps]

Short == Trace(<<Step(0, 0, 1, 0), Step(1, 0, 2, 1), Step(2, 1, 0, 1)>>)

Long == Trace(<<Step(0, 0, 1, 0), Step(1, 2, 2, 1), Step(2, 1, 0, 1), Step(3, Nothing, 0, 0)>>)

Holed == Trace(<<Step(0, 0, 1, 0), Step(1, 2, 2, 1), [Step(2, 1, 0, 1) EXCEPT !.labels = <<>>],
                 Step(3, 1, 0, 0)>>)

MCTraces == {Short, Long, Holed, [Short EXCEPT !.schema = FALSE], [Short EXCEPT !.top = ""]}

Map(name, src, field) == [name |-> name, const |-> Nothing, src |-> src, field |-> field]

Config(window, lane) ==
    [schema |-> TRUE, hash |-> "h", top |-> "top", target |-> "cache_miss",
     window |-> window, horizon |-> 1,
     signals |-> <<Map("load", "inputs", "load")>>,
     program |-> <<[name |-> "stride", const |-> 64, src |-> Nothing, field |-> Nothing]>>,
     lane |-> lane, label |-> Map("miss", "outputs", "miss")]

Lanes == Config(2, Map("lane", "inputs", "lane"))

Plain == Config(1, Nothing)

\* The field read as a lane is negative in the first step.
Negative == Config(1, Map("lane", "inputs", "core"))

Broken == [Config(0, Nothing) EXCEPT !.label.src = Nothing]

MCConfigs == {Lanes, Plain, Negative, Broken}

Rule == [kind |-> "linear_threshold", threshold |-> 2,
         terms |-> <<[source |-> "signal", feature |-> "load", reduction |-> "sum",
                      weight |-> 1]>>,
         bonuses |-> <<[source |-> "program", feature |-> "stride", reduction |-> "sum",
                        op |-> ">=", value |-> 65, bonus |-> 2]>>]

EventManifest(mode, fallback, format, rule) ==
    [schema |-> TRUE, id |-> "m", class |-> "EventPredictor", family |-> "Rule",
     format |-> format, tensors |-> TRUE, artifact |-> "match", sha |-> "sha",
     maxErr |-> 0, maxMean |-> 0, mode |-> mode, fallback |-> fallback,
     exports |-> TRUE, hash |-> "h", top |-> "top",
     task |-> [target |-> "cache_miss", window |-> 2, horizon |-> 1, signals |-> {"load"},
               program |-> {"stride"}, label |-> "miss"],
     rule |-> rule, model |-> 3]

MCEventManifests ==
    {EventManifest("ApproximateWithTolerance", "ExactFallback", "MockEventPredictor", Rule),
     EventManifest("ApproximateWithTolerance", "FailClosed", "MockEventPredictor", Nothing),
     EventManifest("ShadowCompare", "ExactFallback", "MockEventPredictor",
                   [Rule EXCEPT !.terms[1].reduction = "max"]),
     EventManifest("ShadowCompare", "ExactFallback", "MockEventPredictor",
                   [Rule EXCEPT !.threshold = 9]),
     EventManifest("TelemetryOnly", "ExactFallback", "Onnx", Nothing),
     [EventManifest("ApproximateWithTolerance", "ExactFallback", "MockEventPredictor", Rule)
         EXCEPT !.artifact = "differs"],
     [EventManifest("ShadowCompare", "ExactFallback", "MockEventPredictor", Nothing)
         EXCEPT !.task.target = "stall_event"],
     EventManifest("ShadowCompare", "ExactFallback", "MockEventPredictor",
                   [Rule EXCEPT !.bonuses[1].op = "~"])}

Event(sample, lane, load1, load2, miss) ==
    [schema |-> TRUE, sample |-> sample, lane |-> lane, target |-> "cache_miss",
     window |-> 2, horizon |-> 1, program |-> ("stride" :> 64),
     signals |-> <<("load" :> load1), ("load" :> load2)>>, label |-> ("miss" :> miss)]

Corpus(hash, events) == [schema |-> TRUE, hash |-> hash, top |-> "top", events |-> events]

MCCorpora == {Corpus("h", <<Event(0, Nothing, 2, 5, 1), Event(1, 1, 0, 0, 0)>>),
              Corpus("g", <<Event(0, 1, 2, 5, 1)>>),
              Corpus("h", <<Event(0, 1, 2, 2, 2)>>),
              Corpus("h", <<[Event(0, 1, 2, 2, 1) EXCEPT !.target = "stall_event"]>>)}

Workspace(trace, config, c) == [tr |-> trace, cf |-> config, corpus |-> c]

MCWorkspaces == [tr : {Short, Long, Holed}, cf : {Lanes, Plain}, corpus : {Nothing}]
                    \cup [tr : {Short}, cf : {Negative}, corpus : MCCorpora]

\* Three sessions: the sum of the window's loads decides, or they fail.
MCOnnxEvent(model, e) ==
    IF e.sample = 2 THEN Nothing ELSE (e.signals[1]["load"] + e.signals[2]["load"]) % model

-----------------------------------------------------------------------------
(* GEMM: manifests of every mode and fallback, mock and ONNX, a stale      *)
(* artifact; batches with implicit and explicit lanes, transactions out of *)
(* domain, ill-shaped, empty or off their reference.                       *)

GemmManifest(mode, fallback, format, bias) ==
    [schema |-> TRUE, id |-> "m", class |-> "TransactionKernel", family |-> "Rule",
     format |-> format, tensors |-> TRUE, artifact |-> "match", sha |-> "sha",
     rows |-> 1, cols |-> 2, kmin |-> 1, kmax |-> 1,
     maxErr |-> 1, maxMean |-> 1, maxLat |-> 0,
     mode |-> mode, fallback |-> fallback, task |-> Nothing, model |-> bias]

MCGemmManifests ==
    {GemmManifest("ApproximateWithTolerance", "ExactFallback", "MockGemm", 0),
     GemmManifest("ApproximateWithTolerance", "FailClosed", "Onnx", 1),
     GemmManifest("ShadowCompare", "ExactFallback", "Onnx", 1),
     GemmManifest("ShadowCompare", "ExactFallback", "MockGemm", 0),
     [GemmManifest("TelemetryOnly", "ExactFallback", "MockGemm", 0) EXCEPT !.artifact = "differs"],
     [GemmManifest("ApproximateWithTolerance", "ExactFallback", "MockGemm", 0)
         EXCEPT !.artifact = "differs"]}

Tx(lane, k, a, w, expected) ==
    [lane |-> lane, rows |-> 1, cols |-> 2, k |-> k, a |-> a, w |-> w,
     expected |-> expected, explat |-> Nothing]

Small(lane) == Tx(lane, 1, <<<<2>>>>, <<<<1, 3>>>>, <<<<2, 6>>>>)

Off(lane) == Tx(lane, 1, <<<<2>>>>, <<<<1, 3>>>>, <<<<2, 9>>>>)

Wide(lane) == Tx(lane, 2, <<<<1, 2>>>>, <<<<1, 0>>, <<2, 1>>>>, Nothing)

Ragged(lane) == Tx(lane, 2, <<<<1>>>>, <<<<1, 0>>>>, Nothing)

Void(lane) == [Tx(lane, 0, <<>>, <<>>, Nothing) EXCEPT !.rows = 0, !.cols = 0]

Batch(txs) == [schema |-> TRUE, txs |-> txs]

MCBatches ==
    {Batch(<<Small(Nothing), Off(Nothing), Small(0)>>),
     Batch(<<Small(Nothing), Wide(Nothing), Small(0)>>),
     Batch(<<Small(1), Ragged(2)>>),
     [schema |-> FALSE, txs |-> <<Small(1)>>],
     Batch(<<Void(3)>>),
     Batch(<<>>)}

\* A session that is off by the model's bias, and answers no wide product.
MCOnnxGemm(bias, tx) ==
    IF tx.k # 1 THEN Nothing
    ELSE [values    |-> [c \in 1..2 |-> tx.a[1][1] * tx.w[1][c] + bias],
          telemetry |-> <<3, 1, 1>>]

-----------------------------------------------------------------------------
SurrogatesInit ==
    \/ part = "events" /\ EventInit /\ b = Nothing
    \/ part = "gemm" /\ GemmInit /\ tr = Nothing /\ cf = Nothing /\ corpus = Nothing

SurrogatesNext ==
    \/ part = "events" /\ EventNext /\ UNCHANGED <<part, b>>
    \/ part = "gemm" /\ GemmNext /\ UNCHANGED <<part, tr, cf, corpus>>

surrogatesVars == <<part, runtimeVars, b, tr, cf, corpus>>

SurrogatesSpec == SurrogatesInit /\ [][SurrogatesNext]_surrogatesVars

(***************************************************************************)
(* A surrogate result replaces an RTL result only under a manifest that    *)
(* says so, within its trained domain and tolerance, marked approximate    *)
(* all the way to the attachment; an item without a result to trust stops  *)
(* the batch; and an ok FAST report of events is that of the corpus it ran *)
(* on (policy_gemm_batch, policy_event_corpus, the FAST runs).             *)
(***************************************************************************)
PoliciesSafe == IF part = "events" THEN EventPolicySafe ELSE GemmPolicySafe

(***************************************************************************)
(* A plan that is ok is accepted by the FAST run and the runtime it was    *)
(* made for; a plan made for something else is accepted only with the same *)
(* lanes and decisions, and attached items lie on lanes their worker owns  *)
(* (validate_fast_*_plan, attach_*_runtime_plan_to_shard_infos).           *)
(***************************************************************************)
PlansHonoured == IF part = "events" THEN EventPlansHonoured ELSE GemmPlansHonoured

(***************************************************************************)
(* The commands' reports agree with each other and add up: inspection with *)
(* emission, validation with shadow runs and policy, workers' and lanes'   *)
(* counters with totals, the execution report with the attachment and the  *)
(* actions since.                                                          *)
(***************************************************************************)
SurrogateReportsExact == IF part = "events" THEN EventReportsExact ELSE GemmReportsExact
=============================================================================
