----------------------------- MODULE TraceReplay -----------------------------
(***************************************************************************)
(* Trace replay over independent lanes (rrtl-sim-ir): a trace gives, for   *)
(* every step, the input values and the expected values of every lane.     *)
(* It is encoded into limbs, adjacent one-limb signals are batched into    *)
(* one copy, the lanes are split over worker threads with engines of       *)
(* different kinds, and the workers' mismatch reports are merged.  The     *)
(* autotuner replays a prefix with each candidate split, keeps the fastest *)
(* one that had no mismatch and replays the whole trace with it.           *)
(*                                                                         *)
(* A limb holds one bit here, so a two-limb signal holds two bits.  The    *)
(* engines themselves are the subject of LimbEngine and LaneEngines; here  *)
(* they are one small design (Settle, Clocked).                            *)
(***************************************************************************)
EXTENDS Integers, Sequences, FiniteSets, SequencesExt, FiniteSetsExt, TLC

CONSTANTS Traces,        \* raw traces: sequences of steps
          TraceLanes,    \* lanes of every trace
          Layouts,       \* worker splits: sequences of [backend, lanes]
          CandidateLists,\* user-given candidate lists (possibly empty)
          Advice,        \* what the static analyses may say of the program
          AccInits,      \* initial states of the register, or NoValue
          MaxMismatches, \* values of max_mismatches
          MaxReplays,    \* bound: calls of replay() on one runner
          MaxPanics      \* bound: worker panics in a behaviour

VARIABLES trace,     \* the raw trace
          max,       \* max_mismatches
          accInit,   \* initial value of the register, or NoValue
          runner,    \* the ThreadedReplayRunner's workers
          prefix,    \* number of steps the runner replays
          call,      \* "idle", "running", "ok" or "err": the last replay()
          report,    \* what the last successful replay() returned
          calls,     \* replay() calls so far
          panics,    \* worker panics so far
          tune       \* the autotuner

vars == <<trace, max, accInit, runner, prefix, call, report, calls, panics, tune>>

-----------------------------------------------------------------------------
(* The design the trace drives and the layout of its signals.              *)

NoValue == 9

NoLane == -1

Inputs == {"a", "b", "w"}

Signals == {"a", "b", "w", "out", "acc", "wide"}

\* PackedValueLayout: w and wide take two limbs, a|b and out|acc are adjacent.
Layout == [a |-> [offset |-> 0, limbs |-> 1], b |-> [offset |-> 1, limbs |-> 1],
           w |-> [offset |-> 2, limbs |-> 2], out |-> [offset |-> 4, limbs |-> 1],
           acc |-> [offset |-> 5, limbs |-> 1], wide |-> [offset |-> 6, limbs |-> 2]]

Slots == 8

fit_u128(v, s) == v % (2 ^ Layout[s].limbs)

encode_u128_limbs(v, s) == [l \in 1..Layout[s].limbs |-> (v \div (2 ^ (l - 1))) % 2]

decode_u128_limbs(limbs) == limbs[1] + (IF Len(limbs) = 1 THEN 0 ELSE 2 * limbs[2])

\* eval_combinational of the design.
Settle(v) == [v EXCEPT !["out"] = (v["acc"] + v["a"]) % 2,
                       !["wide"] = (v["w"] + v["acc"] + v["b"]) % 4]

\* tick_from_evaluated_no_post_eval: registers only, wires keep their values.
Clocked(v) == [v EXCEPT !["acc"] = (v["out"] + v["b"] + v["wide"]) % 2]

Fresh == [a |-> 0, b |-> 0, w |-> 0, out |-> 0, acc |-> 0, wide |-> 0]

-----------------------------------------------------------------------------
(* Encoding the trace.                                                     *)

flatten_replay_lanes(limbs) == FlattenSeq(limbs)

EncodedInput(in) ==
    LET limbs == [l \in 1..Len(in.vals) |-> encode_u128_limbs(in.vals[l], in.sig)]
    IN [sig |-> in.sig, lane_limbs |-> limbs, flat |-> flatten_replay_lanes(limbs)]

EncodedCheck(ck) ==
    LET limbs == [l \in 1..Len(ck.vals) |-> encode_u128_limbs(ck.vals[l], ck.sig)]
    IN [sig |-> ck.sig, idx |-> ck.idx, lane_limbs |-> limbs,
        flat |-> flatten_replay_lanes(limbs),
        expected |-> [l \in 1..Len(ck.vals) |-> fit_u128(ck.vals[l], ck.sig)]]

\* Mutant: a batch runs on over any one-limb signals, adjacent or not.
BatchEnd_any(lays, i) ==
    Max({j \in i..Len(lays) : \A k \in i..j : lays[k].limbs = 1})

\* The last item of the run of one-limb signals at consecutive offsets.
BatchEnd(lays, i) ==
    Max({j \in i..Len(lays) : \A k \in i..j :
            lays[k].limbs = 1 /\ lays[k].offset = lays[i].offset + (k - i)})

\* Both builders (inputs, checks) group the same way.
RECURSIVE OpsFrom(_, _, _)
OpsFrom(items, lays, i) ==
    IF i > Len(items) THEN <<>>
    ELSE IF lays[i].limbs # 1
         THEN <<[kind |-> "generic", from |-> i, to |-> i]>> \o OpsFrom(items, lays, i + 1)
         ELSE LET e == BatchEnd(lays, i)
              IN <<IF e = i THEN [kind |-> "one", from |-> i, to |-> i]
                   ELSE [kind |-> "batch", from |-> i, to |-> e, offset |-> lays[i].offset,
                         values |-> FlattenSeq([k \in 1..(e - i + 1) |-> items[i + k - 1].flat])]>>
                 \o OpsFrom(items, lays, e + 1)

build_encoded_ops(items, lays) == OpsFrom(items, lays, 1)

\* A generic item's layout is not in the ops: any limb count but one stands for it.
encoded_layouts_from_ops(items, ops) ==
    [i \in 1..Len(items) |->
        IF \E o \in ToSet(ops) : o.kind # "generic" /\ i \in o.from..o.to
        THEN Layout[items[i].sig] ELSE [offset |-> 0, limbs |-> 2]]

PopulatedStep(ins, cks, inLays, ckLays) ==
    [inputs |-> ins, checks |-> cks,
     inOps |-> build_encoded_ops(ins, inLays), ckOps |-> build_encoded_ops(cks, ckLays)]

LayoutsOf(items) == [i \in 1..Len(items) |-> Layout[items[i].sig]]

\* from_independent_lane_steps refuses a step whose data is not one value per lane.
LaneDataComplete(tr, lanes) ==
    \A step \in ToSet(tr) : \A x \in ToSet(step.inputs) \cup ToSet(step.checks) :
        Len(x.vals) = lanes

from_independent_lane_steps(tr) ==
    [k \in 1..Len(tr) |->
        LET ins == [i \in 1..Len(tr[k].inputs) |-> EncodedInput(tr[k].inputs[i])]
            cks == [i \in 1..Len(tr[k].checks) |-> EncodedCheck(tr[k].checks[i])]
        IN PopulatedStep(ins, cks, LayoutsOf(ins), LayoutsOf(cks))]

slice_replay_lanes(s, start, n) == SubSeq(s, start + 1, start + n)

SliceItem(x, start, n) ==
    [x EXCEPT !.lane_limbs = slice_replay_lanes(@, start, n),
              !.flat = flatten_replay_lanes(slice_replay_lanes(x.lane_limbs, start, n))]

slice_lanes(plan, start, n) ==
    [k \in 1..Len(plan) |->
        LET ins == [i \in 1..Len(plan[k].inputs) |-> SliceItem(plan[k].inputs[i], start, n)]
            cks == [i \in 1..Len(plan[k].checks) |->
                       [SliceItem(plan[k].checks[i], start, n)
                           EXCEPT !.expected = slice_replay_lanes(@, start, n)]]
        IN PopulatedStep(ins, cks, encoded_layouts_from_ops(plan[k].inputs, plan[k].inOps),
                                   encoded_layouts_from_ops(plan[k].checks, plan[k].ckOps))]

-----------------------------------------------------------------------------
(* Reports.                                                                *)

EmptyReport == [count |-> 0, mismatches |-> <<>>]

\* record_mismatch for each of mms in turn: all are counted, the first max are kept.
record_mismatch(rep, mms) ==
    [count |-> rep.count + Len(mms),
     mismatches |-> SubSeq(rep.mismatches \o mms, 1, Min({max, Len(rep.mismatches) + Len(mms)}))]

\* Mutant: a single-lane worker's mismatches keep lane 0 of the whole trace.
WithLaneOffset_single(mm, offset) ==
    [mm EXCEPT !.lane = IF @ = NoLane THEN 0 ELSE @ + offset]

WithLaneOffset(mm, offset) == [mm EXCEPT !.lane = (IF @ = NoLane THEN 0 ELSE @) + offset]

merge_replay_report_with_lane_offset(merged, rep, offset) ==
    [count |-> merged.count + rep.count,
     mismatches |-> SubSeq(merged.mismatches \o
                        [i \in 1..Len(rep.mismatches) |-> WithLaneOffset(rep.mismatches[i], offset)],
                        1, Min({max, Len(merged.mismatches) + Len(rep.mismatches)}))]

offset_replay_report_lanes(rep, offset) ==
    [merge_replay_report_with_lane_offset(EmptyReport, rep, offset) EXCEPT !.count = rep.count]

-----------------------------------------------------------------------------
(* The multi-lane engines (packed and SIMD): one flat array of limbs,      *)
(* limb l of lane i at (offset + l) * lanes + i.                           *)

value_index(offset, limb, lane, n) == (offset + limb) * n + lane

LoadSignal(store, n, lane, s) == decode_u128_limbs(
    [l \in 1..Layout[s].limbs |-> store[value_index(Layout[s].offset, l - 1, lane, n)]])

LoadLane(store, n, lane) ==
    LET v(s) == LoadSignal(store, n, lane, s)
    IN [a |-> v("a"), b |-> v("b"), w |-> v("w"), out |-> v("out"), acc |-> v("acc"), wide |-> v("wide")]

CopyRange(store, start, values) ==
    [x \in start..(start + Len(values) - 1) |-> values[x - start + 1]] @@ store

\* A generic input: limb l of lane i comes from value i * limbs + l.
StoreGeneric(store, n, in) ==
    LET k == Layout[in.sig].limbs
    IN [x \in (Layout[in.sig].offset * n)..((Layout[in.sig].offset + k) * n - 1) |->
           in.flat[(x % n) * k + ((x \div n) - Layout[in.sig].offset) + 1]] @@ store

ApplyInput(store, n, step, op) ==
    LET in == step.inputs[op.from]
    IN CASE op.kind = "batch" -> CopyRange(store, op.offset * n, op.values)
         [] op.kind = "one" -> CopyRange(store, Layout[in.sig].offset * n, in.flat)
         [] op.kind = "generic" -> StoreGeneric(store, n, in)

RECURSIVE InputsFrom(_, _, _, _)
InputsFrom(store, n, step, j) ==
    IF j > Len(step.inOps) THEN store
    ELSE InputsFrom(ApplyInput(store, n, step, step.inOps[j]), n, step, j + 1)

replay_independent_inputs(store, n, step) == InputsFrom(store, n, step, 1)

LaneOfOne(n, lane) == IF n = 1 THEN NoLane ELSE lane

\* The mismatches of one check, over the lanes in order: the limbs at an offset
\* against the expected ones (in a batch, both counted from the batch's start).
CheckLanes(store, n, step, k, i, offset, expected) ==
    LET ck == step.checks[i]
        sz == Layout[ck.sig].limbs
        At(lane) == [l \in 1..sz |-> store[value_index(offset, l - 1, lane, n)]]
        Bad(lane) == At(lane) # SubSeq(expected, lane * sz + 1, lane * sz + sz)
        bad == SelectSeq([x \in 1..n |-> x - 1], Bad)
    IN [j \in 1..Len(bad) |->
           [step |-> k, idx |-> ck.idx, expected |-> ck.expected[bad[j] + 1],
            actual |-> LoadSignal(store, n, bad[j], ck.sig), lane |-> LaneOfOne(n, bad[j])]]

CheckOp(store, n, step, k, op) ==
    IF op.kind = "batch"
    THEN FlattenSeq([j \in 1..(op.to - op.from + 1) |->
            CheckLanes(store, n, step, k, op.from + j - 1, op.offset + j - 1,
                       SubSeq(op.values, (j - 1) * n + 1, j * n))])
    ELSE CheckLanes(store, n, step, k, op.from, Layout[step.checks[op.from].sig].offset,
                    step.checks[op.from].flat)

check_independent_replay_outputs(store, n, step, k, rep) ==
    record_mismatch(rep, FlattenSeq([j \in 1..Len(step.ckOps) |->
                                        CheckOp(store, n, step, k, step.ckOps[j])]))

\* Which limb of which signal a slot holds.
SlotSignal(slot) ==
    CHOOSE s \in Signals : slot \in Layout[s].offset..(Layout[s].offset + Layout[s].limbs - 1)

\* Every lane's values, computed by Op, encoded back into the array.
PerLane(store, n, Op(_)) ==
    [x \in DOMAIN store |->
        LET s == SlotSignal(x \div n)
        IN encode_u128_limbs(Op(LoadLane(store, n, x % n))[s], s)[(x \div n) - Layout[s].offset + 1]]
    @@ store

FreshStore(n) == [x \in 0..(Slots * n - 1) |-> 0]

-----------------------------------------------------------------------------
(* The single-lane engine: a value per signal, lane by lane.               *)

ScalarValue(op, items, i, lane, lanes) ==
    LET sz == Layout[items[i].sig].limbs
    IN IF op.kind = "batch" THEN op.values[(i - op.from) * lanes + lane + 1]
       ELSE decode_u128_limbs(SubSeq(items[i].flat, lane * sz + 1, lane * sz + sz))

ScalarInputs(v, step, lane, lanes) ==
    LET given == [s \in {step.inputs[i].sig : i \in 1..Len(step.inputs)} |->
                    LET i == Max({x \in 1..Len(step.inputs) : step.inputs[x].sig = s})
                        op == CHOOSE o \in ToSet(step.inOps) : i \in o.from..o.to
                    IN ScalarValue(op, step.inputs, i, lane, lanes)]
    IN given @@ v

ScalarMismatches(v, step, k, lane, lanes, op) ==
    LET Exp(i) == IF op.kind = "generic" THEN step.checks[i].expected[lane + 1]
                  ELSE ScalarValue(op, step.checks, i, lane, lanes)
        Bad(i) == v[step.checks[i].sig] # Exp(i)
        bad == SelectSeq([j \in 1..(op.to - op.from + 1) |-> op.from + j - 1], Bad)
    IN [j \in 1..Len(bad) |-> [step |-> k, idx |-> step.checks[bad[j]].idx, expected |-> Exp(bad[j]),
                               actual |-> v[step.checks[bad[j]].sig], lane |-> lane]]

ScalarChecks(v, step, k, lane, lanes, rep) ==
    record_mismatch(rep, FlattenSeq([j \in 1..Len(step.ckOps) |->
                            ScalarMismatches(v, step, k, lane, lanes, step.ckOps[j])]))

-----------------------------------------------------------------------------
(* ThreadedReplayRunner.                                                   *)

SumLanes(layout) == FoldLeft(+, 0, [i \in 1..Len(layout) |-> layout[i].lanes])

\* validate_threaded_replay_layout
ValidLayout(layout) ==
    layout # <<>> /\ (\A w \in ToSet(layout) : w.lanes > 0) /\ SumLanes(layout) = TraceLanes

start_lane(layout, i) == SumLanes(SubSeq(layout, 1, i - 1))

InitialValue == IF accInit = NoValue THEN Fresh ELSE Settle([Fresh EXCEPT !["acc"] = accInit])

InitialStore(n) ==
    IF accInit = NoValue THEN FreshStore(n)
    ELSE PerLane(FreshStore(n), n, LAMBDA v : InitialValue)

NewWorker(plan, layout, i) ==
    LET w == layout[i] scalar == w.backend = "Scalar" start == start_lane(layout, i)
        snap == IF scalar THEN InitialValue ELSE InitialStore(w.lanes)
    IN [backend |-> w.backend, start |-> start, lanes |-> w.lanes,
        plan |-> IF scalar THEN plan ELSE slice_lanes(plan, start, w.lanes),
        sim |-> snap, snapshot |-> snap, lane |-> 0, step |-> 0,
        rep |-> EmptyReport, merged |-> EmptyReport, status |-> "idle"]

\* The plan of the first steps (prefix_steps takes a prefix of the encoded steps).
PlanOf(steps) == SubSeq(from_independent_lane_steps(trace), 1, steps)

new_with_initial_state(plan, layout) == [i \in 1..Len(layout) |-> NewWorker(plan, layout, i)]

\* Mutant: a worker starts from wherever its last replay ended.
Spawned_unrestored(w) == [w EXCEPT !.status = "running", !.lane = 0, !.step = 0,
                        !.rep = EmptyReport, !.merged = EmptyReport]

\* A worker's thread starts by restoring its snapshot.
Spawned(w) == [w EXCEPT !.status = "running", !.lane = 0, !.step = 0,
                        !.sim = w.snapshot, !.rep = EmptyReport, !.merged = EmptyReport]

\* replay(): one thread per worker; each first restores its snapshot.
Launched(r) == [i \in DOMAIN r |-> Spawned(r[i])]

CurrentStep(w) == w.plan[w.step + 1]

\* A step of a worker: the inputs of the step, ...
Driven(w) ==
    IF w.backend = "Scalar"
    THEN ScalarInputs(w.sim, CurrentStep(w), w.start + w.lane, TraceLanes)
    ELSE replay_independent_inputs(w.sim, w.lanes, CurrentStep(w))

\* ... eval_combinational, ...
Evaluated(w, driven) ==
    IF w.backend = "Scalar" THEN Settle(driven) ELSE PerLane(driven, w.lanes, Settle)

\* ... then the checks and the tick.  A packed or SIMD worker (replay_trace)
\* offsets the lanes after its last step.
BackendStep(w, evald) ==
    LET rep == check_independent_replay_outputs(evald, w.lanes, CurrentStep(w), w.step, w.rep)
        last == w.step + 1 = Len(w.plan)
    IN [w EXCEPT !.sim = PerLane(evald, w.lanes, Clocked), !.step = @ + 1, !.rep = rep,
                 !.merged = IF last THEN offset_replay_report_lanes(rep, w.start) ELSE @,
                 !.status = IF last THEN "done" ELSE @]

\* A scalar worker (replay_compiled_independent_lane_trace for its current lane)
\* merges at the end of a lane and restores the snapshot for the next.
ScalarStep(w, evald) ==
    LET rep == ScalarChecks(evald, CurrentStep(w), w.step, w.start + w.lane, TraceLanes, w.rep)
        lastStep == w.step + 1 = Len(w.plan)
        lastLane == w.lane + 1 = w.lanes
    IN IF ~lastStep
       THEN [w EXCEPT !.sim = Clocked(evald), !.step = @ + 1, !.rep = rep]
       ELSE [w EXCEPT !.sim = IF lastLane THEN Clocked(evald) ELSE w.snapshot,
                      !.step = 0, !.lane = @ + 1, !.rep = EmptyReport,
                      !.merged = merge_replay_report_with_lane_offset(@, rep, 0),
                      !.status = IF lastLane THEN "done" ELSE @]

WorkerStepped(w, evald) ==
    IF w.backend = "Scalar" THEN ScalarStep(w, evald) ELSE BackendStep(w, evald)

RECURSIVE MergedFrom(_, _, _)
MergedFrom(r, i, rep) ==
    IF i > Len(r) THEN rep
    ELSE MergedFrom(r, i + 1, merge_replay_report_with_lane_offset(rep, r[i].merged, 0))

merge_threaded_replay_reports(r) == MergedFrom(r, 1, EmptyReport)

-----------------------------------------------------------------------------
(* Autotune: candidate splits and their pruning.                           *)

Workers(backend, lanes) == [i \in 1..Len(lanes) |-> [backend |-> backend, lanes |-> lanes[i]]]

\* Mutant: the remainder lanes are forgotten.
split_worker_lanes_even(total, workers) ==
    LET n == Min({Max({workers, 1}), total}) IN [i \in 1..n |-> total \div n]

split_worker_lanes(total, workers) ==
    LET n == Min({Max({workers, 1}), total})
    IN [i \in 1..n |-> (total \div n) + (IF i - 1 < total % n THEN 1 ELSE 0)]

\* [1, ceil(workers / 2), workers] without the repeats.
scalar_autotune_worker_counts(total, workers) ==
    LET n == Min({Max({workers, 1}), total})
    IN SetToSortSeq({1, (n + 1) \div 2, n}, <)

replay_candidate_layout_kind(layout) ==
    LET kinds == {w.backend : w \in ToSet(layout)}
    IN IF Cardinality(kinds) = 1 THEN CHOOSE k \in kinds : TRUE ELSE "Mixed"

\* Which kinds an affinity recommendation keeps.
KeptByAffinity(rec) ==
    CASE rec \in {"ScalarPreferred", "GpuBlocked"} -> {"Scalar"}
      [] rec = "MixedScalarSimdCandidate" -> {"Scalar", "Mixed"}
      [] rec = "PackedCpuCandidate" -> {"Scalar", "PackedCpu"}
      [] rec \in {"SimdCpuCandidate", "none"} -> {"Scalar", "PackedCpu", "SimdCpu", "Mixed"}

\* Which kinds a suitability recommendation keeps; mixedWorth is the fast-share test.
KeptBySuitability(rec, mixedWorth) ==
    CASE rec \in {"SimdCandidate", "none"} -> {"Scalar", "PackedCpu", "SimdCpu", "Mixed"}
      [] rec = "MixedCandidate" -> {"Scalar", "Mixed"}
      [] rec = "ScalarPreferred" -> IF mixedWorth THEN {"Scalar", "Mixed"} ELSE {"Scalar"}
      [] rec = "GpuCandidateBlocked" -> {"Scalar"}

build_replay_autotune_candidate_set_with_affinity(workers, advice) ==
    LET counts == scalar_autotune_worker_counts(TraceLanes, workers)
        even == split_worker_lanes(TraceLanes, workers)
        half == TraceLanes \div 2
        all == [i \in 1..Len(counts) |->
                    Workers("Scalar", split_worker_lanes(TraceLanes, counts[i]))]
               \o <<Workers("PackedCpu", even), Workers("SimdCpu", even)>>
               \o (IF Min({workers, TraceLanes}) > 1
                   THEN <<Workers("Scalar", <<half>>) \o Workers("SimdCpu", <<TraceLanes - half>>)>>
                   ELSE <<>>)
    IN SelectSeq(all, LAMBDA c : replay_candidate_layout_kind(c) \in
                        KeptByAffinity(advice.affinity)
                            \cap KeptBySuitability(advice.suitability, advice.mixedWorth))

\* BackendAffinityReport, SimdSuitabilityReport (each may be missing) and the
\* fast-share test of a mixed split.
AllAdvice == [affinity : {"none", "ScalarPreferred", "GpuBlocked", "MixedScalarSimdCandidate",
                          "SimdCpuCandidate", "PackedCpuCandidate"},
              suitability : {"none", "SimdCandidate", "MixedCandidate", "ScalarPreferred",
                             "GpuCandidateBlocked"},
              mixedWorth : BOOLEAN]

NotTuning == [phase |-> "off", cands |-> <<>>, at |-> 0, clean |-> {}, best |-> 0, warmup |-> 0]

-----------------------------------------------------------------------------
Init ==
    /\ trace \in Traces
    /\ LaneDataComplete(trace, TraceLanes)
    /\ max \in MaxMismatches
    /\ accInit \in AccInits
    /\ runner = <<>> /\ prefix = 0 /\ call = "idle" /\ report = EmptyReport
    /\ calls = 0 /\ panics = 0 /\ tune = NotTuning

\* ThreadedReplayRunner::new for a split the caller chose.
Build(layout) ==
    /\ runner = <<>> /\ tune.phase = "off"
    /\ ValidLayout(layout)
    /\ prefix' = Len(trace)
    /\ \E plan \in {PlanOf(Len(trace))} : runner' = new_with_initial_state(plan, layout)
    /\ UNCHANGED <<trace, max, accInit, call, report, calls, panics, tune>>

\* ThreadedReplayRunner::replay
Replay ==
    /\ runner # <<>> /\ call # "running"
    /\ tune.phase = "off" => calls < MaxReplays
    /\ tune.phase # "off" => tune.phase = "built"
    /\ runner' = Launched(runner)
    /\ call' = "running"
    /\ calls' = calls + 1
    /\ tune' = [tune EXCEPT !.phase = IF @ = "built" THEN "replaying" ELSE @]
    /\ UNCHANGED <<trace, max, accInit, prefix, report, panics>>

\* A worker thread replays one more step.
Worker(i) ==
    /\ call = "running" /\ runner[i].status = "running"
    /\ \E driven \in {Driven(runner[i])} : \E evald \in {Evaluated(runner[i], driven)} :
          runner' = [runner EXCEPT ![i] = WorkerStepped(@, evald)]
    /\ UNCHANGED <<trace, max, accInit, prefix, call, report, calls, panics, tune>>

\* A worker thread panics somewhere in its replay.
Panic(i) ==
    /\ call = "running" /\ runner[i].status = "running" /\ panics < MaxPanics
    /\ runner' = [runner EXCEPT ![i].status = "panicked"]
    /\ panics' = panics + 1
    /\ UNCHANGED <<trace, max, accInit, prefix, call, report, calls, tune>>

\* Mutant: a panicked thread is waited for like a running one.
Joined_done ==
    /\ call = "running"
    /\ \A i \in DOMAIN runner : runner[i].status = "done"
    /\ call' = "ok" /\ report' = merge_threaded_replay_reports(runner)
    /\ UNCHANGED <<trace, max, accInit, runner, prefix, calls, panics, tune>>

\* Every thread is joined; one that panicked fails the whole call.
Joined ==
    /\ call = "running"
    /\ \A i \in DOMAIN runner : runner[i].status \in {"done", "panicked"}
    /\ IF \E i \in DOMAIN runner : runner[i].status = "panicked"
       THEN call' = "err" /\ UNCHANGED report
       ELSE call' = "ok" /\ report' = merge_threaded_replay_reports(runner)
    /\ UNCHANGED <<trace, max, accInit, runner, prefix, calls, panics, tune>>

\* replay_trace_autotune: the candidates, given or built.
StartTune(cands, warmup) ==
    /\ runner = <<>> /\ tune.phase = "off"
    /\ tune' = [NotTuning EXCEPT !.phase = IF cands = <<>> THEN "failed" ELSE "next",
                                 !.cands = cands, !.warmup = Min({Max({warmup, 1}), Len(trace)})]
    /\ UNCHANGED <<trace, max, accInit, runner, prefix, call, report, calls, panics>>

Autotune(cands, workers, advice, warmup) ==
    StartTune(IF cands # <<>> THEN cands
              ELSE build_replay_autotune_candidate_set_with_affinity(workers, advice), warmup)

\* Mutant: a candidate whose runner cannot be built is tried again.
TryCandidate_retry ==
    /\ tune.phase = "next" /\ tune.at < Len(tune.cands)
    /\ LET c == tune.cands[tune.at + 1]
       IN /\ ValidLayout(c)
          /\ \E plan \in {PlanOf(tune.warmup)} : runner' = new_with_initial_state(plan, c)
          /\ prefix' = tune.warmup
          /\ call' = "idle"
          /\ tune' = [tune EXCEPT !.at = @ + 1, !.phase = "built"]
    /\ UNCHANGED <<trace, max, accInit, report, calls, panics>>

\* The next candidate: a new runner over the warm-up prefix, or an error.
TryCandidate ==
    /\ tune.phase = "next" /\ tune.at < Len(tune.cands)
    /\ LET c == tune.cands[tune.at + 1]
       IN IF ValidLayout(c)
          THEN /\ \E plan \in {PlanOf(tune.warmup)} : runner' = new_with_initial_state(plan, c)
               /\ prefix' = tune.warmup
               /\ call' = "idle"
               /\ tune' = [tune EXCEPT !.at = @ + 1, !.phase = "built"]
          ELSE /\ tune' = [tune EXCEPT !.at = @ + 1]
               /\ UNCHANGED <<runner, prefix, call>>
    /\ UNCHANGED <<trace, max, accInit, report, calls, panics>>

\* Mutant: a candidate with mismatches competes on speed like any other.
Eligible_any(rep) == TRUE

\* Only a candidate without a mismatch competes.
Eligible(rep) == rep.count = 0

\* The candidate's report decides; the measured speed is not modelled, so a later
\* clean candidate may or may not beat the best one so far.
JudgeCandidate ==
    /\ tune.phase = "replaying" /\ call \in {"ok", "err"}
    /\ IF call = "ok" /\ Eligible(report)
       THEN \E faster \in (IF tune.best = 0 THEN {TRUE} ELSE BOOLEAN) :
               tune' = [tune EXCEPT !.phase = "next", !.clean = @ \cup {tune.at},
                                    !.best = IF faster THEN tune.at ELSE @]
       ELSE tune' = [tune EXCEPT !.phase = "next"]
    /\ UNCHANGED <<trace, max, accInit, runner, prefix, call, report, calls, panics>>

\* After the last candidate: replay everything with the best, or fail.
SelectCandidate ==
    /\ tune.phase = "next" /\ tune.at = Len(tune.cands)
    /\ IF tune.best = 0
       THEN tune' = [tune EXCEPT !.phase = "failed"] /\ UNCHANGED <<runner, prefix, call>>
       ELSE /\ tune' = [tune EXCEPT !.phase = "final"]
            /\ \E plan \in {PlanOf(Len(trace))} :
                  runner' = Launched(new_with_initial_state(plan, tune.cands[tune.best]))
            /\ prefix' = Len(trace)
            /\ call' = "running"
    /\ UNCHANGED <<trace, max, accInit, report, calls, panics>>

Next ==
    \/ \E l \in Layouts : Build(l)
    \/ Replay
    \/ \E i \in DOMAIN runner : Worker(i) \/ Panic(i)
    \/ Joined
    \/ \E c \in CandidateLists : \E w \in 1..TraceLanes : \E adv \in Advice : Autotune(c, w, adv, 1)
    \/ TryCandidate
    \/ JudgeCandidate
    \/ SelectCandidate

\* Threads run and the caller of replay() waits for them; the autotuner is a loop.
Fairness ==
    /\ \A i \in 1..TraceLanes : WF_vars(i \in DOMAIN runner /\ Worker(i))
    /\ WF_vars(Joined) /\ WF_vars(TryCandidate) /\ WF_vars(JudgeCandidate)
    /\ WF_vars(SelectCandidate) /\ WF_vars(tune.phase = "built" /\ Replay)

Spec == Init /\ [][Next]_vars /\ Fairness

-----------------------------------------------------------------------------
(* What the trace means, lane by lane, without limbs, batches or splits.   *)

RECURSIVE LaneMismatches(_, _, _, _)
LaneMismatches(v, k, steps, lane) ==
    IF k > steps THEN {}
    ELSE LET driven == [s \in Signals |->
                 LET given == {i \in 1..Len(trace[k].inputs) : trace[k].inputs[i].sig = s}
                 IN IF given = {} THEN v[s]
                    ELSE fit_u128(trace[k].inputs[Max(given)].vals[lane + 1], s)]
             e == Settle(driven)
         IN {[step |-> k - 1, idx |-> ck.idx, expected |-> fit_u128(ck.vals[lane + 1], ck.sig),
              actual |-> e[ck.sig], lane |-> lane] :
                ck \in {c \in ToSet(trace[k].checks) : e[c.sig] # fit_u128(c.vals[lane + 1], c.sig)}}
            \cup LaneMismatches(Clocked(e), k + 1, steps, lane)

Mismatches(steps) == UNION {LaneMismatches(InitialValue, 1, steps, l) : l \in 0..(TraceLanes - 1)}

\* Whatever the split of the lanes over workers and engines, the batching of
\* signals and the history of the runner (earlier replays, workers that
\* panicked half-way), a replay that returns counts exactly the mismatches of
\* the trace and lists as many real ones as it may, each with the lane of the
\* whole trace, none twice.
ReportExact ==
    call = "ok" =>
        /\ report.count = Cardinality(Mismatches(prefix))
        /\ ToSet(report.mismatches) \subseteq Mismatches(prefix)
        /\ Cardinality(ToSet(report.mismatches)) = Len(report.mismatches)
        /\ Len(report.mismatches) = Min({max, report.count})

\* The splits the autotuner builds give every lane to exactly one worker and
\* no worker nothing, and pruning never leaves the autotuner without a candidate.
CandidatesCover ==
    tune.phase # "off" /\ tune.cands \notin CandidateLists =>
        /\ tune.cands # <<>>
        /\ \A i \in DOMAIN tune.cands : ValidLayout(tune.cands[i])

\* The autotuner gives up only when no split can pass: the warm-up steps of the
\* trace have a mismatch, every candidate is malformed, or workers panicked; and a
\* trace whose warm-up fails is never replayed in full.
TuneVerdict ==
    /\ tune.phase = "failed" /\ panics = 0 =>
          \/ Mismatches(tune.warmup) # {}
          \/ \A i \in DOMAIN tune.cands : ~ValidLayout(tune.cands[i])
    /\ tune.phase = "final" => Mismatches(tune.warmup) = {}

\* The autotuner as a whole: what it tries and how it ends.
AutotuneSound == CandidatesCover /\ TuneVerdict

\* Every replay returns, panicking workers or not.
ReplayReturns == call = "running" ~> call \in {"ok", "err"}

\* Every autotune ends with a full replay's result or an error.
TuneReturns == tune.phase = "next" ~> (tune.phase = "failed" \/ (tune.phase = "final" /\ call # "running"))

\* Both: nobody who called replay() or the autotuner waits for ever.
ReplaysReturn == ReplayReturns /\ TuneReturns
=============================================================================
