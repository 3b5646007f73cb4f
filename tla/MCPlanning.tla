----------------------------- MODULE MCPlanning ------------------------------
(***************************************************************************)
(* Model-checking instance of the two ways work is divided: a hierarchy    *)
(* into partitions over workers (PartitionPlanning), and the lanes of a    *)
(* trace over replay threads (TraceReplay).  A behaviour is of one part.   *)
(***************************************************************************)
EXTENDS TraceReplay

CONSTANTS Nothing, Modules, JobLists

VARIABLES part, jobs, cur, phase, regions, guard, plan, todo, load, placement, comm,
          bundle, launch

Planning == INSTANCE PartitionPlanning

(* Hierarchies: modules with and without work of their own, memories, an   *)
(* external module, inputs passed down two levels, siblings wired together *)
(* inside an instance-only module, and the topologies a caller may ask     *)
(* for, broken ones included.                                              *)

Leaf1(op) == [op |-> op, args |-> <<>>]

Op2(op) == [op |-> op, args |-> <<Leaf1("Signal"), Leaf1("Lit")>>]

Bare(insts, kinds) ==
    [insts |-> insts, kinds |-> kinds, assigns |-> <<>>, regs |-> <<>>,
     writes |-> <<>>, checks |-> <<>>, mems |-> <<>>, external |-> FALSE]

Ports == <<"Input", "Output", "Wire", "Wire", "Register">>

Wired(name, mod, src, dst) ==
    [name |-> name, mod |-> mod,
     conns |-> <<[port |-> 1, dir |-> "Input", sig |-> src, width |-> 4],
                 [port |-> 2, dir |-> "Output", sig |-> dst, width |-> 2]>>]

Tapped(name, mod, src) ==
    [name |-> name, mod |-> mod,
     conns |-> <<[port |-> 1, dir |-> "Input", sig |-> src, width |-> 4]>>]

Padded(name, mod, pad) ==
    [name |-> name, mod |-> mod,
     conns |-> <<[port |-> 1, dir |-> "Inout", sig |-> pad, width |-> 1]>>]

Reg(width) == [width |-> width, next |-> Op2("Add")]

MCModules ==
    [Stage |-> [Bare(<<>>, Ports) EXCEPT !.regs = <<Reg(4)>>,
                                         !.assigns = <<Leaf1("Signal")>>],
     Comb  |-> [Bare(<<>>, Ports) EXCEPT !.assigns = <<Op2("Xor")>>],
     Ram   |-> [Bare(<<>>, Ports) EXCEPT
                   !.mems = <<[width |-> 2, depth |-> 4]>>,
                   !.writes = <<<<Leaf1("Lit"), Leaf1("Signal"), Op2("Add")>>>>,
                   !.assigns = <<[op |-> "MemRead", args |-> <<Leaf1("Signal")>>]>>],
     Watch |-> [Bare(<<>>, <<"Input", "Register">>) EXCEPT !.regs = <<Reg(1)>>,
                                                           !.checks = <<<<Op2("Ne")>>>>],
     Black |-> [Bare(<<>>, <<"Inout">>) EXCEPT !.external = TRUE],
     Mid   |-> [Bare(<<Wired(1, "Stage", 1, 3), Wired(2, "Comb", 3, 2),
                    Tapped(3, "Watch", 1)>>, Ports)
                   EXCEPT !.checks = <<<<Op2("Eq")>>>>],
     Shell |-> Bare(<<Wired(1, "Comb", 1, 3), Wired(2, "Ram", 3, 2)>>, Ports),
     Nest  |-> Bare(<<Wired(1, "Shell", 1, 2)>>, Ports),
     Chip  |-> [Bare(<<Wired(1, "Mid", 3, 4), Wired(2, "Nest", 5, 2)>>, Ports)
                   EXCEPT !.regs = <<Reg(2)>>, !.assigns = <<Op2("And")>>],
     Pair  |-> Bare(<<Wired(1, "Stage", 1, 3), Wired(2, "Stage", 3, 2)>>, Ports),
     Board |-> [Bare(<<Wired(1, "Shell", 1, 3), Padded(2, "Black", 4),
                       Wired(3, "Mid", 3, 2)>>, Ports)
                   EXCEPT !.kinds[4] = "Inout"]]

Cpu(id) == [id |-> id, gpu |-> FALSE, lanes |-> 1]

Gpu(id) == [id |-> id, gpu |-> TRUE, lanes |-> 1]

Topologies ==
    {<<Cpu(1)>>, <<Cpu(2), Cpu(1)>>, <<Cpu(1), Gpu(2)>>, <<Gpu(1), Gpu(2)>>,
     <<Gpu(3), Cpu(1), Cpu(2)>>,
     <<>>, <<Cpu(1), Cpu(1)>>, <<[Cpu(1) EXCEPT !.lanes = 0]>>}

JobsOf(tops, targets, topos) ==
    {[top |-> t, target |-> n, topo |-> w] :
        t \in tops, n \in targets, w \in topos}

Mixed == JobsOf({"Chip", "Board"}, {2, 4}, {<<Cpu(2), Cpu(1)>>, <<Cpu(1), Gpu(2)>>})

MCJobLists ==
    {<<j>> : j \in JobsOf({"Chip", "Pair", "Board", "Stage"}, 0..7, Topologies)}
    \cup {<<j, k>> : j, k \in Mixed}

NoTraces == {}

\* One job each, for what a comment claims of merging.
MCInputJobs == {<<j>> : j \in JobsOf({"Chip"}, 1..7, {<<Cpu(1)>>})}

-----------------------------------------------------------------------------
(* Traces of three lanes whose steps batch, split and mix signal widths.   *)

In(s, v) == [sig |-> s, vals |-> v]

Ck(i, s, v) == [idx |-> i, sig |-> s, vals |-> v]

\* A batch of inputs, a batch of checks and a wide check.
StepBatch == [inputs |-> <<In("a", <<1, 0, 3>>), In("b", <<0, 1, 1>>), In("w", <<2, 1, 3>>)>>,
              checks |-> <<Ck(0, "out", <<1, 0, 1>>), Ck(1, "acc", <<0, 1, 0>>),
                           Ck(2, "wide", <<2, 2, 0>>)>>]

\* One-limb inputs in the wrong order for a batch, then a wide one.
StepLoose == [inputs |-> <<In("b", <<1, 1, 0>>), In("a", <<0, 1, 0>>), In("w", <<1, 0, 2>>)>>,
              checks |-> <<Ck(5, "acc", <<0, 0, 1>>), Ck(3, "out", <<1, 0, 0>>)>>]

\* One-limb signals that are not adjacent, and an input that keeps its value.
StepGap == [inputs |-> <<In("w", <<3, 2, 0>>), In("a", <<0, 1, 1>>)>>,
            checks |-> <<Ck(1, "out", <<0, 1, 0>>), Ck(4, "wide", <<3, 3, 1>>)>>]

\* A step with no mismatch from the fresh state, and two checks that skip a slot.
StepClean == [inputs |-> <<In("a", <<1, 0, 1>>), In("b", <<0, 0, 1>>)>>,
              checks |-> <<Ck(0, "a", <<1, 0, 1>>), Ck(1, "out", <<1, 0, 1>>)>>]

MCTraces == {<<StepBatch, StepLoose>>, <<StepClean, StepGap>>}

MCAdvice ==
    {adv \in AllAdvice : /\ adv.affinity = "none" \/ adv.suitability = "none"
                         /\ adv.mixedWorth \/ adv.affinity = "MixedScalarSimdCandidate"}

On(b, n) == [backend |-> b, lanes |-> n]

MCLayouts == {<<On("PackedCpu", 3)>>, <<On("Scalar", 3)>>, <<On("Scalar", 1), On("SimdCpu", 2)>>,
              <<On("PackedCpu", 2), On("Scalar", 1)>>,
              <<On("PackedCpu", 1), On("PackedCpu", 1), On("SimdCpu", 1)>>}

\* No list (the candidates are built), a list with a malformed split.
MCCandidateLists == {<<>>, << <<On("Scalar", 2)>>, <<On("Scalar", 2), On("PackedCpu", 1)>> >>,
                     << <<On("Scalar", 0), On("PackedCpu", 3)>>, <<On("Scalar", 4)>> >>}

-----------------------------------------------------------------------------
planningVars == <<jobs, cur, phase, regions, guard, plan, todo, load, placement, comm,
                  bundle, launch>>
allVars == <<part, vars, planningVars>>

MCInit ==
    \/ /\ part = "planning" /\ Planning!Init
       /\ trace = <<>> /\ max = 0 /\ accInit = NoValue /\ runner = <<>> /\ prefix = 0
       /\ call = "idle" /\ report = EmptyReport /\ calls = 0 /\ panics = 0 /\ tune = NotTuning
    \/ /\ part = "replay" /\ Init
       /\ jobs = <<>> /\ cur = 1 /\ phase = "start" /\ regions = <<>> /\ guard = 0
       /\ plan = <<>> /\ todo = <<>> /\ load = <<>> /\ placement = <<>> /\ comm = <<>>
       /\ bundle = Nothing /\ launch = Nothing

PlanningStep == part = "planning" /\ Planning!Next /\ UNCHANGED <<part, vars>>

ReplayStep == part = "replay" /\ Next /\ UNCHANGED <<part, planningVars>>

MCSpec == MCInit /\ [][PlanningStep \/ ReplayStep]_allVars /\ Fairness

(* plan_runtime_partitions: a finished plan is a partition of the work the *)
(* caller asked to have cut, and its merge leaves only what the code       *)
(* classifies as stable to be exchanged.                                   *)
PlansSound == part = "planning" => Planning!PlansSound

(* plan_runtime_partition_placement: every partition where it may be,      *)
(* evenly, and the traffic accounted for as by the communication plan.     *)
PlacementSound == part = "planning" => Planning!PlacementSound

(* RuntimePartitionBundle and plan_runtime_partition_launch: plans of      *)
(* different jobs may be bundled together; what launches is consistent,    *)
(* and plans that belong together always launch.                           *)
LaunchSound == part = "planning" => Planning!LaunchSound

(* BoundaryLegality::RegisterStable: "the crossing value is stable for the *)
(* whole cycle (register output or top-level input)".                      *)
ExchangeHoldsStill == part = "planning" => Planning!ExchangeHoldsStill

(* ThreadedReplayRunner::replay: whatever the split of the lanes over      *)
(* workers and engines, and whoever panicked before, the report is exactly *)
(* what the trace means.                                                   *)
ReplayReportExact == part = "replay" => ReportExact
==============================================================================
