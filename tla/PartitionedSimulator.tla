------------------------ MODULE PartitionedSimulator -------------------------
(***************************************************************************)
(* PartitionedSimulator of rrtl-sim-ir: a packed program cut into groups,  *)
(* each a program of its own that is run by its own packed engine, with    *)
(* the values that cross a cut copied between the groups.  It runs beside  *)
(* the engine of the whole program, its oracle.  Designs are flat: the     *)
(* assignments of the instances and of their port connections are in       *)
(* d.assign, and Path says which instance a signal belongs to.             *)
(***************************************************************************)
EXTENDS TickEngines

CONSTANTS Order,        \* the signals in the order of their indices
          Path,         \* the instance path of each signal
          Strategies    \* how the program is cut, and the calls then made

Top == <<"Top">>

is_register_or_input(s) == packed_signal_kind(s) \in {"Reg", "Input"}
------------------------------------------------------------------------------
(* Slicing.                                                                *)

\* the longest owned path that leads to the instance; the earliest group on a tie
instance_path_owner(path, groups) ==
    LET prefixes == {<<g, p>> \in (DOMAIN groups) \X UNION {groups[g] : g \in DOMAIN groups} :
                       p \in groups[g] /\ IsPrefix(p, path)}
        longest == {c \in prefixes : \A o \in prefixes : Len(o[2]) <= Len(c[2])}
    IN  IF prefixes = {} THEN 0 ELSE Min({c[1] : c \in longest})

\* what the operations that produce s read
collect_op_reads(d, s) ==
    UNION {expr_signal_deps(d.assign[k].e) : k \in {k \in DOMAIN d.assign : d.assign[k].dst = s}}
    \cup (IF s \in Regs THEN expr_signal_deps(d.next[s])
                             \cup (IF d.reset[s].kind = "none" THEN {} ELSE {d.reset[s].sig})
                        ELSE {})
    \cup (IF s = Mem THEN UNION {{d.writes[k].en, d.writes[k].data} : k \in DOMAIN d.writes} ELSE {})

Reads(d, present) == UNION {collect_op_reads(d, s) : s \in present}

\* all that feeds an observed signal, through wires and registers
RECURSIVE cone_of_influence(_, _)
cone_of_influence(d, seen) ==
    IF Reads(d, seen) \subseteq seen THEN seen ELSE cone_of_influence(d, seen \cup Reads(d, seen))

\* the program of the group that computes the signals of present
slice_present(d, present) ==
    [d EXCEPT !.assign = SelectSeq(d.assign, LAMBDA a : a.dst \in present),
              !.next = [s \in Regs |-> IF s \in present THEN d.next[s] ELSE [op |-> "copy", a |-> s, b |-> s]],
              !.reset = [s \in Regs |-> IF s \in present THEN d.reset[s] ELSE NoReset],
              !.writes = IF Mem \in present THEN d.writes ELSE <<>>]

boundary_inputs(d, present) == Reads(d, present) \ (present \cup {Mem})
------------------------------------------------------------------------------
(* Register-cone partitioning.                                             *)

CombDef(d, s) == \E k \in DOMAIN d.assign : d.assign[k].dst = s

\* the wires behind the seed, up to registers and undriven inputs
RECURSIVE build_cone(_, _)
build_cone(d, seed) ==
    LET wires == {s \in seed : CombDef(d, s)}
        more == UNION {collect_op_reads(d, s) : s \in wires} \ seed
    IN  IF more = {} THEN wires ELSE build_cone(d, seed \cup more)

Index(s) == CHOOSE k \in DOMAIN Order : Order[k] = s

\* registers and outputs with their cones, the largest cone first
sinks(d) ==
    LET sink == {s \in Signals : s \in Regs \/ packed_signal_kind(s) = "Output"}
    IN  SetToSortSeq({[owned |-> s, cone |-> build_cone(d, collect_op_reads(d, s))] : s \in sink},
                     LAMBDA x, y : \/ Cardinality(x.cone) > Cardinality(y.cone)
                                   \/ /\ Cardinality(x.cone) = Cardinality(y.cone)
                                      /\ Index(x.owned) < Index(y.owned))

\* each sink and its cone to the lightest group; the inputs to the first
partition_registers_balanced(d, n) ==
    LET start == [g \in 1..n |-> [cost |-> 0,
                                  present |-> IF g = 1 THEN {s \in Signals : packed_signal_kind(s) = "Input"} ELSE {}]]
        place(st, sink) ==
            LET g == CHOOSE g \in 1..n : \A h \in 1..n : st[g].cost < st[h].cost \/ (st[g].cost = st[h].cost /\ g <= h)
            IN  [st EXCEPT ![g] = [cost |-> @.cost + Cardinality(sink.cone) + 1,
                                   present |-> @.present \cup sink.cone \cup {sink.owned}]]
        placed == FoldLeft(place, start, sinks(d))
    IN  [g \in 1..n |-> placed[g].present]
------------------------------------------------------------------------------
(* Building the groups, their routes and their levels.                     *)

PresentSets(d, strategy) ==
    CASE strategy.how = "paths"   ->
            [g \in DOMAIN strategy.groups |-> {s \in Signals : instance_path_owner(Path[s], strategy.groups) = g}]
      [] strategy.how = "cones"   -> partition_registers_balanced(d, strategy.n)
      [] strategy.how = "observe" -> <<cone_of_influence(d, strategy.signals)>>

\* of the groups that compute s, the one the routes and the handles name
owner_of(present, s) == Max({g \in DOMAIN present : s \in present[g]})

\* Mutant: outputs are taken for stable too.
stable_but_wires(s) == packed_signal_kind(s) # "Wire"

stable(s) == is_register_or_input(s)

routes(d, present) ==
    UNION {{[to |-> g, from |-> owner_of(present, s), sig |-> s, stable |-> stable(s)] :
              s \in boundary_inputs(d, present[g])} : g \in DOMAIN present}

\* Kahn's levels; <<{}>> at the end stands for a cycle
RECURSIVE topological_group_levels(_, _)
topological_group_levels(edges, left) ==
    LET ready == {g \in left : \A e \in edges : e.to = g => e.from \notin left}
    IN  IF left = {} \/ ready = {} THEN IF left = {} THEN <<>> ELSE <<{}>>
        ELSE <<ready>> \o topological_group_levels(edges, left \ ready)

Rejected == [ok |-> FALSE]

HasMemory(d) == d.writes # <<>> \/ Mem \in Reads(d, Signals \ {Mem})

from_slices(d, present) ==
    LET rs == routes(d, present)
        levels == topological_group_levels({r \in rs : ~r.stable}, DOMAIN present)
    IN  IF \/ \E g \in DOMAIN present : Mem \in Reads(d, present[g]) \ present[g]
           \/ \E g \in DOMAIN present : \E s \in boundary_inputs(d, present[g]) :
                 \A h \in DOMAIN present : s \notin present[h]
           \/ {} \in {levels[k] : k \in DOMAIN levels}
        THEN Rejected
        ELSE [ok |-> TRUE, present |-> present, routes |-> rs, levels |-> levels,
              slices |-> [g \in DOMAIN present |-> slice_present(d, present[g])]]

\* register cones are refused a design with a memory
Build(d, strategy) ==
    [how |-> strategy.how, calls |-> strategy.calls]
    @@ IF strategy.how = "cones" /\ HasMemory(d) THEN Rejected
       ELSE from_slices(d, PresentSets(d, strategy))
------------------------------------------------------------------------------
(* The calls.                                                              *)

\* meant is the state of the whole program's engine, held that of each group

VARIABLES built,     \* the groups' programs, routes and levels
          snap       \* activity_snap, <<>> before a group's first capture

vars == <<tickVars, built, snap>>

Groups == DOMAIN built.present

exchange(ps, rs) == [g \in Groups |-> [r \in {r.sig : r \in {r \in rs : r.to = g}} |->
                       ps[(CHOOSE q \in rs : q.to = g /\ q.sig = r).from][r]] @@ ps[g]]

StableRoutes == {r \in built.routes : r.stable}

CombRoutesInto(level) == {r \in built.routes : ~r.stable /\ r.to \in level}

eval_groups(gs, ps) == [g \in Groups |-> IF g \in gs THEN eval_combinational(built.slices[g], ps[g]) ELSE ps[g]]

\* Mutant: the stable values are left to the levels' exchange.
eval_partitions_unexchanged(ps) ==
    FoldLeft(LAMBDA q, level : eval_groups(level, exchange(q, CombRoutesInto(level))), ps, built.levels)

\* stable values once, then level by level
eval_partitions(ps) ==
    FoldLeft(LAMBDA q, level : eval_groups(level, exchange(q, CombRoutesInto(level))),
             exchange(ps, StableRoutes), built.levels)

tick_groups(gs, ps) ==
    [g \in Groups |-> IF g \in gs THEN tick_from_evaluated_no_post_eval(built.slices[g], ps[g], Clocks) ELSE ps[g]]

\* the input and register values of a group, boundary inputs included
group_activity_values(g, v) ==
    [s \in {s \in built.present[g] : is_register_or_input(s)} \cup boundary_inputs(design, built.present[g]) |-> v[s]]

PartitionInit ==
    /\ engine = "partitioned"
    /\ design \in DesignsOf("partitioned")
    /\ \E strategy \in Strategies : built = Build(design, strategy)
    /\ meant = eval_combinational(design, Zero)
    /\ held = IF built.ok THEN [g \in Groups |-> eval_combinational(built.slices[g], Zero)] ELSE <<>>
    /\ snap = IF built.ok THEN [g \in Groups |-> <<>>] ELSE <<>>
    /\ fresh = FALSE

\* a top-level input that a group computes with; its group alone is evaluated
set_signal ==
    \E s \in Inputs, b \in 0..1 :
       /\ built.ok
       /\ \E g \in Groups : s \in built.present[g]
       /\ meant' = eval_combinational(design, [meant EXCEPT ![s] = b])
       /\ LET g == owner_of(built.present, s)
          IN  held' = [held EXCEPT ![g] = eval_combinational(built.slices[g], [@ EXCEPT ![s] = b])]
       /\ fresh' = FALSE
       /\ UNCHANGED <<engine, design, built, snap>>

eval_all ==
    /\ built.ok /\ "eval" \in built.calls
    /\ meant' = eval_combinational(design, meant)
    /\ held' = eval_partitions(held)
    /\ fresh' = TRUE
    /\ UNCHANGED <<engine, design, built, snap>>

tick ==
    /\ built.ok /\ "tick" \in built.calls
    /\ meant' = tick_clocked(design, meant, Clocks)
    /\ held' = eval_partitions(tick_groups(Groups, eval_partitions(held)))
    /\ fresh' = TRUE
    /\ UNCHANGED <<engine, design, built, snap>>

\* Mutant: the snapshot is taken again after the commit.
activity_snapshot_late(before, after, active) ==
    [g \in Groups |-> IF g \in active THEN group_activity_values(g, after[g]) ELSE snap[g]]

activity_snapshot(before, after, active) ==
    [g \in Groups |-> IF g \in active THEN group_activity_values(g, before[g]) ELSE snap[g]]

\* groups that committed, and the readers of such groups
resettle(active) == active \cup {r.to : r \in {r \in built.routes : r.from \in active}}

tick_activity ==
    /\ built.ok /\ "activity" \in built.calls
    /\ LET before == exchange(held, StableRoutes)
           active == {g \in Groups : \/ built.routes # StableRoutes
                                     \/ snap[g] = <<>>
                                     \/ snap[g] # group_activity_values(g, before[g])}
           after  == exchange(tick_groups(active, eval_groups(active, before)), StableRoutes)
       IN  /\ held' = eval_groups(resettle(active), after)
           /\ snap' = activity_snapshot(before, after, active)
    /\ meant' = tick_clocked(design, meant, Clocks)
    /\ fresh' = TRUE
    /\ UNCHANGED <<engine, design, built>>

PartitionNext == set_signal \/ eval_all \/ tick \/ tick_activity

------------------------------------------------------------------------------
\* get_signal: the top-level signals, from the group the handle names
Observable == {s \in Signals \ {Mem} : Path[s] = Top /\ \E g \in Groups : s \in built.present[g]}

(***************************************************************************)
(* "Results are bit-identical to running the whole program in a single     *)
(* PackedSimulator": after a call that evaluates, every top-level signal a *)
(* group computes reads the same from the groups and from the whole.       *)
(***************************************************************************)
PartitionedAgrees ==
    built.ok /\ fresh => \A s \in Observable : held[owner_of(built.present, s)][s] = meant[s]

(***************************************************************************)
(* Every copy of a replicated wire has one value: a group that computes a  *)
(* wire of another group's cone never disagrees with it.                   *)
(***************************************************************************)
ReplicasAgree ==
    built.ok /\ fresh =>
        \A g, h \in Groups : \A s \in (built.present[g] \cap built.present[h]) \ {Mem} : held[g][s] = held[h][s]

(***************************************************************************)
(* A cut program is the whole program, in every group that shows a part.   *)
(***************************************************************************)
PartitionedSound == PartitionedAgrees /\ ReplicasAgree
==============================================================================
