-------------------------- MODULE PartitionPlanning --------------------------
(***************************************************************************)
(* The structural partition planner of rrtl-runtime: a compiled hierarchy  *)
(* is cut into regions, the regions become partitions with boundary        *)
(* signals, the partitions are placed on workers, cross-worker boundaries  *)
(* become routes, and the three plans are bundled and turned into launch   *)
(* payloads.  A design may be planned several times (jobs), and a caller   *)
(* may bundle plans of different jobs: the API takes the three plans by    *)
(* value.                                                                  *)
(*                                                                         *)
(* A design d is [top, mods]; mods maps a module name to                   *)
(*   [insts, kinds, assigns, regs, writes, checks, mems, external]         *)
(* where insts is a sequence of [name, mod, conns], a connection is        *)
(* [port, dir, sig, width], kinds gives the kind of every signal, and the  *)
(* rest is the module's own work.  An expression is [op, args].            *)
(* Instance names, ports, signals and ids are naturals in the order of     *)
(* the strings they stand for.                                             *)
(***************************************************************************)
EXTENDS Integers, FiniteSets, SequencesExt

CONSTANTS
    Modules,      \* the compiled modules, by name
    JobLists,     \* sequences of planning jobs [top, target, topo]
    Nothing       \* no plan, no partition

VARIABLES
    jobs,         \* the planning jobs, in the order they run
    cur,          \* the job being planned
    phase,        \* where that job stands
    regions,      \* Vec<PartitionRegion> while the hierarchy is cut
    guard,        \* rounds of the cutting loop
    plan,         \* per job: RuntimePartitionPlan
    todo,         \* ranked partitions still to place
    load,         \* PlacementWorkerLoad per worker of the job's topology
    placement,    \* per job: RuntimePartitionPlacementPlan
    comm,         \* per job: RuntimePartitionCommunicationPlan
    bundle,       \* RuntimePartitionBundle
    launch        \* RuntimePartitionLaunchPlan

vars == <<jobs, cur, phase, regions, guard, plan, todo, load,
          placement, comm, bundle, launch>>

DesignOf(job) == [top |-> job.top, mods |-> Modules]

Error(code) == [error |-> code]

Ok(result) == result # Nothing /\ "error" \notin DOMAIN result

SumOf(S(_), seq) == FoldLeft(LAMBDA acc, x : acc + S(x), 0, seq)

-----------------------------------------------------------------------------
(* Costs.                                                                  *)

ZeroCost == [ops |-> 0, state |-> 0, mem |-> 0, boundary |-> 0]

add_partition_cost(a, b) == [f \in DOMAIN a |-> a[f] + b[f]]

partition_split_score(cost) == cost.ops + cost.state + cost.mem

RECURSIVE expr_compute_ops(_)
expr_compute_ops(e) ==
    (IF e.op = "MemRead" THEN 2 ELSE 1) + SumOf(expr_compute_ops, e.args)

OwnCost(module) ==
    LET reg(r)   == 1 + expr_compute_ops(r.next)
        write(w) == 1 + SumOf(expr_compute_ops, w)
    IN  [ops      |-> SumOf(expr_compute_ops, module.assigns)
                      + SumOf(reg, module.regs)
                      + SumOf(write, module.writes)
                      + SumOf(LAMBDA c : SumOf(expr_compute_ops, c), module.checks),
         state    |-> SumOf(LAMBDA r : r.width, module.regs),
         mem      |-> SumOf(LAMBDA s : s.width * s.depth, module.mems),
         boundary |-> 0]

RECURSIVE module_partition_cost(_, _, _)
module_partition_cost(d, name, include_instances) ==
    LET module == d.mods[name]
    IN  IF include_instances
        THEN FoldLeft(LAMBDA acc, i :
                 add_partition_cost(acc, module_partition_cost(d, i.mod, TRUE)),
                 OwnCost(module), module.insts)
        ELSE OwnCost(module)

\* Mutant: a child cut into a region of its own still counts in its parent.
region_partition_cost_counts_cut(d, region) ==
    module_partition_cost(d, region.mod, TRUE)

region_partition_cost(d, region) ==
    FoldLeft(LAMBDA acc, i :
        IF i.name \in region.cut THEN acc
        ELSE add_partition_cost(acc, module_partition_cost(d, i.mod, TRUE)),
        module_partition_cost(d, region.mod, FALSE), d.mods[region.mod].insts)

-----------------------------------------------------------------------------
(* Cutting the hierarchy into regions.                                     *)

uncut_child_instances(d, region) ==
    SelectSeq(d.mods[region.mod].insts, LAMBDA i : i.name \notin region.cut)

module_has_local_partition_work(module) ==
    \/ module.assigns # <<>>
    \/ module.regs # <<>>
    \/ module.writes # <<>>
    \/ module.checks # <<>>
    \/ module.insts = <<>>

partition_region_has_remaining_work(d, region) ==
    \/ module_has_local_partition_work(d.mods[region.mod])
    \/ uncut_child_instances(d, region) # <<>>

\* The heaviest region that still has children to cut, the first among equals.
best_partition_split_candidate(d, regs) ==
    LET Splittable == {i \in DOMAIN regs :
                          /\ ~d.mods[regs[i].mod].external
                          /\ uncut_child_instances(d, regs[i]) # <<>>}
        score(i) == partition_split_score(region_partition_cost(d, regs[i]))
        Best == {i \in Splittable : \A k \in Splittable :
                    score(i) > score(k) \/ (score(i) = score(k) /\ i <= k)}
    IN  Best

\* Mutant: an instance-only module always frees its own slot.
partition_split_child_count_greedy(local_work, uncut, slots) ==
    IF ~local_work THEN uncut ELSE IF slots < uncut THEN slots ELSE uncut

partition_split_child_count(local_work, uncut, slots) ==
    IF ~local_work /\ uncut <= slots + 1
    THEN uncut
    ELSE IF slots < uncut THEN slots ELSE uncut

\* The names of the `count` heaviest uncut children, earlier ones first among
\* equals.
select_partition_split_children(d, uncut, count) ==
    LET score(k) == partition_split_score(
                        module_partition_cost(d, uncut[k].mod, TRUE))
        before(k, n) == score(k) > score(n) \/ (score(k) = score(n) /\ k < n)
        rank(k) == Cardinality({n \in DOMAIN uncut : before(n, k)})
    IN  {uncut[k].name : k \in {n \in DOMAIN uncut : rank(n) < count}}

split_partition_region(d, regs, index, target) ==
    LET region == regs[index]
        uncut  == uncut_child_instances(d, region)
        count  == partition_split_child_count(
                      module_has_local_partition_work(d.mods[region.mod]),
                      Len(uncut), target - Len(regs))
        chosen == select_partition_split_children(d, uncut, count)
        Child(i) == [mod |-> i.mod, path |-> Append(region.path, i.name),
                     cut |-> {}]
        cutMore  == [region EXCEPT !.cut = @ \cup chosen]
        children == SelectSeq(uncut, LAMBDA i : i.name \in chosen)
        parent   == IF partition_region_has_remaining_work(d, cutMore)
                    THEN <<cutMore>> ELSE <<>>
    IN  SubSeq(regs, 1, index - 1) \o parent
        \o [k \in DOMAIN children |-> Child(children[k])]
        \o SubSeq(regs, index + 1, Len(regs))

RECURSIVE PathLess(_, _)
PathLess(p, q) ==
    /\ q # <<>>
    /\ \/ p = <<>>
       \/ Head(p) < Head(q)
       \/ Head(p) = Head(q) /\ PathLess(Tail(p), Tail(q))

SortedBy(Less(_, _), seq) ==
    LET rank(k) == Cardinality({n \in DOMAIN seq :
                       Less(seq[n], seq[k]) \/
                       (~Less(seq[k], seq[n]) /\ n < k)}) + 1
    IN  [r \in DOMAIN seq |-> seq[CHOOSE k \in DOMAIN seq : rank(k) = r]]

-----------------------------------------------------------------------------
(* Partitions and boundaries.  Partition ids are the positions of the      *)
(* sorted regions.                                                         *)

build_partition(d, region, id) ==
    [id |-> id, mod |-> region.mod, path |-> region.path,
     external |-> d.mods[region.mod].external,
     cost |-> region_partition_cost(d, region)]

RECURSIVE module_at_instance_path(_, _, _)
module_at_instance_path(d, name, path) ==
    IF path = <<>> THEN name
    ELSE LET insts == d.mods[name].insts
             k == CHOOSE n \in DOMAIN insts : insts[n].name = Head(path)
         IN  module_at_instance_path(d, insts[k].mod, Tail(path))

InstanceAt(d, path) ==
    LET insts == d.mods[module_at_instance_path(d, d.top, Front(path))].insts
    IN  insts[CHOOSE n \in DOMAIN insts : insts[n].name = Last(path)]

emit_partition_boundaries_for_instance(d, region, id, parent) ==
    LET kinds == d.mods[module_at_instance_path(d, d.top, Front(region.path))].kinds
        Known == {parent} \ {Nothing}
        Sides(dir) ==
            CASE dir = "Input"  -> [producer |-> parent, consumers |-> {id}]
              [] dir = "Output" -> [producer |-> id, consumers |-> Known]
              [] dir = "Inout"  -> [producer |-> Nothing,
                                    consumers |-> {id} \cup Known]
        Boundary(c) ==
            LET sides == Sides(c.dir)
                count == IF sides.consumers = {} THEN 1
                         ELSE Cardinality(sides.consumers)
            IN  [path |-> region.path, port |-> c.port, sig |-> c.sig,
                 kind |-> kinds[c.sig], width |-> c.width,
                 producer |-> sides.producer, consumers |-> sides.consumers,
                 bits |-> c.width * count]
        conns == InstanceAt(d, region.path).conns
    IN  [k \in DOMAIN conns |-> Boundary(conns[k])]

\* The producer or consumer on the parent's side is known only when the parent
\* instance is itself a region.
partition_boundaries(d, regs) ==
    LET parentOf(r) ==
            LET at == {i \in DOMAIN regs : regs[i].path = Front(r.path)}
            IN  IF at = {} THEN Nothing ELSE CHOOSE i \in at : TRUE
        emitted == FoldLeft(LAMBDA acc, i :
            IF regs[i].path = <<>> THEN acc
            ELSE acc \o emit_partition_boundaries_for_instance(
                            d, regs[i], i, parentOf(regs[i])),
            <<>>, [i \in DOMAIN regs |-> i])
        less(a, b) == \/ PathLess(a.path, b.path)
                      \/ a.path = b.path /\ a.port < b.port
                      \/ a.path = b.path /\ a.port = b.port /\ a.sig < b.sig
    IN  SortedBy(less, emitted)

total_partition_cost(partitions, boundaries) ==
    FoldLeft(LAMBDA acc, b : [acc EXCEPT !.boundary = @ + b.bits],
        FoldLeft(LAMBDA acc, p : add_partition_cost(acc, p.cost), ZeroCost,
                 partitions),
        boundaries)

\* What the planner reports, as <<code, where>>; each comes with the
\* recommendation of its kind.
analyze_partition_plan(partitions, boundaries, total, target) ==
    LET Ids == DOMAIN partitions
        ops(i) == partitions[i].cost.ops
        all == SumOf(LAMBDA p : p.cost.ops, partitions)
        heavy == {i \in Ids : \A k \in Ids : ops(k) < ops(i)
                                             \/ (ops(k) = ops(i) /\ k <= i)}
        local == total.state + total.mem
        high == local > 0 /\ total.boundary > local
    IN  {<<"TargetUnderfilled", Nothing>> : x \in {Len(partitions)} \cap 0..(target - 1)}
        \cup {<<"PartitionImbalance", i>> : i \in
                 {h \in heavy : Len(partitions) >= 2 /\ all > 0
                                /\ ops(h) * Len(partitions) > all * 2}}
        \cup {<<"HighBoundaryCost", b>> : b \in
                 {k \in DOMAIN boundaries : boundaries[k].width >= 1024 \/ high}}
        \cup {<<"ExternalModuleOpaque", i>> : i \in {k \in Ids : partitions[k].external}}
        \cup {<<"EmptyPartition", i>> : i \in
                 {k \in Ids : ~partitions[k].external
                              /\ partition_split_score(partitions[k].cost) = 0}}

PlanOf(job, regs) ==
    LET partitions == [i \in DOMAIN regs |-> build_partition(DesignOf(job), regs[i], i)]
        boundaries == partition_boundaries(DesignOf(job), regs)
        total      == total_partition_cost(partitions, boundaries)
    IN  [mod |-> job.top, partitions |-> partitions,
         boundaries |-> boundaries, total |-> total,
         diagnostics |-> analyze_partition_plan(partitions, boundaries, total,
                                                job.target)]

-----------------------------------------------------------------------------
(* Which boundaries may be cut under one barrier per cycle.                *)

classify_partition_boundary(b) ==
    IF b.kind \in {"Register", "Input"}
    THEN "RegisterStable" ELSE "CombinationalUnsafe"

RECURSIVE FindRoot(_, _)
FindRoot(parent, x) == IF parent[x] = x THEN x ELSE FindRoot(parent, parent[x])

Union(parent, a, b) ==
    LET ra == FindRoot(parent, a)
        rb == FindRoot(parent, b)
    IN  IF ra < rb THEN [parent EXCEPT ![rb] = ra]
        ELSE [parent EXCEPT ![ra] = rb]

\* Mutant: only the roots' own entry is followed once when groups are read.
partition_merge_components_shallow(p) ==
    LET merge(parent, b) ==
            IF \/ classify_partition_boundary(b) # "CombinationalUnsafe"
               \/ b.producer = Nothing
            THEN parent
            ELSE FoldLeft(LAMBDA acc, c : [acc EXCEPT ![c] = acc[b.producer]],
                          parent, SetToSeq(b.consumers))
        parent == FoldLeft(merge, [i \in DOMAIN p.partitions |-> i], p.boundaries)
    IN  {{i \in DOMAIN parent : parent[i] = r} : r \in Range(parent)}

\* The groups of partitions joined by combinational boundaries.
partition_merge_components(p) ==
    LET merge(parent, b) ==
            IF \/ classify_partition_boundary(b) # "CombinationalUnsafe"
               \/ b.producer = Nothing
            THEN parent
            ELSE FoldLeft(LAMBDA acc, c : Union(acc, b.producer, c),
                          parent, SetToSeq(b.consumers))
        parent == FoldLeft(merge, [i \in DOMAIN p.partitions |-> i], p.boundaries)
        root(i) == FindRoot(parent, i)
    IN  {{i \in DOMAIN parent : root(i) = root(r)} : r \in DOMAIN parent}

legal_partition_merge_groups(p) ==
    {g \in partition_merge_components(p) : Cardinality(g) > 1}

legalize_partition_plan(p) ==
    LET groups == partition_merge_components(p)
        groupOf(i) == CHOOSE g \in groups : i \in g
        cost(g) == FoldLeft(LAMBDA acc, q :
                       IF q.id \in g THEN add_partition_cost(acc, q.cost) ELSE acc,
                       ZeroCost, p.partitions)
    IN  [groups |-> {[members |-> g, cost |-> cost(g)] : g \in groups},
         exchange |-> {k \in DOMAIN p.boundaries :
             LET b == p.boundaries[k] IN
             /\ b.producer # Nothing
             /\ \E c \in b.consumers : groupOf(c) # groupOf(b.producer)}]

-----------------------------------------------------------------------------
(* Placement.                                                              *)

validate_partition_placement_topology(topo) ==
    /\ topo # <<>>
    /\ \A k \in DOMAIN topo : topo[k].lanes > 0
    /\ \A k, n \in DOMAIN topo : topo[k].id = topo[n].id => k = n

partition_gpu_hostile(p) == p.external \/ p.cost.mem > 0

HasCpu(topo) == \E k \in DOMAIN topo : ~topo[k].gpu

HasGpu(topo) == \E k \in DOMAIN topo : topo[k].gpu

\* Mutant: only external partitions stay off the GPU.
placement_worker_compatible_ignores_memory(topo, k, p) ==
    ~(HasCpu(topo) /\ topo[k].gpu /\ p.external)

placement_worker_compatible(topo, k, p) ==
    ~(HasCpu(topo) /\ topo[k].gpu /\ partition_gpu_hostile(p))

\* Mutant: the worker with the fewest partitions, whatever they cost.
best_placement_worker_by_count(topo, loads, p) ==
    LET Fit == {k \in DOMAIN topo : placement_worker_compatible(topo, k, p)}
    IN  {k \in Fit : \A n \in Fit :
            \/ Len(loads[k].parts) < Len(loads[n].parts)
            \/ Len(loads[k].parts) = Len(loads[n].parts) /\ topo[k].id <= topo[n].id}

\* The least loaded compatible worker; fewer partitions, then the smaller id,
\* break ties.
best_placement_worker(topo, loads, p) ==
    LET Fit == {k \in DOMAIN topo : placement_worker_compatible(topo, k, p)}
        score(k) == partition_split_score(loads[k].cost)
        before(k, n) ==
            \/ score(k) < score(n)
            \/ /\ score(k) = score(n)
               /\ \/ Len(loads[k].parts) < Len(loads[n].parts)
                  \/ Len(loads[k].parts) = Len(loads[n].parts)
                     /\ topo[k].id <= topo[n].id
    IN  {k \in Fit : \A n \in Fit : before(k, n)}

RankedPartitions(p) ==
    LET heavier(a, b) ==
            LET sa == partition_split_score(a.cost)
                sb == partition_split_score(b.cost)
            IN  sa > sb \/ (sa = sb /\ a.id < b.id)
    IN  SortedBy(heavier, p.partitions)

\* The <<boundary, consumer>> pairs of the boundaries with a known producer.
BoundaryPairs(p) ==
    UNION {{<<k, c>> : c \in p.boundaries[k].consumers} :
           k \in {b \in DOMAIN p.boundaries : p.boundaries[b].producer # Nothing}}

\* The pairs whose producer and consumer are on different workers.
Crossings(p, assign) ==
    {x \in BoundaryPairs(p) : assign[p.boundaries[x[1]].producer] # assign[x[2]]}

CrossingBits(p, xs) ==
    SumOf(LAMBDA x : p.boundaries[x[1]].width, SetToSeq(xs))

account_placement_boundary_traffic(p, topo, assign) ==
    LET xs == Crossings(p, assign)
        from(k) == {x \in xs : assign[p.boundaries[x[1]].producer] = topo[k].id}
        to(k)   == {x \in xs : assign[x[2]] = topo[k].id}
        local   == p.total.state + p.total.mem
        high    == local > 0 /\ CrossingBits(p, xs) > local
    IN  [outbound |-> [k \in DOMAIN topo |-> CrossingBits(p, from(k))],
         inbound  |-> [k \in DOMAIN topo |-> CrossingBits(p, to(k))],
         diagnostics |->
             {<<"HighCrossWorkerBoundaryTraffic", x[1]>> : x \in
                 {y \in xs : p.boundaries[y[1]].width >= 1024 \/ high}}]

analyze_placement_worker_balance(p, topo, loads) ==
    LET score(k) == partition_split_score(loads[k].cost)
        W == DOMAIN topo
        total == SumOf(LAMBDA l : partition_split_score(l.cost), loads)
        heavy == {k \in W : \A n \in W : score(n) < score(k)
                                         \/ (score(n) = score(k) /\ n <= k)}
    IN  {<<"UnderProvisionedWorkers", Nothing>> :
            x \in {Len(topo)} \cap 0..(Len(p.partitions) - 1)}
        \cup {<<"WorkerImbalance", topo[k].id>> : k \in
                 {h \in heavy : Len(topo) >= 2 /\ total > 0
                                /\ score(h) * Len(topo) > total * 2}}

AssignmentOf(topo, loads) ==
    LET placed == UNION {Range(loads[k].parts) : k \in DOMAIN topo}
    IN  [i \in placed |-> topo[CHOOSE k \in DOMAIN topo :
                                   i \in Range(loads[k].parts)].id]

PlacementOf(p, topo, loads) ==
    LET assign  == AssignmentOf(topo, loads)
        traffic == account_placement_boundary_traffic(p, topo, assign)
    IN  [mod |-> p.mod, topo |-> topo, assign |-> assign, loads |-> loads,
         outbound |-> traffic.outbound, inbound |-> traffic.inbound,
         diagnostics |->
             {<<"CpuFallback", i>> : i \in
                 {k \in DOMAIN p.partitions :
                     HasCpu(topo) /\ HasGpu(topo)
                     /\ partition_gpu_hostile(p.partitions[k])}}
             \cup traffic.diagnostics
             \cup analyze_placement_worker_balance(p, topo, loads)]

-----------------------------------------------------------------------------
(* Communication, bundle and launch.                                       *)

RouteOf(p, assign, x) ==
    LET b == p.boundaries[x[1]]
    IN  [boundary |-> x[1], producer |-> b.producer, consumer |-> x[2],
         from |-> assign[b.producer], to |-> assign[x[2]], bits |-> b.width]

\* Mutant: a route is emitted for co-located partitions as well.
PlanRoutes_all(p, assign) ==
    SetToSeq({RouteOf(p, assign, x) : x \in BoundaryPairs(p)})

\* Mutant: only routes to a higher-numbered worker are kept.
PlanRoutes_forward(p, assign) ==
    SetToSeq({r \in {RouteOf(p, assign, x) : x \in BoundaryPairs(p)} : r.from < r.to})

\* Routes in the order of boundary, producer worker, consumer worker, consumer.
PlanRoutes(p, assign) ==
    LET less(r, s) == PathLess(<<r.boundary, r.from, r.to, r.consumer>>,
                               <<s.boundary, s.from, s.to, s.consumer>>)
    IN  SetToSortSeq({r \in {RouteOf(p, assign, x) : x \in BoundaryPairs(p)} :
                         r.from # r.to}, less)

RoutesWhere(routes, Test(_)) == SetToSortSeq({k \in DOMAIN routes : Test(routes[k])}, <)

BitsOf(routes, indexes) == SumOf(LAMBDA k : routes[k].bits, indexes)

communication_worker_summaries(topo, routes) ==
    [k \in DOMAIN topo |->
        LET out == RoutesWhere(routes, LAMBDA r : r.from = topo[k].id)
            inn == RoutesWhere(routes, LAMBDA r : r.to = topo[k].id)
        IN  [out |-> out, inn |-> inn, outbound |-> BitsOf(routes, out),
             inbound |-> BitsOf(routes, inn)]]

analyze_partition_communication(p, routes, total) ==
    LET local == p.total.state + p.total.mem
        high  == local > 0 /\ total > local
    IN  {<<"HighTotalCrossWorkerTraffic", Nothing>> : x \in {high} \cap {TRUE}}
        \cup {<<"HighRouteWidth", k>> : k \in
                 {r \in DOMAIN routes : routes[r].bits >= 1024 \/ high}}

plan_runtime_partition_communication(p, place) ==
    IF p.mod # place.mod THEN Error("E_RUNTIME_PARTITION_COMMUNICATION_MODULE")
    ELSE IF \E k \in DOMAIN p.boundaries :
                LET b == p.boundaries[k] IN
                b.producer # Nothing
                /\ ~({b.producer} \cup b.consumers \subseteq DOMAIN place.assign)
    THEN Error("E_RUNTIME_PARTITION_COMMUNICATION_ASSIGNMENT")
    ELSE LET routes == PlanRoutes(p, place.assign)
             total  == SumOf(LAMBDA r : r.bits, routes)
         IN  [mod |-> p.mod, routes |-> routes, total |-> total,
              workers |-> communication_worker_summaries(place.topo, routes),
              diagnostics |-> analyze_partition_communication(p, routes, total)]

StaleRoute(place, r) ==
    place.assign[r.producer] # r.from \/ place.assign[r.consumer] # r.to

\* Mutant: a route's workers are not compared with the placement.
from_plans_unchecked(p, place, c) ==
    IF p.mod # place.mod \/ p.mod # c.mod
    THEN Error("E_RUNTIME_PARTITION_BUNDLE_MODULE")
    ELSE [plan |-> p, place |-> place, comm |-> c,
          diagnostics |-> p.diagnostics \cup place.diagnostics \cup c.diagnostics]

from_plans(p, place, c) ==
    LET routes == Range(c.routes)
        placed == DOMAIN place.assign
    IN  IF p.mod # place.mod \/ p.mod # c.mod
        THEN Error("E_RUNTIME_PARTITION_BUNDLE_MODULE")
        ELSE IF \E r \in routes : ~({r.producer, r.consumer} \subseteq placed)
        THEN Error("E_RUNTIME_PARTITION_BUNDLE_ASSIGNMENT")
        ELSE IF \E r \in routes : StaleRoute(place, r)
        THEN Error("E_RUNTIME_PARTITION_BUNDLE_ROUTE")
        ELSE [plan |-> p, place |-> place, comm |-> c,
              diagnostics |-> p.diagnostics \cup place.diagnostics
                              \cup c.diagnostics]

\* Mutant: a route from a lower-numbered worker is not listed as inbound.
WorkerLaunch_one_sided(b, w) ==
    LET routes == b.comm.routes
        hosted == {i \in DOMAIN b.place.assign : b.place.assign[i] = w.id}
        out == RoutesWhere(routes, LAMBDA r : r.from = w.id)
        inn == RoutesWhere(routes, LAMBDA r : r.to = w.id /\ r.from > w.id)
    IN  [id |-> w.id, parts |-> SetToSortSeq(hosted, <),
         cost |-> b.place.loads[CHOOSE k \in DOMAIN b.place.topo :
                                    b.place.topo[k].id = w.id].cost,
         out |-> out, inn |-> inn, outbound |-> BitsOf(routes, out),
         inbound |-> BitsOf(routes, inn)]

WorkerLaunch(b, w) ==
    LET routes == b.comm.routes
        hosted == {i \in DOMAIN b.place.assign : b.place.assign[i] = w.id}
        out == RoutesWhere(routes, LAMBDA r : r.from = w.id)
        inn == RoutesWhere(routes, LAMBDA r : r.to = w.id)
    IN  [id |-> w.id, parts |-> SetToSortSeq(hosted, <),
         cost |-> b.place.loads[CHOOSE k \in DOMAIN b.place.topo :
                                    b.place.topo[k].id = w.id].cost,
         out |-> out, inn |-> inn, outbound |-> BitsOf(routes, out),
         inbound |-> BitsOf(routes, inn)]

\* One payload per worker of the placement's topology, in id order.  A bundle
\* may have been read back or put together by hand, so its references are
\* checked again.
plan_runtime_partition_launch(b) ==
    LET topo   == SortedBy(LAMBDA v, w : v.id < w.id, b.place.topo)
        routes == Range(b.comm.routes)
        placed == DOMAIN b.place.assign
    IN  IF ~(placed \subseteq DOMAIN b.plan.partitions)
        THEN Error("E_RUNTIME_PARTITION_LAUNCH_PARTITION")
        ELSE IF \E r \in routes : ~({r.producer, r.consumer} \subseteq placed)
        THEN Error("E_RUNTIME_PARTITION_LAUNCH_ASSIGNMENT")
        ELSE IF \E r \in routes : StaleRoute(b.place, r)
        THEN Error("E_RUNTIME_PARTITION_LAUNCH_ROUTE")
        ELSE LET workers == [k \in DOMAIN topo |-> WorkerLaunch(b, topo[k])]
             IN  [workers |-> workers, routes |-> b.comm.routes,
                  diagnostics |-> b.diagnostics
                      \cup {<<"EmptyWorkerLaunch", workers[k].id>> : k \in
                               {n \in DOMAIN workers : workers[n].parts = <<>>}}]

-----------------------------------------------------------------------------
(* The planning calls.                                                     *)

TopRegion(d) == [mod |-> d.top, path |-> <<>>, cut |-> {}]

Init ==
    /\ jobs \in JobLists
    /\ cur = 1
    /\ phase = "start"
    /\ regions = <<>>
    /\ guard = 0
    /\ plan = [j \in DOMAIN jobs |-> Nothing]
    /\ todo = <<>>
    /\ load = <<>>
    /\ placement = [j \in DOMAIN jobs |-> Nothing]
    /\ comm = [j \in DOMAIN jobs |-> Nothing]
    /\ bundle = Nothing
    /\ launch = Nothing

Planning == cur <= Len(jobs)

Job == jobs[cur]

NextJob == cur' = cur + 1 /\ phase' = "start"

\* plan_runtime_partitions: the request is checked, then cutting starts from
\* the whole design as one region.
StartPlan ==
    /\ Planning /\ phase = "start"
    /\ IF Job.target = 0
       THEN /\ plan' = [plan EXCEPT ![cur] = Error("E_RUNTIME_PARTITION_CONFIG")]
            /\ NextJob
            /\ UNCHANGED <<regions, guard>>
       ELSE /\ regions' = <<TopRegion(DesignOf(Job))>>
            /\ guard' = 0
            /\ phase' = "split"
            /\ UNCHANGED <<cur, plan>>
    /\ UNCHANGED <<jobs, todo, load, placement, comm, bundle, launch>>

\* partition_regions, one round of its loop.  A target of one never enters it.
MoreRounds ==
    /\ Len(regions) < Job.target
    /\ guard < Job.target * 8 + 8
    /\ best_partition_split_candidate(DesignOf(Job), regions) # {}

SplitRegion ==
    /\ Planning /\ phase = "split" /\ MoreRounds
    /\ \E index \in best_partition_split_candidate(DesignOf(Job), regions) :
           regions' = split_partition_region(DesignOf(Job), regions, index, Job.target)
    /\ guard' = guard + 1
    /\ UNCHANGED <<jobs, cur, phase, plan, todo, load, placement, comm, bundle,
                   launch>>

\* The regions in path order become the partitions of the plan.
FinishPlan ==
    /\ Planning /\ phase = "split" /\ ~MoreRounds
    /\ regions' = SortedBy(LAMBDA r, s : PathLess(r.path, s.path), regions)
    /\ \E p \in {PlanOf(Job, regions')} : plan' = [plan EXCEPT ![cur] = p]
    /\ phase' = "planned"
    /\ UNCHANGED <<jobs, cur, guard, todo, load, placement, comm, bundle, launch>>

\* plan_runtime_partition_placement: the topology is checked and the
\* partitions are ranked, the heaviest first.
StartPlacement ==
    /\ Planning /\ phase = "planned"
    /\ IF validate_partition_placement_topology(Job.topo)
       THEN /\ todo' = RankedPartitions(plan[cur])
            /\ load' = [k \in DOMAIN Job.topo |->
                           [cost |-> ZeroCost, parts |-> <<>>]]
            /\ phase' = "place"
            /\ UNCHANGED <<cur, placement>>
       ELSE /\ placement' = [placement EXCEPT ![cur] =
                   Error("E_RUNTIME_PARTITION_PLACEMENT_TOPOLOGY")]
            /\ NextJob
            /\ UNCHANGED <<todo, load>>
    /\ UNCHANGED <<jobs, regions, guard, plan, comm, bundle, launch>>

PlacePartition ==
    /\ Planning /\ phase = "place" /\ todo # <<>>
    /\ \E k \in best_placement_worker(Job.topo, load, Head(todo)) :
           load' = [load EXCEPT ![k] =
                       [cost |-> add_partition_cost(@.cost, Head(todo).cost),
                        parts |-> Append(@.parts, Head(todo).id)]]
    /\ todo' = Tail(todo)
    /\ UNCHANGED <<jobs, cur, phase, regions, guard, plan, placement, comm,
                   bundle, launch>>

FinishPlacement ==
    /\ Planning /\ phase = "place" /\ todo = <<>>
    /\ placement' = [placement EXCEPT ![cur] =
                        PlacementOf(plan[cur], Job.topo, load)]
    /\ phase' = "placed"
    /\ UNCHANGED <<jobs, cur, regions, guard, plan, todo, load, comm, bundle,
                   launch>>

PlanCommunication ==
    /\ Planning /\ phase = "placed"
    /\ comm' = [comm EXCEPT ![cur] =
                   plan_runtime_partition_communication(plan[cur], placement[cur])]
    /\ NextJob
    /\ UNCHANGED <<jobs, regions, guard, plan, todo, load, placement, bundle,
                   launch>>

\* RuntimePartitionBundle::from_plans on plans of any jobs.
Bundle(p, q, c) ==
    /\ ~Planning
    /\ Ok(plan[p]) /\ Ok(placement[q]) /\ Ok(comm[c])
    /\ bundle' = [jobs |-> {p, q, c},
                  result |-> from_plans(plan[p], placement[q], comm[c])]
    /\ launch' = Nothing
    /\ UNCHANGED <<jobs, cur, phase, regions, guard, plan, todo, load, placement,
                   comm>>

Launch ==
    /\ bundle # Nothing /\ Ok(bundle.result)
    /\ launch' = plan_runtime_partition_launch(bundle.result)
    /\ UNCHANGED <<jobs, cur, phase, regions, guard, plan, todo, load, placement,
                   comm, bundle>>

Next ==
    \/ StartPlan \/ SplitRegion \/ FinishPlan
    \/ StartPlacement \/ PlacePartition \/ FinishPlacement
    \/ PlanCommunication
    \/ \E p, q, c \in DOMAIN jobs : Bundle(p, q, c)
    \/ Launch

Spec == Init /\ [][Next]_vars

-----------------------------------------------------------------------------
(* Properties.                                                             *)

\* Cutting a hierarchy loses no work and counts none twice: while regions are
\* cut, and in every finished plan, the regions' operations and state bits add
\* up to those of the whole design
\* (runtime_partition_planner_avoids_recursive_cost_double_counting).
WorkCountedOnce ==
    Planning /\ phase # "start" =>
        LET whole == module_partition_cost(DesignOf(Job), Job.top, TRUE)
            sum   == FoldLeft(LAMBDA acc, r : add_partition_cost(acc,
                                  region_partition_cost(DesignOf(Job), r)),
                              ZeroCost, regions)
        IN  sum.ops = whole.ops /\ sum.state = whole.state

\* The planner never makes more regions than asked for, and makes fewer only
\* when no region has a child left to cut.
TargetMet ==
    Planning /\ phase # "start" =>
        /\ Len(regions) <= Job.target
        /\ phase # "split" /\ Len(regions) < Job.target =>
               best_partition_split_candidate(DesignOf(Job), regions) = {}

\* The debug_assert of legalize_partition_plan: after merging, every boundary
\* still crossing groups is classified register-stable; and the groups cover
\* every partition exactly once, with costs that add up.
ExchangeClassifiedStable ==
    \A j \in DOMAIN jobs : Ok(plan[j]) =>
        LET legal == legalize_partition_plan(plan[j])
            ids   == DOMAIN plan[j].partitions
        IN  /\ \A k \in legal.exchange :
                  classify_partition_boundary(plan[j].boundaries[k]) = "RegisterStable"
            /\ \A i \in ids : Cardinality({g \in legal.groups : i \in g.members}) = 1
            /\ SumOf(LAMBDA g : partition_split_score(g.cost), SetToSeq(legal.groups))
               = partition_split_score(plan[j].total)

\* A finished plan is a partition of the work the caller asked to have cut, and
\* its merge leaves only what the code classifies as stable to be exchanged.
PlansSound == WorkCountedOnce /\ TargetMet /\ ExchangeClassifiedStable

\* Placing the heaviest first on the least loaded compatible worker keeps the
\* workers balanced: without the last partition it received, no worker carries
\* more than any other worker that could have taken that partition.
PlacementBalanced ==
    \A j \in DOMAIN jobs : Ok(placement[j]) =>
        LET p == placement[j]
            score(k) == partition_split_score(p.loads[k].cost)
        IN  \A k, n \in DOMAIN p.topo : p.loads[k].parts # <<>> =>
                LET last == plan[j].partitions[Last(p.loads[k].parts)]
                IN  placement_worker_compatible(p.topo, n, last) =>
                        score(k) - partition_split_score(last.cost) <= score(n)

\* Every partition is placed on exactly one worker, and an external or
\* memory-holding one is never on a GPU while the topology has a CPU worker.
PlacedOnce ==
    \A j \in DOMAIN jobs : Ok(placement[j]) =>
        LET p == placement[j] IN
        \A i \in DOMAIN plan[j].partitions :
            LET hosts == {k \in DOMAIN p.topo : i \in Range(p.loads[k].parts)}
            IN  /\ Cardinality(hosts) = 1
                /\ \A k \in hosts :
                      p.topo[k].gpu /\ HasCpu(p.topo) =>
                          ~(plan[j].partitions[i].external
                            \/ plan[j].partitions[i].cost.mem > 0)

\* The placement's traffic account and the communication plan's routes, two
\* computations over the same boundaries, agree worker by worker, and the total
\* is both what the workers send and what they receive.
TrafficAgrees ==
    \A j \in DOMAIN jobs : Ok(comm[j]) =>
        LET p == placement[j]
            c == comm[j]
        IN  /\ \A k \in DOMAIN p.topo : /\ p.outbound[k] = c.workers[k].outbound
                                        /\ p.inbound[k] = c.workers[k].inbound
            /\ c.total = SumOf(LAMBDA w : w.outbound, c.workers)
            /\ c.total = SumOf(LAMBDA w : w.inbound, c.workers)

\* A placement puts every partition where it may be, evenly, and accounts for
\* the traffic between workers as the communication plan does.
PlacementSound == PlacementBalanced /\ PlacedOnce /\ TrafficAgrees

\* Whatever plans were bundled, in a launch that was accepted every route leaves
\* the worker that hosts its producer and enters the one that hosts its
\* consumer, and both payloads list it.
RoutesLandOnHosts ==
    launch # Nothing /\ Ok(launch) =>
        \A r \in DOMAIN launch.routes :
            LET route == launch.routes[r] IN
            \E v, w \in DOMAIN launch.workers :
                /\ v # w
                /\ route.producer \in Range(launch.workers[v].parts)
                /\ route.consumer \in Range(launch.workers[w].parts)
                /\ r \in Range(launch.workers[v].out)
                /\ r \in Range(launch.workers[w].inn)

\* A bundle of one job's plans is accepted, launches, and carries every
\* partition, and every boundary between partitions on different workers.
OwnPlansLaunch ==
    bundle # Nothing /\ Cardinality(bundle.jobs) = 1 =>
        /\ Ok(bundle.result)
        /\ launch # Nothing =>
               LET p == bundle.result.plan
                   hosts(w) == Range(launch.workers[w].parts)
               IN  /\ Ok(launch)
                   /\ UNION {hosts(w) : w \in DOMAIN launch.workers}
                      = DOMAIN p.partitions
                   /\ \A k \in DOMAIN p.boundaries :
                        LET b == p.boundaries[k] IN
                        b.producer # Nothing =>
                          \A c \in b.consumers :
                            \/ \E w \in DOMAIN launch.workers :
                                   {b.producer, c} \subseteq hosts(w)
                            \/ \E r \in DOMAIN launch.routes :
                                   /\ launch.routes[r].boundary = k
                                   /\ launch.routes[r].consumer = c

\* A bundle's plans never get past both checks with a stale route: what
\* from_plans accepts, the launch never rejects for its routes.
AcceptedRoutesNotStale ==
    launch # Nothing =>
        launch # Error("E_RUNTIME_PARTITION_LAUNCH_ROUTE")
        /\ launch # Error("E_RUNTIME_PARTITION_LAUNCH_ASSIGNMENT")

\* Plans of different jobs may be bundled together; what gets launched is still
\* consistent, and plans that belong together always launch.
LaunchSound == RoutesLandOnHosts /\ OwnPlansLaunch /\ AcceptedRoutesNotStale

-----------------------------------------------------------------------------
(* What the comments on BoundaryLegality claim.                            *)

\* Whether the value of signal sig in the instance at path holds still for a
\* whole cycle: a register, a top-level input, or an input wired to one.
RECURSIVE HoldsStill(_, _, _)
HoldsStill(d, path, sig) ==
    LET kind == d.mods[module_at_instance_path(d, d.top, path)].kinds[sig]
    IN  \/ kind = "Register"
        \/ /\ kind = "Input"
           /\ path # <<>> =>
                \E k \in DOMAIN InstanceAt(d, path).conns :
                    LET c == InstanceAt(d, path).conns[k] IN
                    /\ c.port = sig
                    /\ HoldsStill(d, Front(path), c.sig)

\* Every value exchanged at the barrier holds still for the whole cycle: "the
\* crossing value is stable for the whole cycle (register output or top-level
\* input)".
ExchangeHoldsStill ==
    \A j \in DOMAIN jobs : Ok(plan[j]) =>
        \A k \in legalize_partition_plan(plan[j]).exchange :
            LET b == plan[j].boundaries[k]
            IN  HoldsStill(DesignOf(jobs[j]), Front(b.path), b.sig)


==============================================================================
