-------------------------- MODULE DistributedRuntime --------------------------
(***************************************************************************)
(* DistributedRuntime over TCP workers: a coordinator that owns a list of  *)
(* shards, each a contiguous range of lanes simulated by one worker, and   *)
(* turns every operation of its caller into one request per shard.         *)
(*                                                                         *)
(* A request is one step here.  TcpWorker shows what it can do: it may be  *)
(* answered, time out and leave its answer unread on the connection, be    *)
(* cut off while it is written, or meet a worker that dies.  Every fault   *)
(* spends one of MaxFaults.                                                *)
(***************************************************************************)
EXTENDS Integers, FiniteSets, Sequences, SequencesExt, WorkerService

CONSTANTS
    Topology,    \* lanes of each worker of the topology, a sequence
    TotalLanes,  \* the sum of them
    Inputs,      \* vectors of lane values the caller may pass to set_input
    Foreign,     \* checkpoints of other runtimes the caller may try to restore
    Parallel,    \* execution_mode = Parallel
    MaxSteps,    \* bound on the steps of one tick_many
    MaxOps,      \* bound on the number of operations
    MaxFaults    \* bound on timeouts, failed writes and crashes

(* The constructor refuses a topology without workers or with a worker of  *)
(* no lanes before it connects to anything.                                *)
ASSUME RuntimeAssumption ==
    /\ Topology \in Seq(Nat \ {0}) /\ Topology # << >>
    /\ Inputs \subseteq Seq(Nat)
    /\ \A snap \in Foreign : snap.trusted = FALSE
    /\ Parallel \in BOOLEAN
    /\ MaxSteps \in Nat
    /\ MaxOps \in Nat
    /\ MaxFaults \in Nat

Shards == 1..Len(Topology)

(* ends[i] is the number of lanes of the first i workers.                  *)
LanesUpTo(ends) ==
    /\ ends[0] = 0
    /\ \A i \in Shards : ends[i] = ends[i - 1] + Topology[i]
    /\ ends[Len(Topology)] = TotalLanes

ASSUME TotalAssumption ==
    /\ TotalLanes \in Nat
    /\ \E ends \in [0..Len(Topology) -> 0..TotalLanes] : LanesUpTo(ends)

VARIABLES
    phase,     \* "building" (in the constructor), "ready" or "failed"
    infos,     \* the shards' lane ranges, in topology order
    startLane, \* the constructor's running start_lane, then total_lanes
    worker,    \* worker[i]: the worker and the connection of shard i
    fresh,     \* fresh[i]: the same for the workers of a recovery in progress
    op,        \* the operation in progress, or Idle
    result,    \* [kind, ok] of the last operation that returned
    got,       \* the values the last get_signal returned, Lost if not to be trusted
    saved,     \* the caller's latest checkpoint, or Never
    ops,       \* number of operations started
    faults,    \* number of faults so far
    trusted,   \* history: no operation has failed since the last good restore
    before     \* history: what the shards held when the operation began

runtimeVars == <<phase, infos, startLane>>
vars == <<phase, infos, startLane, worker, fresh, op, result, got, saved, ops, faults,
          trusted, before>>

Never == [never |-> TRUE]
Lost == [lost |-> TRUE]
Idle == [kind |-> "idle"]

Remote == [up |-> TRUE, shard |-> NoShard, unread |-> << >>, partial |-> FALSE]

(* What the shards hold.                                                   *)
Held == [i \in Shards |-> Storage(worker[i].shard)]

Init ==
    /\ phase = "building"
    /\ infos = << >>
    /\ startLane = 0
    /\ worker = [i \in Shards |-> Remote]
    /\ fresh = [i \in Shards |-> Remote]
    /\ op = Idle
    /\ result = [kind |-> "none", ok |-> TRUE]
    /\ got = Never
    /\ saved = Never
    /\ ops = 0
    /\ faults = 0
    /\ trusted = TRUE
    /\ before = << >>

-----------------------------------------------------------------------------
(* One request() to a remote worker: the worker and connection it may      *)
(* leave behind, the response the caller gets, and the faults it costs.    *)

Timeout == [kind |-> "Timeout"]
Garbled == [kind |-> "Garbled"]

Line(w, req) == IF w.partial THEN Garbled ELSE req

Handled(w, req) ==
    [w EXCEPT !.shard = ShardAfter(w.shard, Line(w, req)),
              !.unread = Append(@, ResponseTo(w.shard, Line(w, req))),
              !.partial = FALSE]

Read(w) == [w EXCEPT !.unread = Tail(@)]

Outcomes(w, req) ==
    IF w.up
    THEN LET h == Handled(w, req)
         IN  {[w |-> Read(h), resp |-> Head(h.unread), cost |-> 0],   \* answered
              [w |-> h, resp |-> Timeout, cost |-> 1],                \* answered too late
              [w |-> w, resp |-> Err, cost |-> 1],                    \* not written
              [w |-> [w EXCEPT !.partial = TRUE], resp |-> Err, cost |-> 1],
              [w |-> [w EXCEPT !.up = FALSE], resp |-> Err, cost |-> 1],
              [w |-> [h EXCEPT !.up = FALSE, !.unread = w.unread], resp |-> Err, cost |-> 1]}
    ELSE {[w |-> w, resp |-> Err, cost |-> 0]}
         \cup IF w.unread = << >> THEN {}
              ELSE {[w |-> Read(w), resp |-> Head(w.unread), cost |-> 0]}

Spend(cost) ==
    /\ faults + cost <= MaxFaults
    /\ faults' = faults + cost

Good(req, resp) == resp.kind = ExpectedKind(req)

-----------------------------------------------------------------------------
(* new_tcp_workers: one worker of the topology after the other.            *)

InitRequest(i) == [kind |-> "InitShard", info |-> Info(startLane, Topology[i])]

\* Mutant: the range recorded for the shard starts where the next one does.
AddShardLate ==
    /\ phase = "building"
    /\ Len(infos) < Len(Topology)
    /\ LET i == Len(infos) + 1
       IN  /\ infos' = Append(infos, Info(startLane + Topology[i], Topology[i]))
           /\ startLane' = startLane + Topology[i]
           /\ worker' = [worker EXCEPT ![i].shard = NewShard(infos'[i])]
    /\ UNCHANGED <<phase, fresh, op, result, got, saved, ops, faults, trusted, before>>

\* Mutant: start and length of the range are swapped.
AddShardSwapped ==
    /\ phase = "building"
    /\ Len(infos) < Len(Topology)
    /\ infos' = Append(infos, Info(Topology[Len(infos) + 1], startLane))
    /\ startLane' = startLane + Topology[Len(infos) + 1]
    /\ UNCHANGED <<phase, worker, fresh, op, result, got, saved, ops, faults, trusted, before>>

(* Connect to worker i and initialise its shard; any failure abandons the  *)
(* constructor and leaves the earlier workers initialised.                 *)
AddShard ==
    /\ phase = "building"
    /\ Len(infos) < Len(Topology)
    /\ LET i == Len(infos) + 1
           req == InitRequest(i)
       IN  \E o \in Outcomes(worker[i], req) :
              /\ Spend(o.cost)
              /\ worker' = [worker EXCEPT ![i] = o.w]
              /\ IF Good(req, o.resp)
                 THEN /\ infos' = Append(infos, Info(startLane, Topology[i]))
                      /\ startLane' = startLane + Topology[i]
                      /\ UNCHANGED phase
                 ELSE /\ phase' = "failed"
                      /\ UNCHANGED <<infos, startLane>>
    /\ UNCHANGED <<fresh, op, result, got, saved, ops, trusted, before>>

(* The constructor returns Ok.                                             *)
Built ==
    /\ phase = "building"
    /\ Len(infos) = Len(Topology)
    /\ phase' = "ready"
    /\ UNCHANGED <<infos, startLane, worker, fresh, op, result, got, saved, ops, faults,
                   trusted, before>>

(* The caller constructs again over the same workers: new connections, and *)
(* whatever shards the first attempt left in them.                         *)
Retry ==
    /\ phase = "failed"
    /\ ops < MaxOps
    /\ ops' = ops + 1
    /\ phase' = "building"
    /\ infos' = << >>
    /\ startLane' = 0
    /\ worker' = [i \in Shards |-> [worker[i] EXCEPT !.unread = << >>, !.partial = FALSE]]
    /\ UNCHANGED <<fresh, op, result, got, saved, faults, trusted, before>>

-----------------------------------------------------------------------------
(* The operations of the caller.                                           *)

(* execute_shards goes on after a shard has failed; every other operation  *)
(* stops at the first error.                                               *)
KeepsGoing(kind) == kind = "Tick"

Begin(kind, arg) ==
    /\ phase = "ready"
    /\ op = Idle
    /\ ops < MaxOps
    /\ ops' = ops + 1
    /\ op' = [kind |-> kind, arg |-> arg, todo |-> Shards, stage |-> 1, ok |-> TRUE,
              acc |-> << >>, info |-> Never]
    /\ before' = Held
    /\ fresh' = [i \in Shards |-> Remote]
    /\ UNCHANGED <<phase, infos, startLane, worker, result, got, saved, faults, trusted>>

(* An operation refused by its validation makes no request at all.         *)
Reject(kind) ==
    /\ phase = "ready"
    /\ op = Idle
    /\ ops < MaxOps
    /\ ops' = ops + 1
    /\ result' = [kind |-> kind, ok |-> FALSE]
    /\ UNCHANGED <<phase, infos, startLane, worker, fresh, op, got, saved, faults, trusted,
                   before>>

(* set_input, with validate_lane_count: one value per lane.                *)
SetInput(values) ==
    IF Len(values) = startLane THEN Begin("SetInput", values) ELSE Reject("SetInput")

(* tick, tick_many and (with no step) eval_combinational.                  *)
Tick(steps) == Begin("Tick", steps)

GetSignal == Begin("GetSignal", 0)

Health == Begin("Health", 0)

Checkpoint == Begin("Snapshot", 0)

(* validate_checkpoint and validate_snapshot: lane total, number of shards *)
(* and the lane range of every shard.                                      *)
ValidSnapshot(snap) ==
    /\ snap.total = startLane
    /\ snap.infos = infos

(* restore_checkpoint.                                                     *)
Restore(snap) ==
    IF ValidSnapshot(snap) THEN Begin("Restore", snap) ELSE Reject("Restore")

(* recover_tcp_workers_from_checkpoint, over newly started workers.        *)
Recover(snap) ==
    IF ValidSnapshot(snap) THEN Begin("Recover", snap) ELSE Reject("Recover")

-----------------------------------------------------------------------------
(* The requests an operation makes to shard i; stage 2 is the second one   *)
(* of the operations that make two.                                        *)

(* The slice of the caller's vector that shard i gets: lane_values[range]. *)
Slice(values, i) == SubSeq(values, infos[i].start + 1, infos[i].start + infos[i].lanes)

RequestOf(i) ==
    CASE op.kind = "SetInput"  -> [kind |-> "SetInput", values |-> Slice(op.arg, i)]
      [] op.kind = "Tick"      -> [kind |-> "Tick", steps |-> op.arg]
      [] op.kind = "GetSignal" -> [kind |-> "GetSignal"]
      [] op.kind = "Health"    -> [kind |-> "Health"]
      [] op.kind = "Snapshot"  -> [kind |-> "Snapshot"]
      [] op.kind = "Restore" /\ op.stage = 1 -> [kind |-> "Stats"]
      [] op.kind = "Recover" /\ op.stage = 1 -> [kind |-> "InitShard", info |-> infos[i]]
      [] op.kind = "Restore" /\ op.stage = 2 ->
            [kind |-> "RestoreSnapshot", info |-> op.info, storage |-> op.arg.storages[i]]
      [] op.kind = "Recover" /\ op.stage = 2 ->
            [kind |-> "RestoreSnapshot", info |-> op.arg.infos[i],
             storage |-> op.arg.storages[i]]

Stages(kind) == IF kind \in {"Restore", "Recover"} THEN 2 ELSE 1

\* Mutant: strictly smaller than every shard left, itself included.
TurnStrict(i) == \A j \in op.todo : i < j

(* Shards are taken in order, except by a parallel execute_shards.         *)
Turn(i) ==
    \/ Parallel /\ KeepsGoing(op.kind)
    \/ \A j \in op.todo : i <= j

Collected(resp) ==
    CASE resp.kind = "Snapshot" -> Append(op.acc, resp.storage)
      [] resp.kind = "Signal" -> op.acc \o resp.values
      [] OTHER -> op.acc

\* Mutant: a shard whose tick failed is asked again, as long as faults last.
AdvanceReplaying(i, ok, resp) ==
    IF ~ok /\ faults < MaxFaults
    THEN op
    ELSE [op EXCEPT !.ok = @ /\ ok, !.todo = @ \ {i}]

\* Mutant: a failed shard is left out and its error forgotten.
AdvanceSwallowing(i, ok, resp) ==
    [op EXCEPT !.stage = 1, !.todo = @ \ {i}, !.acc = Collected(resp)]

(* What the operation is left with after a request to shard i.             *)
Advance(i, ok, resp) ==
    IF ok /\ op.stage < Stages(op.kind)
    THEN [op EXCEPT !.stage = @ + 1,
                    !.info = IF resp.kind = "Stats" THEN resp.info ELSE @]
    ELSE [op EXCEPT !.stage = 1,
                    !.ok = @ /\ ok,
                    !.todo = IF ok \/ KeepsGoing(op.kind) THEN @ \ {i} ELSE {},
                    !.acc = Collected(resp)]

(* One request of the operation in progress to one of its shards.          *)
RequestShard(i) ==
    /\ op # Idle
    /\ i \in op.todo
    /\ Turn(i)
    /\ op.kind # "Recover"
    /\ LET req == RequestOf(i)
       IN  \E o \in Outcomes(worker[i], req) :
              /\ Spend(o.cost)
              /\ worker' = [worker EXCEPT ![i] = o.w]
              /\ op' = Advance(i, Good(req, o.resp), o.resp)
    /\ UNCHANGED <<phase, infos, startLane, fresh, result, got, saved, ops, trusted, before>>

\* Mutant: a recovered connection replaces the shard's engine at once.
RecoverShardInPlace(i) ==
    /\ op # Idle
    /\ i \in op.todo
    /\ Turn(i)
    /\ op.kind = "Recover"
    /\ LET req == RequestOf(i)
       IN  \E o \in Outcomes(fresh[i], req) :
              /\ Spend(o.cost)
              /\ fresh' = [fresh EXCEPT ![i] = o.w]
              /\ worker' = [worker EXCEPT ![i] = o.w]
              /\ op' = Advance(i, Good(req, o.resp), o.resp)
    /\ UNCHANGED <<phase, infos, startLane, result, got, saved, ops, trusted, before>>

(* One request of a recovery, to the new worker of shard i.  The runtime's *)
(* own connections are not touched.                                        *)
RecoverShard(i) ==
    /\ op # Idle
    /\ i \in op.todo
    /\ Turn(i)
    /\ op.kind = "Recover"
    /\ LET req == RequestOf(i)
       IN  \E o \in Outcomes(fresh[i], req) :
              /\ Spend(o.cost)
              /\ fresh' = [fresh EXCEPT ![i] = o.w]
              /\ op' = Advance(i, Good(req, o.resp), o.resp)
    /\ UNCHANGED <<phase, infos, startLane, worker, result, got, saved, ops, trusted, before>>

-----------------------------------------------------------------------------
(* The operation returns.                                                  *)

(* History: a connection on which nothing is overdue.                      *)
Clean(w) == w.unread = << >> /\ ~w.partial /\ w.up

Trust ==
    CASE op.kind = "Recover" -> IF op.ok THEN op.arg.trusted ELSE trusted
      [] op.kind = "Restore" /\ op.ok ->
            op.arg.trusted /\ \A i \in Shards : Clean(worker[i])
      [] OTHER -> trusted /\ op.ok

Return ==
    /\ op # Idle
    /\ op.todo = {}
    /\ op' = Idle
    /\ result' = [kind |-> op.kind, ok |-> op.ok]
    /\ trusted' = Trust
    /\ before' = << >>
    /\ saved' = IF op.kind = "Snapshot" /\ op.ok
                THEN [total |-> startLane, infos |-> infos, storages |-> op.acc,
                      trusted |-> trusted]
                ELSE saved
    /\ got' = IF op.kind = "GetSignal" /\ op.ok
              THEN IF trusted THEN [values |-> op.acc] ELSE Lost
              ELSE got
    /\ worker' = IF op.kind = "Recover" /\ op.ok THEN fresh ELSE worker
    /\ fresh' = [i \in Shards |-> Remote]
    /\ UNCHANGED <<phase, infos, startLane, ops, faults>>

Snapshots == Foreign \cup ({saved} \ {Never})

Operation ==
    \/ \E v \in Inputs : SetInput(v)
    \/ \E n \in 0..MaxSteps : Tick(n)
    \/ GetSignal \/ Health \/ Checkpoint
    \/ \E snap \in Snapshots : Restore(snap) \/ Recover(snap)

Work == (\E i \in Shards : RequestShard(i) \/ RecoverShard(i)) \/ Return

Next == AddShard \/ Built \/ Retry \/ Operation \/ Work

(* A request returns (TcpWorker's CallReturns), so does the operation's    *)
(* loop over its shards.                                                   *)
Spec == Init /\ [][Next]_vars /\ WF_vars(Work)

-----------------------------------------------------------------------------
(* Types of the state; no more lanes than the topology has.                *)
TypeOK ==
    /\ phase \in {"building", "ready", "failed"}
    /\ Len(infos) <= Len(Topology)
    /\ \A i \in 1..Len(infos) : infos[i].lanes = Topology[i]
    /\ startLane \in Nat
    /\ op = Idle \/ (op.todo \subseteq Shards /\ op.ok \in BOOLEAN)
    /\ ops \in 0..MaxOps
    /\ faults \in 0..MaxFaults
    /\ trusted \in BOOLEAN

(* Every lane the runtime accepts values for belongs to exactly one shard, *)
(* whatever the constructor went through: the slices set_input cuts are    *)
(* disjoint and leave no lane out.                                         *)
LanePartition ==
    \A l \in 0..(startLane - 1) :
        \E i \in 1..Len(infos) :
            \A j \in 1..Len(infos) :
                (infos[j].start <= l /\ l < infos[j].start + infos[j].lanes) <=> (i = j)

(* As long as every operation has returned Ok since the last good restore  *)
(* no connection carries an overdue answer, so no shard can be given the   *)
(* answer to an earlier request.                                           *)
TrustedMeansInStep ==
    (trusted /\ phase = "ready" /\ op = Idle) =>
        \A i \in Shards : worker[i].unread = << >> /\ ~worker[i].partial

Ticked(storage, lanes, steps) ==
    [in |-> storage.in, cnt |-> [l \in 1..lanes |-> storage.cnt[l] + steps * storage.in[l]]]

(* A tick, failed or not, reaches a shard at most once: "a failed `tick`   *)
(* or `tick_many` is not replayed automatically".                          *)
TickAtMostOnce ==
    op.kind = "Tick" =>
        \A i \in Shards : Held[i] \in {before[i], Ticked(before[i], Topology[i], op.arg)}

(* A worker of a runtime holds exactly the lanes the runtime thinks it     *)
(* does, after retried constructions, restores and recoveries too.         *)
WorkersHoldTheirLanes ==
    phase = "ready" =>
        \A i \in Shards :
            /\ worker[i].shard # NoShard
            /\ Info(worker[i].shard.start, worker[i].shard.lanes) = infos[i]

(* The shards in step with the coordinator, whatever failed before: no     *)
(* overdue answers while trusted, no tick carried out twice, no lane moved.*)
ShardsInStep == TrustedMeansInStep /\ TickAtMostOnce /\ WorkersHoldTheirLanes

(* Every operation returns to its caller.                                  *)
OperationReturns == (op # Idle) ~> (op = Idle)

(* The runtime behaves as one simulator of all its lanes: lane l (from 1)  *)
(* is one of the lanes of the shard whose range it is in.                  *)
OwnerOf(ranges, l) ==
    CHOOSE i \in Shards : ranges[i].start < l /\ l <= ranges[i].start + ranges[i].lanes

LaneIn(ranges, l) == l - ranges[OwnerOf(ranges, l)].start

Lanes(ranges, storages) ==
    [in  |-> [l \in 1..TotalLanes |-> storages[OwnerOf(ranges, l)].in[LaneIn(ranges, l)]],
     cnt |-> [l \in 1..TotalLanes |-> storages[OwnerOf(ranges, l)].cnt[LaneIn(ranges, l)]]]

NoCycles == [in |-> [l \in 1..TotalLanes |-> 0], cnt |-> [l \in 1..TotalLanes |-> 0]]

BatchMem ==
    IF phase # "ready" THEN NoCycles
    ELSE IF ~trusted THEN Lost
    ELSE Lanes(infos, IF op = Idle THEN Held ELSE before)

BatchStore ==
    IF saved = Never THEN Never
    ELSE IF saved.trusted THEN Lanes(infos, saved.storages) ELSE Lost

Batch == INSTANCE BatchSimulator WITH mem <- BatchMem, store <- BatchStore, out <- got

(* Refinement: operations that return Ok have happened to every lane once, *)
(* in whatever order the shards executed; checkpoints taken before the     *)
(* first failure hold one consistent state of all lanes; recovery brings   *)
(* back exactly the checkpoint, and a failed recovery changes nothing.     *)
BehavesAsOneSimulator == Batch!Spec

(* "Health checks ... report shard reachability": a health call made in a  *)
(* running system comes back with a report, unreachable shards included.   *)
HealthReportsReachability ==
    result.kind = "Health" => result.ok
=============================================================================
