----------------------- MODULE DistributedRuntimeProofs -----------------------
(***************************************************************************)
(* Proofs about DistributedRuntime, whatever the topology, the operations, *)
(* the faults and the retried constructions: the lane ranges of the shards *)
(* partition the lanes the runtime accepts, the shards stay in step with   *)
(* the coordinator, and the runtime implements one simulator of all lanes. *)
(***************************************************************************)
EXTENDS DistributedRuntime, WorkerServiceProofs

Ranges == [start : Nat, lanes : Nat]

(* The inductive invariant: the ranges recorded so far follow one another, *)
(* end at or before start_lane, and leave no lane below it uncovered.      *)
RangesType ==
    /\ infos \in Seq(Ranges)
    /\ startLane \in Nat

RangesOfTopology ==
    /\ Len(infos) <= Len(Topology)
    /\ \A i \in 1..Len(infos) : infos[i].lanes = Topology[i]

RangesBelow ==
    \A i \in 1..Len(infos) : infos[i].start + infos[i].lanes <= startLane

RangesAscending ==
    \A i, j \in 1..Len(infos) : i < j => infos[i].start + infos[i].lanes <= infos[j].start

RangesCover ==
    \A l \in 0..(startLane - 1) :
        \E i \in 1..Len(infos) : infos[i].start <= l /\ l < infos[i].start + infos[i].lanes

RangesInv ==
    RangesType /\ RangesOfTopology /\ RangesBelow /\ RangesAscending /\ RangesCover

-----------------------------------------------------------------------------
(* The initial state, and every constructor started again, has no range.   *)
LEMMA NoRanges ==
    ASSUME infos = << >>, startLane = 0
    PROVE  RangesInv
BY RuntimeAssumption DEF RangesInv, RangesType, RangesOfTopology, RangesBelow, RangesAscending,
    RangesCover

(* The primed form of NoRanges.                                            *)
LEMMA NoRangesNext ==
    ASSUME infos' = << >>, startLane' = 0
    PROVE  RangesInv'
BY RuntimeAssumption DEF RangesInv, RangesType, RangesOfTopology, RangesBelow, RangesAscending,
    RangesCover

(* A step that leaves the ranges and start_lane alone.                     *)
LEMMA SameRanges ==
    ASSUME RangesInv, UNCHANGED <<infos, startLane>>
    PROVE  RangesInv'
BY DEF RangesInv, RangesType, RangesOfTopology, RangesBelow, RangesAscending, RangesCover

(* The constructor's push of the next shard: its range starts where the    *)
(* lanes handed out so far end.                                            *)
LEMMA PushRange ==
    ASSUME RangesInv, Len(infos) < Len(Topology),
           infos' = Append(infos, Info(startLane, Topology[Len(infos) + 1])),
           startLane' = startLane + Topology[Len(infos) + 1]
    PROVE  RangesInv'
<1> DEFINE n == Len(infos)
           lanes == Topology[n + 1]
<1>1. /\ n \in Nat
      /\ lanes \in Nat
      /\ startLane \in Nat
      /\ infos \in Seq(Ranges)
  BY RuntimeAssumption DEF RangesInv, RangesType
<1>2. /\ Info(startLane, lanes) \in Ranges
      /\ Info(startLane, lanes).start = startLane
      /\ Info(startLane, lanes).lanes = lanes
  BY <1>1 DEF Info, Ranges
<1>3. /\ infos' \in Seq(Ranges)
      /\ Len(infos') = n + 1
      /\ \A i \in 1..n : infos'[i] = infos[i]
      /\ infos'[n + 1] = Info(startLane, lanes)
      /\ startLane' = startLane + lanes
  <2> HIDE DEF n, lanes, Ranges
  <2>1. infos' = Append(infos, Info(startLane, lanes)) /\ n = Len(infos)
    BY DEF n, lanes
  <2>2. startLane' = startLane + lanes
    BY DEF n, lanes
  <2> QED
    BY <1>1, <1>2, <2>1, <2>2
<1> HIDE DEF n, lanes
<1>4. RangesType'
  BY <1>1, <1>3 DEF RangesType
<1>5. \A i \in 1..n : /\ infos[i] \in Ranges
                      /\ infos[i].start \in Nat
                      /\ infos[i].lanes \in Nat
  <2>1. \A i \in 1..n : infos[i] \in Ranges
    BY <1>1 DEF n
  <2> QED
    BY <2>1 DEF Ranges
<1>6. RangesOfTopology'
  <2>1. Len(infos') <= Len(Topology)
    BY <1>1, <1>3, RuntimeAssumption DEF n
  <2>2. \A i \in 1..Len(infos') : infos'[i].lanes = Topology[i]
    BY <1>1, <1>2, <1>3 DEF RangesInv, RangesOfTopology, n, lanes
  <2> QED
    BY <2>1, <2>2 DEF RangesOfTopology
<1>7. RangesBelow'
  BY <1>1, <1>2, <1>3, <1>5 DEF RangesInv, RangesBelow, n
<1>8. RangesAscending'
  BY <1>1, <1>2, <1>3, <1>5 DEF RangesInv, RangesBelow, RangesAscending, n
<1>9. RangesCover'
  <2>0. startLane + lanes - 1 \in Int /\ startLane' - 1 = startLane + lanes - 1
    BY <1>1, <1>3
  <2> SUFFICES ASSUME NEW l \in 0..(startLane + lanes - 1)
               PROVE  \E i \in 1..(n + 1) :
                          infos'[i].start <= l /\ l < infos'[i].start + infos'[i].lanes
    BY <2>0, <1>3 DEF RangesCover
  <2>1. CASE l < startLane
    <3>1. PICK i \in 1..n : infos[i].start <= l /\ l < infos[i].start + infos[i].lanes
      BY <1>1, <2>1 DEF RangesInv, RangesCover, n
    <3> QED
      BY <1>1, <1>3, <3>1
  <2>2. CASE startLane <= l
    BY <1>1, <1>2, <1>3, <2>2
  <2>3. l < startLane \/ startLane <= l
    BY <1>1, <2>0
  <2> QED
    BY <2>1, <2>2, <2>3
<1> QED
  BY <1>4, <1>6, <1>7, <1>8, <1>9 DEF RangesInv

-----------------------------------------------------------------------------
(* Every step preserves the invariant: only AddShard, when its worker has  *)
(* acknowledged, and Retry touch the ranges.                               *)
LEMMA StepRanges ==
    ASSUME RangesInv, [Next]_vars
    PROVE  RangesInv'
<1>1. CASE AddShard
  <2>1. Len(infos) < Len(Topology)
    BY <1>1 DEF AddShard
  <2>2. \/ /\ infos' = Append(infos, Info(startLane, Topology[Len(infos) + 1]))
           /\ startLane' = startLane + Topology[Len(infos) + 1]
        \/ UNCHANGED <<infos, startLane>>
    BY <1>1 DEF AddShard
  <2> QED
    BY <2>1, <2>2, PushRange, SameRanges
<1>2. CASE Built
  BY <1>2, SameRanges DEF Built
<1>3. CASE Retry
  BY <1>3, NoRangesNext DEF Retry
<1>4. CASE Operation
  <2>1. ASSUME NEW kind, NEW arg, Begin(kind, arg) PROVE UNCHANGED <<infos, startLane>>
    BY <2>1 DEF Begin
  <2>2. ASSUME NEW kind, Reject(kind) PROVE UNCHANGED <<infos, startLane>>
    BY <2>2 DEF Reject
  <2>3. UNCHANGED <<infos, startLane>>
    BY <1>4, <2>1, <2>2, Zenon
       DEF Operation, SetInput, Tick, GetSignal, Health, Checkpoint, Restore, Recover
  <2> QED
    BY <2>3, SameRanges
<1>5. CASE Work
  <2>1. ASSUME NEW i \in Shards, RequestShard(i) PROVE UNCHANGED <<infos, startLane>>
    BY <2>1 DEF RequestShard
  <2>2. ASSUME NEW i \in Shards, RecoverShard(i) PROVE UNCHANGED <<infos, startLane>>
    BY <2>2 DEF RecoverShard
  <2>3. ASSUME Return PROVE UNCHANGED <<infos, startLane>>
    BY <2>3 DEF Return
  <2> QED
    BY <1>5, <2>1, <2>2, <2>3, SameRanges DEF Work
<1>6. CASE UNCHANGED vars
  BY <1>6, SameRanges DEF vars
<1> QED
  BY <1>1, <1>2, <1>3, <1>4, <1>5, <1>6 DEF Next

(* The ranges of the shards are laid out by the constructor and by nothing *)
(* else: they follow one another from lane 0, in every state.              *)
THEOREM RangesInvariant == Spec => []RangesInv
<1>1. Init => RangesInv
  BY NoRanges DEF Init
<1>2. RangesInv /\ [Next]_vars => RangesInv'
  BY StepRanges
<1> QED
  BY <1>1, <1>2, PTL DEF Spec

(* Ranges that ascend and cover partition the lanes.                       *)
LEMMA RangesPartition == RangesInv => LanePartition
<1> SUFFICES ASSUME RangesInv, NEW l \in 0..(startLane - 1)
             PROVE  \E i \in 1..Len(infos) : \A j \in 1..Len(infos) :
                        (infos[j].start <= l /\ l < infos[j].start + infos[j].lanes) <=> (i = j)
  BY DEF LanePartition
<1>1. PICK i \in 1..Len(infos) : infos[i].start <= l /\ l < infos[i].start + infos[i].lanes
  BY DEF RangesInv, RangesCover
<1>2. \A j \in 1..Len(infos) : infos[j].start \in Nat /\ infos[j].lanes \in Nat
  <2>1. \A j \in 1..Len(infos) : infos[j] \in Ranges
    BY DEF RangesInv, RangesType
  <2> QED
    BY <2>1 DEF Ranges
<1>3. l \in Int /\ Len(infos) \in Nat
  BY DEF RangesInv, RangesType
<1>4. ASSUME NEW j \in 1..Len(infos),
             infos[j].start <= l, l < infos[j].start + infos[j].lanes
      PROVE  i = j
  <2>1. ~(i < j)
    BY <1>1, <1>2, <1>3, <1>4 DEF RangesInv, RangesAscending
  <2>2. ~(j < i)
    BY <1>1, <1>2, <1>3, <1>4 DEF RangesInv, RangesAscending
  <2> QED
    BY <1>3, <2>1, <2>2
<1> QED
  BY <1>1, <1>4

(* Every lane belongs to exactly one shard of the runtime, for every       *)
(* topology and through failed and retried constructions (the check the    *)
(* runs make on two topologies).                                           *)
THEOREM LanesPartitioned == Spec => []LanePartition
BY RangesInvariant, RangesPartition, PTL

-----------------------------------------------------------------------------
(* The inductive invariant of the running runtime.                         *)

Quiet(w) == w.unread = << >> /\ ~w.partial

HoldsRange(w, info) == w.shard # NoShard /\ Info(w.shard.start, w.shard.lanes) = info

HoldsStorage(w, storage) == w.shard.in = storage.in /\ w.shard.cnt = storage.cnt

LaneVector(f, n) == IsSeq(f) /\ Len(f) = n

WorkerType(w) ==
    /\ w = [up |-> w.up, shard |-> w.shard, unread |-> w.unread, partial |-> w.partial]
    /\ w.up \in BOOLEAN /\ w.partial \in BOOLEAN
    /\ IsSeq(w.unread)
    /\ w.shard = NoShard \/ ShardRecord(w.shard)

Types ==
    /\ phase \in {"building", "ready", "failed"}
    /\ trusted \in BOOLEAN
    /\ DOMAIN worker = Shards /\ DOMAIN fresh = Shards
    /\ \A i \in Shards : WorkerType(worker[i]) /\ WorkerType(fresh[i])

(* The ranges are where the topology has them.                             *)
Ends == CHOOSE ends \in [0..Len(Topology) -> 0..TotalLanes] : LanesUpTo(ends)

RangesAtEnds ==
    /\ startLane = Ends[Len(infos)]
    /\ \A i \in 1..Len(infos) : infos[i].start = Ends[i - 1]

(* The constructor: it leaves no answer unread on a connection it keeps,   *)
(* and the shards of the workers it has been through are new.              *)
Construction ==
    /\ phase # "ready" => op = Idle /\ trusted /\ saved = Never
    /\ phase = "building" =>
          /\ \A i \in Shards : Quiet(worker[i])
          /\ \A i \in 1..Len(infos) : worker[i].shard = NewShard(infos[i])
    /\ phase = "ready" =>
          /\ Len(infos) = Len(Topology)
          /\ \A i \in Shards : HoldsRange(worker[i], infos[i])

OpKinds == {"SetInput", "Tick", "GetSignal", "Health", "Snapshot", "Restore", "Recover"}

OpType ==
    op # Idle =>
        /\ phase = "ready"
        /\ op = [kind |-> op.kind, arg |-> op.arg, todo |-> op.todo, stage |-> op.stage,
                 ok |-> op.ok, acc |-> op.acc, info |-> op.info]
        /\ op.kind \in OpKinds
        /\ op.todo \subseteq Shards
        /\ op.ok \in BOOLEAN
        /\ op.stage \in 1..Stages(op.kind)
        /\ op.kind = "SetInput" => op.arg \in Inputs /\ Len(op.arg) = startLane
        /\ op.kind = "Tick" => op.arg \in 0..MaxSteps
        /\ op.kind \in {"Restore", "Recover"} => op.arg \in Snapshots
        /\ before = [i \in Shards |-> [in |-> before[i].in, cnt |-> before[i].cnt]]

(* A checkpoint taken in step holds a vector of the lanes of each shard.   *)
SavedRight ==
    saved # Never =>
        /\ saved.trusted \in BOOLEAN
        /\ saved.trusted => \A i \in Shards : LaneVector(saved.storages[i].cnt, Topology[i])

(* No answer is overdue while no operation has failed; a recovery does not *)
(* use the connections there are.                                          *)
InStep ==
    (trusted /\ phase = "ready" /\ (op = Idle \/ op.ok \/ op.kind = "Recover")) =>
        \A i \in Shards : Quiet(worker[i])

Vectors ==
    (trusted /\ phase = "ready") =>
        \A i \in Shards :
            LaneVector(IF op = Idle THEN worker[i].shard.cnt ELSE before[i].cnt, Topology[i])

(* How far the operation in progress has come with shard i.                *)
ReadSoFar(i) ==
    op.kind \in {"GetSignal", "Health", "Snapshot", "Recover"} =>
        HoldsStorage(worker[i], before[i])

TickSoFar(i) ==
    op.kind = "Tick" =>
        /\ i \in op.todo => HoldsStorage(worker[i], before[i])
        /\ \/ HoldsStorage(worker[i], before[i])
           \/ HoldsStorage(worker[i], Ticked(before[i], Topology[i], op.arg))
        /\ (trusted /\ op.ok /\ i \notin op.todo) =>
              HoldsStorage(worker[i], Ticked(before[i], Topology[i], op.arg))

SetSoFar(i) ==
    (op.kind = "SetInput" /\ trusted /\ op.ok) =>
        /\ worker[i].shard.in = IF i \in op.todo THEN before[i].in ELSE Slice(op.arg, i)
        /\ worker[i].shard.cnt = before[i].cnt

RestoreSoFar(i) ==
    (op.kind = "Restore" /\ op.ok /\ i \notin op.todo /\ Clean(worker[i])) =>
        HoldsStorage(worker[i], op.arg.storages[i])

(* A new worker is untouched until its turn, and has a new shard between   *)
(* the two requests made to it.                                            *)
RecoverSoFar(i) ==
    (op.kind = "Recover" /\ op.ok) =>
        IF i \notin op.todo
        THEN /\ Quiet(fresh[i])
             /\ HoldsRange(fresh[i], infos[i])
             /\ HoldsStorage(fresh[i], op.arg.storages[i])
        ELSE IF op.stage = 2 /\ \A j \in op.todo : i <= j
        THEN Quiet(fresh[i]) /\ fresh[i].shard = NewShard(infos[i])
        ELSE fresh[i] = Remote

SoFar ==
    \A i \in Shards :
        ReadSoFar(i) /\ TickSoFar(i) /\ SetSoFar(i) /\ RestoreSoFar(i) /\ RecoverSoFar(i)

(* What has been gathered is of the first k shards.                        *)
SnapshotSoFar ==
    (op.kind = "Snapshot" /\ trusted /\ op.ok) =>
        \E k \in 0..Len(Topology) :
            /\ op.todo = (k + 1)..Len(Topology)
            /\ IsSeq(op.acc) /\ Len(op.acc) = k
            /\ \A i \in 1..k : op.acc[i] = before[i]

SignalSoFar ==
    (op.kind = "GetSignal" /\ trusted /\ op.ok) =>
        \E k \in 0..Len(Topology) :
            /\ op.todo = (k + 1)..Len(Topology)
            /\ IsSeq(op.acc) /\ Len(op.acc) = Ends[k]
            /\ \A i \in 1..k : \A l \in 1..Topology[i] :
                  op.acc[Ends[i - 1] + l] = before[i].cnt[l]

RuntimeInv ==
    /\ RangesInv /\ RangesAtEnds /\ Types /\ Construction /\ OpType /\ SavedRight
    /\ InStep /\ Vectors /\ SoFar /\ SnapshotSoFar /\ SignalSoFar

-----------------------------------------------------------------------------
(* One request.                                                            *)

LEMMA ShardStays ==
    ASSUME NEW s, NEW q, s = NoShard \/ ShardRecord(s)
    PROVE  ShardAfter(s, q) = NoShard \/ ShardRecord(ShardAfter(s, q))
<1>1. CASE ~Accepted(s, q)
  BY <1>1, RefusedIsErr
<1>2. CASE s = NoShard /\ Accepted(s, q)
  BY <1>2, ShardIsMade
<1>3. CASE ShardRecord(s) /\ Accepted(s, q)
  BY <1>3, ShardIsKept
<1> QED
  BY <1>1, <1>2, <1>3

LEMMA GarbledRefused == ASSUME NEW s PROVE ~Accepted(s, Garbled)
BY DEF Accepted, Garbled

LEMMA RemoteType == WorkerType(Remote) /\ Quiet(Remote) /\ Remote.shard = NoShard
<1>1. IsSeq(<< >>)
  <2>1. << >> \in Seq({})
    OBVIOUS
  <2> QED
    BY <2>1, SomeSeq
<1> QED
  BY <1>1 DEF WorkerType, Remote, Quiet

(* The worker handles the line that reaches it.                            *)
LEMMA HandledRight ==
    ASSUME NEW w, NEW req, WorkerType(w)
    PROVE  LET h == Handled(w, req)
           IN  /\ WorkerType(h)
               /\ h.up = w.up /\ ~h.partial
               /\ h.shard = ShardAfter(w.shard, Line(w, req))
               /\ h.unread = Append(w.unread, ResponseTo(w.shard, Line(w, req)))
               /\ h.unread # << >>
<1> DEFINE s == ShardAfter(w.shard, Line(w, req))
           r == ResponseTo(w.shard, Line(w, req))
           u == Append(w.unread, r)
           h == Handled(w, req)
<1>1. h = [w EXCEPT !.shard = s, !.unread = Append(@, r), !.partial = FALSE]
  BY DEF Handled
<1>2. s = NoShard \/ ShardRecord(s)
  BY ShardStays DEF WorkerType
<1>3. IsSeq(u) /\ u # << >>
  BY AppendSeq DEF WorkerType
<1> HIDE DEF s, h
<1>4. h = [up |-> w.up, shard |-> s, unread |-> u, partial |-> FALSE]
  <2> HIDE DEF r
  <2> QED
    BY <1>1 DEF WorkerType
<1> HIDE DEF u
<1>5. /\ h.up = w.up /\ h.shard = s /\ h.unread = u /\ h.partial = FALSE
      /\ h = [up |-> h.up, shard |-> h.shard, unread |-> h.unread, partial |-> h.partial]
  BY <1>4
<1>6. WorkerType(h)
  BY <1>2, <1>3, <1>5 DEF WorkerType
<1> QED
  BY <1>3, <1>5, <1>6 DEF h, s, u

(* What a request can lead to.  An answer that is expected, read from a    *)
(* connection on which nothing was overdue, is the answer to the request;  *)
(* so is one that leaves a connection clean.                               *)
Answered(w, req, o) ==
    /\ Quiet(w) /\ Quiet(o.w)
    /\ Accepted(w.shard, req)
    /\ o.w.shard = ShardAfter(w.shard, req)
    /\ o.resp = ResponseTo(w.shard, req)

LEMMA OutcomeRight ==
    ASSUME NEW w, NEW req, WorkerType(w), NEW o \in Outcomes(w, req)
    PROVE  /\ WorkerType(o.w)
           /\ \/ o.w.shard = w.shard
              \/ Accepted(w.shard, req) /\ o.w.shard = ShardAfter(w.shard, req)
           /\ (Good(req, o.resp) /\ (Quiet(w) \/ Clean(o.w))) => Answered(w, req, o)
<1> DEFINE h == Handled(w, req)
<1>1. /\ WorkerType(h) /\ h.up = w.up /\ ~h.partial
      /\ h.shard = ShardAfter(w.shard, Line(w, req))
      /\ h.unread = Append(w.unread, ResponseTo(w.shard, Line(w, req)))
      /\ h.unread # << >>
  BY HandledRight
<1>2. ~Accepted(w.shard, Line(w, req)) => h.shard = w.shard
  BY <1>1, RefusedIsErr
<1>3. Accepted(w.shard, Line(w, req)) => Line(w, req) = req /\ ~w.partial
  BY GarbledRefused DEF Line, WorkerType
<1>4. \/ h.shard = w.shard
      \/ Accepted(w.shard, req) /\ h.shard = ShardAfter(w.shard, req)
  BY <1>1, <1>2, <1>3
<1>5. ASSUME NEW r, r.kind \in {"Err", "Timeout"} PROVE ~Good(req, r)
  BY <1>5 DEF Good, ExpectedKind
<1>6. CASE w.up /\ o = [w |-> Read(h), resp |-> Head(h.unread), cost |-> 0]
  <2> HIDE DEF h
  <2>1. o.w = [h EXCEPT !.unread = Tail(@)] /\ o.resp = Head(h.unread)
    BY <1>6 DEF Read
  <2>2. o.w = [up |-> h.up, shard |-> h.shard, unread |-> Tail(h.unread), partial |-> h.partial]
    BY <1>1, <2>1 DEF WorkerType
  <2>3. /\ o.w.up = h.up /\ o.w.shard = h.shard /\ o.w.unread = Tail(h.unread)
        /\ o.w.partial = h.partial
    BY <2>2
  <2>4. IsSeq(Tail(h.unread))
    BY <1>1, TailSeq DEF WorkerType
  <2>5. WorkerType(o.w)
    BY <1>1, <2>2, <2>3, <2>4 DEF WorkerType
  <2>6. ASSUME Good(req, o.resp), Quiet(w) \/ Clean(o.w)
        PROVE  Answered(w, req, o)
    <3> DEFINE r == ResponseTo(w.shard, Line(w, req))
               n == Len(w.unread)
    <3>1. /\ n \in Nat /\ (w.unread = << >> <=> n = 0)
          /\ Len(h.unread) = n + 1
          /\ h.unread[n + 1] = r
      BY <1>1, AppendSeq, LenSeq DEF WorkerType
    <3>2. /\ IsSeq(h.unread) /\ Head(h.unread) = h.unread[1]
          /\ Len(Tail(h.unread)) = Len(h.unread) - 1
      BY <1>1, TailSeq DEF WorkerType
    <3>3. o.w.unread = << >> <=> Len(o.w.unread) = 0
      BY <2>3, <2>4, LenSeq
    <3> HIDE DEF n, r
    <3>4. n = 0 /\ o.w.unread = << >>
      <4>1. Len(o.w.unread) = n
        BY <2>3, <3>1, <3>2
      <4>2. w.unread = << >> \/ o.w.unread = << >>
        BY <2>6 DEF Quiet, Clean
      <4> QED
        BY <3>1, <3>3, <4>1, <4>2
    <3>5. o.resp = r /\ w.unread = << >>
      BY <2>1, <3>1, <3>2, <3>4
    <3>6. Accepted(w.shard, Line(w, req))
      <4>1. SUFFICES ASSUME ~Accepted(w.shard, Line(w, req))
                     PROVE  FALSE
        OBVIOUS
      <4>2. r.kind = "Err"
        BY <4>1, RefusedIsErr DEF r
      <4> QED
        BY <4>2, <2>6, <3>5, <1>5
    <3> QED
      BY <1>1, <1>3, <2>3, <3>4, <3>5, <3>6 DEF Answered, Quiet, r
  <2> QED
    BY <1>4, <2>3, <2>5, <2>6
<1>7. CASE w.up /\ o = [w |-> h, resp |-> Timeout, cost |-> 1]
  <2> HIDE DEF h
  <2>1. o.w = h /\ o.resp.kind = "Timeout"
    BY <1>7 DEF Timeout
  <2> QED
    BY <1>1, <1>4, <1>5, <2>1
<1>8. CASE o = [w |-> w, resp |-> Err, cost |-> 0] \/ o = [w |-> w, resp |-> Err, cost |-> 1]
  <2>1. o.w = w /\ o.resp.kind = "Err"
    BY <1>8 DEF Err
  <2> QED
    BY <1>5, <2>1
<1>9. CASE o = [w |-> [w EXCEPT !.partial = TRUE], resp |-> Err, cost |-> 1]
  <2>1. o.w = [w EXCEPT !.partial = TRUE] /\ o.resp.kind = "Err"
    BY <1>9 DEF Err
  <2>2. o.w = [up |-> w.up, shard |-> w.shard, unread |-> w.unread, partial |-> TRUE]
    BY <2>1 DEF WorkerType
  <2>3. WorkerType(o.w) /\ o.w.shard = w.shard
    BY <2>2 DEF WorkerType
  <2> QED
    BY <1>5, <2>1, <2>3
<1>10. CASE o = [w |-> [w EXCEPT !.up = FALSE], resp |-> Err, cost |-> 1]
  <2>1. o.w = [w EXCEPT !.up = FALSE] /\ o.resp.kind = "Err"
    BY <1>10 DEF Err
  <2>2. o.w = [up |-> FALSE, shard |-> w.shard, unread |-> w.unread, partial |-> w.partial]
    BY <2>1 DEF WorkerType
  <2>3. WorkerType(o.w) /\ o.w.shard = w.shard
    BY <2>2 DEF WorkerType
  <2> QED
    BY <1>5, <2>1, <2>3
<1>11. CASE o = [w |-> [h EXCEPT !.up = FALSE, !.unread = w.unread], resp |-> Err, cost |-> 1]
  <2> HIDE DEF h
  <2>1. o.w = [h EXCEPT !.up = FALSE, !.unread = w.unread] /\ o.resp.kind = "Err"
    BY <1>11 DEF Err
  <2>2. o.w = [up |-> FALSE, shard |-> h.shard, unread |-> w.unread, partial |-> h.partial]
    BY <1>1, <2>1 DEF WorkerType
  <2>3. WorkerType(o.w) /\ o.w.shard = h.shard
    BY <1>1, <2>2 DEF WorkerType
  <2> QED
    BY <1>4, <1>5, <2>1, <2>3
<1>12. CASE ~w.up /\ w.unread # << >> /\ o = [w |-> Read(w), resp |-> Head(w.unread), cost |-> 0]
  <2>1. o.w = [w EXCEPT !.unread = Tail(@)]
    BY <1>12 DEF Read
  <2>2. o.w = [up |-> w.up, shard |-> w.shard, unread |-> Tail(w.unread), partial |-> w.partial]
    BY <2>1 DEF WorkerType
  <2>3. IsSeq(Tail(w.unread))
    BY <1>12, TailSeq DEF WorkerType
  <2>4. WorkerType(o.w) /\ o.w.shard = w.shard /\ o.w.up = w.up
    BY <2>2, <2>3 DEF WorkerType
  <2>5. ~Quiet(w) /\ ~Clean(o.w)
    BY <1>12, <2>4 DEF Quiet, Clean
  <2> QED
    BY <2>4, <2>5
<1> HIDE DEF h
<1>13. w.up \in BOOLEAN
  BY DEF WorkerType
<1> QED
  BY <1>6, <1>7, <1>8, <1>9, <1>10, <1>11, <1>12, <1>13 DEF Outcomes, h
-----------------------------------------------------------------------------
(* The steps of the constructor.                                           *)

LEMMA EndsRight ==
    /\ Ends \in [0..Len(Topology) -> 0..TotalLanes]
    /\ LanesUpTo(Ends)
BY TotalAssumption, Zenon DEF Ends

LEMMA EndsFacts ==
    /\ Len(Topology) \in Nat \ {0} /\ TotalLanes \in Nat
    /\ \A k \in 0..Len(Topology) : Ends[k] \in Nat
    /\ Ends[0] = 0 /\ Ends[Len(Topology)] = TotalLanes
    /\ \A i \in Shards : Topology[i] \in Nat \ {0} /\ Ends[i] = Ends[i - 1] + Topology[i]
<1> DEFINE n == Len(Topology)
<1>1. n \in Nat \ {0} /\ \A i \in 1..n : Topology[i] \in Nat \ {0}
  BY RuntimeAssumption
<1>2. TotalLanes \in Nat
  BY TotalAssumption
<1> HIDE DEF n
<1>3. \A k \in 0..n : Ends[k] \in 0..TotalLanes
  BY EndsRight DEF n
<1>4. \A k \in 0..n : Ends[k] \in Nat
  BY <1>2, <1>3
<1> QED
  BY <1>1, <1>2, <1>4, EndsRight DEF n, LanesUpTo, Shards

(* Nothing is in progress.                                                 *)
LEMMA NothingInProgress ==
    ASSUME op = Idle
    PROVE  OpType /\ SoFar /\ SnapshotSoFar /\ SignalSoFar
BY DEF OpType, SoFar, ReadSoFar, TickSoFar, SetSoFar, RestoreSoFar, RecoverSoFar,
    SnapshotSoFar, SignalSoFar, Idle

LEMMA NothingInProgressNext ==
    ASSUME op' = Idle
    PROVE  OpType' /\ SoFar' /\ SnapshotSoFar' /\ SignalSoFar'
BY DEF OpType, SoFar, ReadSoFar, TickSoFar, SetSoFar, RestoreSoFar, RecoverSoFar,
    SnapshotSoFar, SignalSoFar, Idle

LEMMA RuntimeInit == Init => RuntimeInv
<1> SUFFICES ASSUME Init
             PROVE  RuntimeInv
  OBVIOUS
<1>1. RangesInv
  BY NoRanges DEF Init
<1>2. RangesAtEnds
  BY EndsFacts DEF Init, RangesAtEnds
<1>3. Types
  BY RemoteType DEF Init, Types
<1>4. Construction
  BY RemoteType DEF Init, Construction
<1>5. SavedRight /\ InStep /\ Vectors
  BY DEF Init, SavedRight, InStep, Vectors
<1> QED
  BY <1>1, <1>2, <1>3, <1>4, <1>5, NothingInProgress DEF Init, RuntimeInv

LEMMA AddShardStep ==
    ASSUME RuntimeInv, AddShard
    PROVE  RuntimeInv'
<1> DEFINE n == Len(infos)
           i == n + 1
           req == InitRequest(i)
<1>1. /\ phase = "building" /\ n < Len(Topology)
      /\ UNCHANGED <<fresh, op, saved, trusted, before>>
  BY DEF AddShard
<1>2. PICK o \in Outcomes(worker[i], req) :
         /\ worker' = [worker EXCEPT ![i] = o.w]
         /\ IF Good(req, o.resp)
            THEN /\ infos' = Append(infos, Info(startLane, Topology[i]))
                 /\ startLane' = startLane + Topology[i]
                 /\ phase' = phase
            ELSE /\ phase' = "failed"
                 /\ UNCHANGED <<infos, startLane>>
  BY DEF AddShard
<1>3. n \in Nat /\ infos \in Seq(Ranges) /\ startLane \in Nat
  BY DEF RuntimeInv, RangesInv, RangesType
<1> HIDE DEF n
<1>4. i \in Shards /\ i # n /\ i - 1 = n /\ 1..(n + 1) = (1..n) \cup {i}
  BY <1>1, <1>3, EndsFacts DEF Shards
<1>5. /\ WorkerType(worker[i]) /\ Quiet(worker[i]) /\ DOMAIN worker = Shards
      /\ op = Idle /\ trusted /\ saved = Never
  BY <1>1, <1>4 DEF RuntimeInv, Types, Construction
<1>6. /\ WorkerType(o.w)
      /\ Good(req, o.resp) => Answered(worker[i], req, o)
  BY <1>5, OutcomeRight
<1>7. /\ DOMAIN worker' = Shards /\ worker'[i] = o.w
      /\ \A j \in Shards : j # i => worker'[j] = worker[j]
  BY <1>2, <1>4, <1>5
<1>8. RangesInv'
  BY <1>1, <1>2, PushRange, SameRanges DEF RuntimeInv, n
<1>9. Types'
  <2>1. \A j \in Shards : WorkerType(worker'[j]) /\ WorkerType(fresh'[j])
    BY <1>1, <1>6, <1>7 DEF RuntimeInv, Types
  <2>2. phase' \in {"building", "failed"}
    BY <1>1, <1>2
  <2> QED
    BY <1>1, <1>5, <1>7, <2>1, <2>2 DEF RuntimeInv, Types
<1>10. SavedRight' /\ InStep' /\ Vectors'
  BY <1>1, <1>2, <1>5 DEF SavedRight, InStep, Vectors
<1>11. RangesAtEnds' /\ Construction'
  <2>1. CASE ~Good(req, o.resp)
    BY <1>1, <1>2, <1>5, <2>1 DEF RuntimeInv, RangesAtEnds, Construction
  <2>2. CASE Good(req, o.resp)
    <3>1. Answered(worker[i], req, o)
      BY <1>6, <2>2
    <3>2. /\ Len(infos') = n + 1 /\ infos'[i] = Info(startLane, Topology[i])
          /\ \A j \in 1..n : infos'[j] = infos[j]
          /\ startLane' = startLane + Topology[i] /\ phase' = "building"
      <4>1. Info(startLane, Topology[i]) \in Ranges
        BY <1>3, <1>4, EndsFacts DEF Info, Ranges
      <4>2. infos' = Append(infos, Info(startLane, Topology[i]))
        BY <1>2, <2>2
      <4> QED
        BY <1>1, <1>2, <1>3, <2>2, <4>1, <4>2, AppendProperties DEF n
    <3>3. RangesAtEnds'
      <4>1. startLane = Ends[n] /\ \A j \in 1..n : infos[j].start = Ends[j - 1]
        BY DEF RuntimeInv, RangesAtEnds, n
      <4>2. startLane' = Ends[i]
        BY <1>4, <3>2, <4>1, EndsFacts
      <4>3. infos'[i].start = Ends[i - 1]
        BY <1>4, <3>2, <4>1 DEF Info
      <4>4. \A j \in 1..(n + 1) : infos'[j].start = Ends[j - 1]
        BY <1>4, <3>2, <4>1, <4>3
      <4> QED
        BY <3>2, <4>2, <4>4 DEF RangesAtEnds
    <3>4. req.kind = "InitShard" /\ req.info = Info(startLane, Topology[i])
      BY DEF InitRequest
    <3>5. worker'[i].shard = NewShard(infos'[i]) /\ Quiet(worker'[i])
      <4> HIDE DEF req
      <4>1. ~ShardRecord(worker[i].shard)
        BY <3>1, <3>4, ShardIsKept DEF Answered
      <4>2. worker[i].shard = NoShard
        BY <1>5, <4>1 DEF WorkerType
      <4>3. ShardAfter(NoShard, req) = NewShard(req.info)
        BY <3>1, <3>4, <4>2, ShardIsMade DEF Answered
      <4> QED
        BY <1>7, <3>1, <3>2, <3>4, <4>2, <4>3 DEF Answered
    <3>6. \A j \in 1..(n + 1) : worker'[j].shard = NewShard(infos'[j])
      <4>1. \A j \in 1..n : j \in Shards /\ j # i /\ worker[j].shard = NewShard(infos[j])
        BY <1>1, <1>3, EndsFacts DEF RuntimeInv, Construction, Shards, n
      <4> QED
        BY <1>4, <1>7, <3>2, <3>5, <4>1
    <3>7. \A j \in Shards : Quiet(worker'[j])
      BY <1>1, <1>7, <3>5 DEF RuntimeInv, Construction
    <3>8. Construction'
      BY <1>1, <1>5, <3>2, <3>6, <3>7 DEF Construction
    <3> QED
      BY <3>3, <3>8
  <2> QED
    BY <2>1, <2>2
<1> QED
  BY <1>1, <1>5, <1>8, <1>9, <1>10, <1>11, NothingInProgressNext DEF RuntimeInv

LEMMA NewShardFacts ==
    ASSUME NEW info \in Ranges, info.lanes # 0
    PROVE  LET s == NewShard(info)
           IN  /\ ShardRecord(s) /\ s # NoShard
               /\ Info(s.start, s.lanes) = info
               /\ s.in = [l \in 1..info.lanes |-> 0] /\ s.cnt = [l \in 1..info.lanes |-> 0]
               /\ LaneVector(s.cnt, info.lanes)
<1> DEFINE zero == [l \in 1..info.lanes |-> 0]
           s == NewShard(info)
<1>1. info = [start |-> info.start, lanes |-> info.lanes] /\ info.lanes \in Nat
  BY DEF Ranges
<1>2. zero \in Seq({0}) /\ Len(zero) = info.lanes
  BY <1>1
<1> HIDE DEF zero
<1>3. s = [start |-> info.start, lanes |-> info.lanes, in |-> zero, cnt |-> zero, ops |-> 0]
  BY DEF NewShard, zero
<1> HIDE DEF s
<1>4. /\ s.start = info.start /\ s.lanes = info.lanes /\ s.in = zero /\ s.cnt = zero
      /\ s = [start |-> s.start, lanes |-> s.lanes, in |-> s.in, cnt |-> s.cnt, ops |-> s.ops]
  BY <1>3
<1>5. ShardRecord(s)
  BY <1>4 DEF ShardRecord
<1>6. s # NoShard
  BY <1>4, <1>1 DEF NoShard
<1>7. Info(s.start, s.lanes) = info
  BY <1>1, <1>4 DEF Info
<1>8. LaneVector(zero, info.lanes)
  BY <1>2, SomeSeq DEF LaneVector
<1> QED
  BY <1>4, <1>5, <1>6, <1>7, <1>8 DEF s, zero

(* The ranges of a runtime that is ready.                                  *)
LEMMA ReadyRanges ==
    ASSUME RangesInv, RangesAtEnds, Len(infos) = Len(Topology)
    PROVE  /\ startLane = TotalLanes
           /\ \A i \in Shards :
                 /\ infos[i] \in Ranges /\ infos[i].start \in Nat
                 /\ infos[i].start = Ends[i - 1] /\ infos[i].lanes = Topology[i]
                 /\ infos[i].lanes # 0
<1>1. startLane = TotalLanes
  BY EndsFacts DEF RangesAtEnds
<1>2. \A i \in Shards : infos[i] \in Ranges /\ infos[i].start = Ends[i - 1]
  BY DEF RangesInv, RangesType, RangesAtEnds, Shards
<1>3. \A i \in Shards : infos[i].lanes = Topology[i] /\ infos[i].lanes # 0
  BY EndsFacts DEF RangesInv, RangesOfTopology, Shards
<1>4. \A i \in Shards : infos[i].start \in Nat
  BY <1>2 DEF Ranges
<1> QED
  BY <1>1, <1>2, <1>3, <1>4

LEMMA BuiltStep ==
    ASSUME RuntimeInv, Built
    PROVE  RuntimeInv'
<1>1. /\ phase = "building" /\ Len(infos) = Len(Topology) /\ phase' = "ready"
      /\ UNCHANGED <<infos, startLane, worker, fresh, op, saved, trusted, before>>
  BY DEF Built
<1>2. /\ op = Idle /\ trusted /\ saved = Never
      /\ \A i \in Shards : Quiet(worker[i])
      /\ \A i \in 1..Len(infos) : worker[i].shard = NewShard(infos[i])
  BY <1>1 DEF RuntimeInv, Construction
<1>3. ASSUME NEW i \in Shards
      PROVE  HoldsRange(worker[i], infos[i]) /\ LaneVector(worker[i].shard.cnt, Topology[i])
  <2>1. infos[i] \in Ranges /\ infos[i].lanes = Topology[i] /\ infos[i].lanes # 0
    BY <1>1, ReadyRanges DEF RuntimeInv
  <2>2. worker[i].shard = NewShard(infos[i])
    BY <1>1, <1>2 DEF Shards
  <2> QED
    BY <2>1, <2>2, NewShardFacts DEF HoldsRange
<1>4. RangesInv'
  BY <1>1, SameRanges DEF RuntimeInv
<1>5. RangesAtEnds' /\ Types'
  BY <1>1 DEF RuntimeInv, RangesAtEnds, Types
<1>6. Construction' /\ SavedRight' /\ InStep' /\ Vectors'
  BY <1>1, <1>2, <1>3 DEF Construction, SavedRight, InStep, Vectors
<1> QED
  BY <1>1, <1>2, <1>4, <1>5, <1>6, NothingInProgressNext DEF RuntimeInv

LEMMA RetryStep ==
    ASSUME RuntimeInv, Retry
    PROVE  RuntimeInv'
<1>1. /\ phase = "failed" /\ phase' = "building" /\ infos' = << >> /\ startLane' = 0
      /\ worker' = [i \in Shards |-> [worker[i] EXCEPT !.unread = << >>, !.partial = FALSE]]
      /\ UNCHANGED <<fresh, op, saved, trusted, before>>
  BY DEF Retry
<1>2. op = Idle /\ trusted /\ saved = Never
  BY <1>1 DEF RuntimeInv, Construction
<1>3. ASSUME NEW i \in Shards
      PROVE  WorkerType(worker'[i]) /\ Quiet(worker'[i])
  <2>1. WorkerType(worker[i])
    BY DEF RuntimeInv, Types
  <2>2. worker'[i] = [up |-> worker[i].up, shard |-> worker[i].shard, unread |-> << >>,
                      partial |-> FALSE]
    BY <1>1, <2>1 DEF WorkerType
  <2>3. IsSeq(<< >>)
    BY RemoteType DEF WorkerType, Remote
  <2> QED
    BY <2>1, <2>2, <2>3 DEF WorkerType, Quiet
<1>4. RangesInv'
  BY <1>1, NoRangesNext
<1>0. Len(infos') = 0 /\ 1..Len(infos') = {}
  <2>1. Len(infos') = 0
    BY <1>1
  <2> QED
    BY <2>1
<1>5. RangesAtEnds'
  BY <1>0, <1>1, EndsFacts DEF RangesAtEnds
<1>6. Types'
  BY <1>1, <1>3 DEF RuntimeInv, Types
<1>7. Construction'
  BY <1>0, <1>1, <1>2, <1>3 DEF Construction
<1>8. SavedRight' /\ InStep' /\ Vectors'
  BY <1>1, <1>2 DEF SavedRight, InStep, Vectors
<1> QED
  BY <1>1, <1>2, <1>4, <1>5, <1>6, <1>7, <1>8, NothingInProgressNext DEF RuntimeInv

-----------------------------------------------------------------------------
(* The operations begin.                                                   *)

LEMMA BeginStep ==
    ASSUME RuntimeInv, NEW kind \in OpKinds, NEW arg, Begin(kind, arg),
           kind = "SetInput" => arg \in Inputs /\ Len(arg) = startLane,
           kind = "Tick" => arg \in 0..MaxSteps,
           kind \in {"Restore", "Recover"} => arg \in Snapshots
    PROVE  RuntimeInv'
<1>1. /\ phase = "ready" /\ op = Idle
      /\ op' = [kind |-> kind, arg |-> arg, todo |-> Shards, stage |-> 1, ok |-> TRUE,
                acc |-> << >>, info |-> Never]
      /\ before' = Held /\ fresh' = [i \in Shards |-> Remote]
      /\ UNCHANGED <<phase, infos, startLane, worker, saved, trusted>>
  BY DEF Begin
<1>2. /\ op'.kind = kind /\ op'.arg = arg /\ op'.todo = Shards /\ op'.stage = 1 /\ op'.ok = TRUE
      /\ op'.acc = << >> /\ op' # Idle
      /\ op' = [kind |-> op'.kind, arg |-> op'.arg, todo |-> op'.todo, stage |-> op'.stage,
                ok |-> op'.ok, acc |-> op'.acc, info |-> op'.info]
  BY <1>1 DEF Idle, OpKinds
<1>3. before' = [i \in Shards |-> [in |-> worker[i].shard.in, cnt |-> worker[i].shard.cnt]]
  BY <1>1 DEF Held, Storage
<1>4. \A i \in Shards : /\ before'[i].in = worker[i].shard.in
                        /\ before'[i].cnt = worker[i].shard.cnt
  BY <1>3
<1>5. RangesInv'
  BY <1>1, SameRanges DEF RuntimeInv
<1>6. RangesAtEnds' /\ Construction' /\ SavedRight'
  BY <1>1 DEF RuntimeInv, RangesAtEnds, Construction, SavedRight
<1>7. Types'
  BY <1>1, RemoteType DEF RuntimeInv, Types
<1>8. OpType'
  <2>1. op'.stage \in 1..Stages(op'.kind)
    BY <1>2 DEF Stages
  <2>2. before' = [i \in Shards |-> [in |-> before'[i].in, cnt |-> before'[i].cnt]]
    BY <1>3, <1>4
  <2>3. op'.kind \in {"Restore", "Recover"} => op'.arg \in Snapshots'
    BY <1>1, <1>2 DEF Snapshots
  <2> QED
    BY <1>1, <1>2, <2>1, <2>2, <2>3 DEF OpType
<1>9. InStep' /\ Vectors'
  BY <1>1, <1>2, <1>4 DEF RuntimeInv, InStep, Vectors
<1>10. SoFar'
  <2> SUFFICES ASSUME NEW i \in Shards
               PROVE  /\ ReadSoFar(i)' /\ TickSoFar(i)' /\ SetSoFar(i)' /\ RestoreSoFar(i)'
                      /\ RecoverSoFar(i)'
    BY DEF SoFar
  <2>1. HoldsStorage(worker[i], before[i])'
    BY <1>1, <1>4 DEF HoldsStorage
  <2>2. ReadSoFar(i)' /\ TickSoFar(i)'
    BY <1>2, <2>1 DEF ReadSoFar, TickSoFar
  <2>3. SetSoFar(i)'
    BY <1>1, <1>2, <1>4 DEF SetSoFar
  <2>4. RestoreSoFar(i)' /\ RecoverSoFar(i)'
    BY <1>1, <1>2 DEF RestoreSoFar, RecoverSoFar
  <2> QED
    BY <2>2, <2>3, <2>4
<1>11. IsSeq(<< >>) /\ Len(<< >>) = 0
  BY RemoteType DEF WorkerType, Remote
<1>12. 0 \in 0..Len(Topology) /\ Shards = (0 + 1)..Len(Topology) /\ 1..0 = {}
  BY EndsFacts DEF Shards
<1>13. SnapshotSoFar'
  BY <1>2, <1>11, <1>12 DEF SnapshotSoFar
<1>14. SignalSoFar'
  BY <1>2, <1>11, <1>12, EndsFacts DEF SignalSoFar
<1> QED
  BY <1>5, <1>6, <1>7, <1>8, <1>9, <1>10, <1>13, <1>14 DEF RuntimeInv

(* A step that leaves all of this alone.                                   *)
LEMMA SameRuntime ==
    ASSUME RuntimeInv,
           UNCHANGED <<phase, infos, startLane, worker, fresh, op, saved, trusted, before>>
    PROVE  RuntimeInv'
<1>1. RangesInv'
  BY SameRanges DEF RuntimeInv
<1>2. RangesAtEnds' /\ Construction' /\ SavedRight' /\ Types' /\ InStep' /\ Vectors'
  BY DEF RuntimeInv, RangesAtEnds, Construction, SavedRight, Types, InStep, Vectors
<1>3. OpType'
  BY DEF RuntimeInv, OpType, Snapshots
<1>4. SoFar'
  BY DEF RuntimeInv, SoFar, ReadSoFar, TickSoFar, SetSoFar, RestoreSoFar, RecoverSoFar, Slice
<1>5. SnapshotSoFar' /\ SignalSoFar'
  BY DEF RuntimeInv, SnapshotSoFar, SignalSoFar
<1> QED
  BY <1>1, <1>2, <1>3, <1>4, <1>5 DEF RuntimeInv

LEMMA OperationStep ==
    ASSUME RuntimeInv, Operation
    PROVE  RuntimeInv'
<1>1. ASSUME NEW kind, Reject(kind) PROVE RuntimeInv'
  BY <1>1, SameRuntime DEF Reject
<1>2. ASSUME NEW v \in Inputs, SetInput(v) PROVE RuntimeInv'
  BY <1>1, <1>2, BeginStep DEF SetInput, OpKinds
<1>3. ASSUME NEW n \in 0..MaxSteps, Tick(n) PROVE RuntimeInv'
  BY <1>3, BeginStep DEF Tick, OpKinds
<1>4. ASSUME GetSignal \/ Health \/ Checkpoint PROVE RuntimeInv'
  BY <1>4, BeginStep DEF GetSignal, Health, Checkpoint, OpKinds
<1>5. ASSUME NEW snap \in Snapshots, Restore(snap) \/ Recover(snap) PROVE RuntimeInv'
  BY <1>1, <1>5, BeginStep DEF Restore, Recover, OpKinds
<1> QED
  BY <1>2, <1>3, <1>4, <1>5 DEF Operation
-----------------------------------------------------------------------------
(* One request of an operation.                                            *)

(* What the operation is left with.                                        *)
LEMMA AdvanceRight ==
    ASSUME OpType, op # Idle, NEW i, NEW ok \in BOOLEAN, NEW resp, op' = Advance(i, ok, resp)
    PROVE  /\ op'.kind = op.kind /\ op'.arg = op.arg /\ op' # Idle
           /\ op' = [kind |-> op'.kind, arg |-> op'.arg, todo |-> op'.todo,
                     stage |-> op'.stage, ok |-> op'.ok, acc |-> op'.acc, info |-> op'.info]
           /\ op'.ok = (op.ok /\ ok)
           /\ \/ /\ ok /\ op.stage = 1 /\ op.kind \in {"Restore", "Recover"}
                 /\ op'.stage = 2 /\ op'.todo = op.todo /\ op'.acc = op.acc
              \/ /\ ok => op.stage = Stages(op.kind)
                 /\ op'.stage = 1 /\ op'.acc = Collected(resp)
                 /\ op'.todo = IF ok \/ op.kind = "Tick" THEN op.todo \ {i} ELSE {}
<1>1. /\ op = [kind |-> op.kind, arg |-> op.arg, todo |-> op.todo, stage |-> op.stage,
               ok |-> op.ok, acc |-> op.acc, info |-> op.info]
      /\ op.kind \in OpKinds /\ op.ok \in BOOLEAN /\ op.stage \in 1..Stages(op.kind)
  BY DEF OpType
<1>2. op.kind # "idle" /\ Idle.kind = "idle"
  BY <1>1 DEF OpKinds, Idle
<1>3. CASE ok /\ op.stage < Stages(op.kind)
  <2>1. op.stage = 1 /\ op.kind \in {"Restore", "Recover"}
    BY <1>1, <1>3 DEF Stages
  <2>2. PICK info : op' = [op EXCEPT !.stage = @ + 1, !.info = info]
    BY <1>3 DEF Advance
  <2>3. op' = [kind |-> op.kind, arg |-> op.arg, todo |-> op.todo, stage |-> op.stage + 1,
               ok |-> op.ok, acc |-> op.acc, info |-> info]
    BY <1>1, <2>2
  <2>4. /\ op'.kind = op.kind /\ op'.arg = op.arg /\ op'.stage = op.stage + 1
        /\ op'.todo = op.todo /\ op'.acc = op.acc /\ op'.ok = op.ok
        /\ op' = [kind |-> op'.kind, arg |-> op'.arg, todo |-> op'.todo,
                  stage |-> op'.stage, ok |-> op'.ok, acc |-> op'.acc, info |-> op'.info]
    BY <2>3
  <2>5. op'.stage = 2
    BY <2>1, <2>4
  <2> QED
    BY <1>1, <1>2, <1>3, <2>1, <2>4, <2>5
<1>4. CASE ~(ok /\ op.stage < Stages(op.kind))
  <2> DEFINE acc == Collected(resp)
             todo == IF ok \/ op.kind = "Tick" THEN op.todo \ {i} ELSE {}
  <2>0. op' = [op EXCEPT !.stage = 1, !.ok = @ /\ ok,
                         !.todo = IF ok \/ KeepsGoing(op.kind) THEN @ \ {i} ELSE {},
                         !.acc = acc]
    BY <1>4 DEF Advance
  <2> HIDE DEF acc
  <2>1. op' = [op EXCEPT !.stage = 1, !.ok = (op.ok /\ ok), !.todo = todo, !.acc = acc]
    BY <1>1, <2>0 DEF KeepsGoing
  <2> HIDE DEF todo
  <2>2. op' = [kind |-> op.kind, arg |-> op.arg, todo |-> todo, stage |-> 1,
               ok |-> (op.ok /\ ok), acc |-> acc, info |-> op.info]
    BY <1>1, <2>1
  <2>3. /\ op'.kind = op.kind /\ op'.arg = op.arg /\ op'.stage = 1
        /\ op'.todo = todo /\ op'.acc = acc /\ op'.ok = (op.ok /\ ok)
        /\ op' = [kind |-> op'.kind, arg |-> op'.arg, todo |-> op'.todo,
                  stage |-> op'.stage, ok |-> op'.ok, acc |-> op'.acc, info |-> op'.info]
    BY <2>2
  <2>4. ok => op.stage = Stages(op.kind)
    BY <1>1, <1>4 DEF Stages
  <2> QED
    BY <1>2, <2>3, <2>4 DEF acc, todo
<1> QED
  BY <1>3, <1>4

(* The request of each operation.                                          *)
LEMMA RequestRight ==
    ASSUME OpType, op # Idle, NEW i
    PROVE  LET req == RequestOf(i)
           IN  /\ op.kind = "SetInput" =>
                     req.kind = "SetInput" /\ req.values = Slice(op.arg, i)
               /\ op.kind = "Tick" => req.kind = "Tick" /\ req.steps = op.arg
               /\ op.kind \in {"GetSignal", "Health", "Snapshot"} => req.kind = op.kind
               /\ (op.kind = "Restore" /\ op.stage = 1) => req.kind = "Stats"
               /\ (op.kind = "Recover" /\ op.stage = 1) =>
                     req.kind = "InitShard" /\ req.info = infos[i]
               /\ (op.kind \in {"Restore", "Recover"} /\ op.stage = 2) =>
                     req.kind = "RestoreSnapshot" /\ req.storage = op.arg.storages[i]
<1>1. op.kind \in OpKinds /\ op.stage \in 1..Stages(op.kind)
  BY DEF OpType
<1>2. CASE op.kind = "SetInput"
  BY <1>2 DEF RequestOf
<1>3. CASE op.kind = "Tick"
  BY <1>3 DEF RequestOf
<1>4. CASE op.kind \in {"GetSignal", "Health", "Snapshot"}
  BY <1>4 DEF RequestOf
<1>5. CASE op.kind = "Restore" /\ op.stage = 1
  BY <1>5 DEF RequestOf
<1>6. CASE op.kind = "Restore" /\ op.stage = 2
  BY <1>6 DEF RequestOf
<1>7. CASE op.kind = "Recover" /\ op.stage = 1
  BY <1>7 DEF RequestOf
<1>8. CASE op.kind = "Recover" /\ op.stage = 2
  BY <1>8 DEF RequestOf
<1>9. op.kind \in {"Restore", "Recover"} => op.stage \in {1, 2}
  BY <1>1 DEF Stages
<1> QED
  BY <1>1, <1>2, <1>3, <1>4, <1>5, <1>6, <1>7, <1>8, <1>9 DEF OpKinds

(* The types of the operation after a request.                             *)
LEMMA OpTypeNext ==
    ASSUME OpType, op # Idle, NEW i, NEW ok \in BOOLEAN, NEW resp, op' = Advance(i, ok, resp),
           UNCHANGED <<phase, startLane, saved, before>>
    PROVE  OpType' /\ op'.todo \subseteq op.todo
<1>1. /\ op'.kind = op.kind /\ op'.arg = op.arg /\ op' # Idle
      /\ op' = [kind |-> op'.kind, arg |-> op'.arg, todo |-> op'.todo,
                stage |-> op'.stage, ok |-> op'.ok, acc |-> op'.acc, info |-> op'.info]
      /\ op'.ok \in BOOLEAN
      /\ op'.stage = 1 \/ (op'.stage = 2 /\ op.kind \in {"Restore", "Recover"})
      /\ op'.todo \subseteq op.todo
  BY AdvanceRight
<1>2. op'.stage \in 1..Stages(op'.kind)
  BY <1>1 DEF Stages
<1> QED
  BY <1>1, <1>2 DEF OpType, Snapshots

(* A request of the running runtime to one of its shards: what all the     *)
(* parts of the invariant need to know of it.                              *)
RequestMade(i, req, ok, o) ==
    /\ op # Idle /\ i \in op.todo /\ i \in Shards
    /\ op.kind # "Tick" => \A j \in op.todo : i <= j
    /\ op.kind # "Recover"
    /\ req = RequestOf(i)
    /\ ok = Good(req, o.resp) /\ ok \in BOOLEAN
    /\ worker'[i] = o.w /\ DOMAIN worker' = Shards
    /\ \A j \in Shards : j # i => worker'[j] = worker[j]
    /\ op' = Advance(i, ok, o.resp)
    /\ UNCHANGED <<phase, infos, startLane, fresh, saved, trusted, before>>
    /\ ShardRecord(worker[i].shard) /\ HoldsRange(worker[i], infos[i])
    /\ infos[i].lanes = Topology[i]
    /\ WorkerType(o.w)
    /\ \/ o.w.shard = worker[i].shard
       \/ Accepted(worker[i].shard, req) /\ o.w.shard = ShardAfter(worker[i].shard, req)
    /\ (ok /\ (Quiet(worker[i]) \/ Clean(o.w))) => Answered(worker[i], req, o)
    /\ (trusted /\ op.ok) => Quiet(worker[i])

LEMMA RequestIsMade ==
    ASSUME RuntimeInv, NEW i \in Shards, RequestShard(i)
    PROVE  \E req, ok, o : RequestMade(i, req, ok, o)
<1> DEFINE req == RequestOf(i)
<1>1. /\ op # Idle /\ i \in op.todo /\ op.kind # "Recover"
      /\ op.kind # "Tick" => \A j \in op.todo : i <= j
      /\ UNCHANGED <<phase, infos, startLane, fresh, saved, trusted, before>>
  BY DEF RequestShard, Turn, KeepsGoing
<1>2. PICK o \in Outcomes(worker[i], req) :
         /\ worker' = [worker EXCEPT ![i] = o.w]
         /\ op' = Advance(i, Good(req, o.resp), o.resp)
  BY DEF RequestShard
<1> DEFINE ok == Good(req, o.resp)
<1>3. ok \in BOOLEAN
  BY DEF Good
<1> HIDE DEF req
<1>4. WorkerType(worker[i]) /\ DOMAIN worker = Shards
  BY DEF RuntimeInv, Types
<1>5. /\ worker'[i] = o.w /\ DOMAIN worker' = Shards
      /\ \A j \in Shards : j # i => worker'[j] = worker[j]
  BY <1>2, <1>4
<1>6. phase = "ready"
  BY <1>1 DEF RuntimeInv, OpType
<1>7. HoldsRange(worker[i], infos[i]) /\ Len(infos) = Len(Topology)
  BY <1>6 DEF RuntimeInv, Construction
<1>8. ShardRecord(worker[i].shard)
  BY <1>4, <1>7 DEF WorkerType, HoldsRange
<1>9. infos[i].lanes = Topology[i]
  BY <1>7, ReadyRanges DEF RuntimeInv
<1>10. /\ WorkerType(o.w)
       /\ \/ o.w.shard = worker[i].shard
          \/ Accepted(worker[i].shard, req) /\ o.w.shard = ShardAfter(worker[i].shard, req)
       /\ (ok /\ (Quiet(worker[i]) \/ Clean(o.w))) => Answered(worker[i], req, o)
  BY <1>4, OutcomeRight
<1>11. (trusted /\ op.ok) => Quiet(worker[i])
  BY <1>6 DEF RuntimeInv, InStep
<1> HIDE DEF ok
<1>12. RequestMade(i, req, ok, o)
  BY <1>1, <1>2, <1>3, <1>5, <1>7, <1>8, <1>9, <1>10, <1>11 DEF RequestMade, req, ok
<1> QED
  BY <1>12

(* The state of the worker asked, and of all others.                       *)
LEMMA RequestWorkers ==
    ASSUME RuntimeInv, NEW i, NEW req, NEW ok, NEW o, RequestMade(i, req, ok, o)
    PROVE  RangesInv' /\ RangesAtEnds' /\ Types' /\ Construction' /\ SavedRight' /\ InStep'
           /\ Vectors' /\ OpType'
<1>1. RangesInv'
  BY SameRanges DEF RuntimeInv, RequestMade
<1>2. RangesAtEnds' /\ SavedRight'
  BY DEF RuntimeInv, RangesAtEnds, SavedRight, RequestMade
<1>3. Types'
  BY DEF RuntimeInv, Types, RequestMade
<1>4. phase = "ready" /\ op # Idle
  BY DEF RuntimeInv, OpType, RequestMade
<1>5. OpType' /\ op' # Idle /\ op'.kind = op.kind /\ (op'.ok => op.ok /\ ok)
  BY OpTypeNext, AdvanceRight DEF RuntimeInv, RequestMade
<1>6. HoldsRange(o.w, infos[i])
  <2>1. CASE o.w.shard = worker[i].shard
    BY <2>1 DEF RequestMade, HoldsRange
  <2>2. CASE Accepted(worker[i].shard, req) /\ o.w.shard = ShardAfter(worker[i].shard, req)
    <3>1. /\ ShardRecord(o.w.shard)
          /\ o.w.shard.start = worker[i].shard.start /\ o.w.shard.lanes = worker[i].shard.lanes
      BY <2>2, ShardIsKept DEF RequestMade
    <3>2. o.w.shard # NoShard
      BY <3>1 DEF ShardRecord, NoShard
    <3> QED
      BY <3>1, <3>2 DEF RequestMade, HoldsRange
  <2> QED
    BY <2>1, <2>2 DEF RequestMade
<1>7. Construction'
  <2>1. \A j \in Shards : HoldsRange(worker'[j], infos[j])
    BY <1>4, <1>6 DEF RuntimeInv, Construction, RequestMade
  <2> QED
    BY <1>4, <2>1 DEF RuntimeInv, Construction, RequestMade
<1>8. Vectors'
  BY <1>4, <1>5 DEF RuntimeInv, Vectors, RequestMade
<1>9. InStep'
  <2> SUFFICES ASSUME trusted, op'.ok
               PROVE  \A j \in Shards : Quiet(worker'[j])
    BY <1>5 DEF InStep, RequestMade
  <2>1. Quiet(o.w)
    BY <1>5 DEF RequestMade, Answered
  <2>2. \A j \in Shards : Quiet(worker[j])
    BY <1>4, <1>5 DEF RuntimeInv, InStep
  <2> QED
    BY <2>1, <2>2 DEF RequestMade
<1> QED
  BY <1>1, <1>2, <1>3, <1>5, <1>7, <1>8, <1>9

(* How far the operation has come with the shard asked.                    *)
LEMMA RequestSoFar ==
    ASSUME RuntimeInv, NEW i, NEW req, NEW ok, NEW o, RequestMade(i, req, ok, o)
    PROVE  SoFar'
<1>1. /\ op'.kind = op.kind /\ op'.arg = op.arg
      /\ op'.ok = (op.ok /\ ok)
      /\ \/ /\ ok /\ op.stage = 1 /\ op.kind \in {"Restore", "Recover"}
            /\ op'.stage = 2 /\ op'.todo = op.todo
         \/ /\ ok => op.stage = Stages(op.kind)
            /\ op'.todo = IF ok \/ op.kind = "Tick" THEN op.todo \ {i} ELSE {}
  BY AdvanceRight DEF RuntimeInv, RequestMade
<1>2. op'.kind # "Recover"
  BY <1>1 DEF RequestMade
<1>3. ASSUME NEW j \in Shards, j # i
      PROVE  ReadSoFar(j)' /\ TickSoFar(j)' /\ SetSoFar(j)' /\ RestoreSoFar(j)'
  <2>1. ReadSoFar(j) /\ TickSoFar(j) /\ SetSoFar(j) /\ RestoreSoFar(j)
    BY DEF RuntimeInv, SoFar
  <2>2. worker'[j] = worker[j] /\ before' = before /\ infos' = infos /\ trusted' = trusted
    BY <1>3 DEF RequestMade
  <2>3. ReadSoFar(j)'
    BY <1>1, <2>1, <2>2 DEF ReadSoFar
  <2>4. TickSoFar(j)'
    BY <1>1, <1>3, <2>1, <2>2 DEF TickSoFar
  <2>5. SetSoFar(j)'
    BY <1>1, <1>3, <2>1, <2>2 DEF SetSoFar, Slice
  <2>6. RestoreSoFar(j)'
    BY <1>1, <1>3, <2>1, <2>2 DEF RestoreSoFar
  <2> QED
    BY <2>3, <2>4, <2>5, <2>6
<1>4. ReadSoFar(i) /\ TickSoFar(i) /\ SetSoFar(i) /\ RestoreSoFar(i)
  BY DEF RuntimeInv, SoFar, RequestMade
<1> DEFINE s == worker[i].shard
<1>5. /\ worker'[i] = o.w /\ before' = before /\ infos' = infos /\ trusted' = trusted
      /\ i \in op.todo /\ ShardRecord(s)
      /\ o.w.shard = s \/ (Accepted(s, req) /\ o.w.shard = ShardAfter(s, req))
      /\ (trusted /\ op'.ok) => Accepted(s, req) /\ o.w.shard = ShardAfter(s, req)
  BY <1>1 DEF RequestMade, Answered
<1>6. s.lanes = Topology[i]
  BY DEF RequestMade, HoldsRange, Info
<1>7. req = RequestOf(i) /\ OpType /\ op # Idle
  BY DEF RuntimeInv, RequestMade
<1> HIDE DEF s
<1>8. ReadSoFar(i)'
  <2> SUFFICES ASSUME op.kind \in {"GetSignal", "Health", "Snapshot"}
               PROVE  HoldsStorage(worker[i], before[i])'
    BY <1>1, <1>2 DEF ReadSoFar
  <2>1. req.kind \in {"GetSignal", "Health", "Snapshot"}
    BY <1>7, RequestRight
  <2>2. o.w.shard = s
    BY <1>5, <2>1, StorageAfter
  <2> QED
    BY <1>4, <1>5, <2>2 DEF ReadSoFar, HoldsStorage, s
<1>9. TickSoFar(i)'
  <2> SUFFICES ASSUME op.kind = "Tick"
               PROVE  /\ i \notin op'.todo
                      /\ \/ HoldsStorage(worker[i], before[i])'
                         \/ HoldsStorage(worker[i], Ticked(before[i], Topology[i], op.arg))'
                      /\ (trusted /\ op'.ok) =>
                            HoldsStorage(worker[i], Ticked(before[i], Topology[i], op.arg))'
    BY <1>1, <1>5 DEF TickSoFar
  <2>1. req.kind = "Tick" /\ req.steps = op.arg
    BY <1>7, RequestRight
  <2>2. s.in = before[i].in /\ s.cnt = before[i].cnt
    BY <1>4, <1>5 DEF TickSoFar, HoldsStorage, s
  <2> DEFINE t == Ticked(before[i], Topology[i], op.arg)
  <2>3. /\ t.in = s.in
        /\ t.cnt = [l \in 1..s.lanes |-> s.cnt[l] + req.steps * s.in[l]]
    BY <1>6, <2>1, <2>2 DEF Ticked
  <2>4. (Accepted(s, req) /\ o.w.shard = ShardAfter(s, req)) =>
            o.w.shard.in = t.in /\ o.w.shard.cnt = t.cnt
    BY <1>5, <2>1, <2>3, StorageAfter
  <2>5. /\ HoldsStorage(worker[i], before[i])' <=>
              (o.w.shard.in = before[i].in /\ o.w.shard.cnt = before[i].cnt)
        /\ HoldsStorage(worker[i], Ticked(before[i], Topology[i], op.arg))' <=>
              (o.w.shard.in = t.in /\ o.w.shard.cnt = t.cnt)
    <3>1. Ticked(before[i], Topology[i], op.arg)' = t
      BY <1>1, <1>5 DEF Ticked
    <3> QED
      BY <1>5, <3>1 DEF HoldsStorage
  <2> HIDE DEF t
  <2>6. i \notin op'.todo
    BY <1>1
  <2> QED
    BY <1>5, <2>2, <2>4, <2>5, <2>6
<1>10. SetSoFar(i)'
  <2> SUFFICES ASSUME op.kind = "SetInput", trusted, op'.ok
               PROVE  /\ i \notin op'.todo
                      /\ o.w.shard.in = Slice(op.arg, i)
                      /\ o.w.shard.cnt = before[i].cnt
    BY <1>1, <1>5 DEF SetSoFar, Slice
  <2>1. req.kind = "SetInput" /\ req.values = Slice(op.arg, i)
    BY <1>7, RequestRight
  <2>2. o.w.shard.in = req.values /\ o.w.shard.cnt = s.cnt
    <3>1. ShardRecord(s) /\ Accepted(s, req) /\ o.w.shard = ShardAfter(s, req)
      BY <1>5
    <3>2. ShardAfter(s, req).in = req.values /\ ShardAfter(s, req).cnt = s.cnt
      BY <2>1, <3>1, StorageAfter
    <3> QED
      BY <3>1, <3>2
  <2>3. s.cnt = before[i].cnt
    BY <1>1, <1>4 DEF SetSoFar, s
  <2> QED
    BY <1>1, <2>1, <2>2, <2>3
<1>11. RestoreSoFar(i)'
  <2> SUFFICES ASSUME op.kind = "Restore", op.ok = TRUE, ok = TRUE, i \notin op'.todo, Clean(o.w)
               PROVE  HoldsStorage(o.w, op.arg.storages[i])
    BY <1>1, <1>5 DEF RestoreSoFar
  <2>1. op.stage = 2
    BY <1>1, <1>5 DEF Stages
  <2>2. req.kind = "RestoreSnapshot" /\ req.storage = op.arg.storages[i]
    BY <1>7, <2>1, RequestRight
  <2>3. Accepted(s, req) /\ o.w.shard = ShardAfter(s, req)
    BY DEF RequestMade, Answered, s
  <2>4. /\ ShardAfter(s, req).in = req.storage.in
        /\ ShardAfter(s, req).cnt = req.storage.cnt
    <3>1. ShardRecord(s) /\ Accepted(s, req) /\ req.kind = "RestoreSnapshot"
      BY <1>5, <2>2, <2>3
    <3> QED
      BY <3>1, StorageRestored
  <2> QED
    BY <2>2, <2>3, <2>4 DEF HoldsStorage
<1>12. \A j \in Shards : RecoverSoFar(j)'
  BY <1>2 DEF RecoverSoFar
<1>13. \A j \in Shards : ReadSoFar(j)' /\ TickSoFar(j)' /\ SetSoFar(j)' /\ RestoreSoFar(j)'
  BY <1>3, <1>8, <1>9, <1>10, <1>11
<1> QED
  BY <1>12, <1>13 DEF SoFar

LEMMA ReadAnswers ==
    ASSUME NEW s, NEW q, Accepted(s, q)
    PROVE  /\ q.kind = "Snapshot" =>
                 ResponseTo(s, q) = [kind |-> "Snapshot", storage |-> Storage(s)]
           /\ q.kind = "GetSignal" =>
                 ResponseTo(s, q) = [kind |-> "Signal", values |-> s.cnt]
<1>1. CASE q.kind = "Snapshot"
  BY <1>1 DEF ResponseTo
<1>2. CASE q.kind = "GetSignal"
  BY <1>2 DEF ResponseTo
<1> QED
  BY <1>1, <1>2

LEMMA EndsAscend ==
    ASSUME RangesInv, RangesAtEnds, Len(infos) = Len(Topology),
           NEW k \in 0..Len(Topology), NEW j \in 1..k
    PROVE  Ends[j] <= Ends[k]
<1> DEFINE n == Len(Topology)
<1>1. n \in Nat
  BY EndsFacts
<1> HIDE DEF n
<1>2. j \in 1..n /\ k \in 1..n
  BY <1>1 DEF n
<1>3. /\ Ends[j] = infos[j].start + infos[j].lanes
      /\ Ends[k] = infos[k].start + infos[k].lanes
      /\ infos[k].start \in Nat /\ infos[k].lanes \in Nat
      /\ infos[j].start \in Nat /\ infos[j].lanes \in Nat
  BY <1>2, ReadyRanges, EndsFacts DEF Shards, n
<1>4. CASE j = k
  BY <1>3, <1>4
<1>5. CASE j < k
  <2>1. infos[j].start + infos[j].lanes <= infos[k].start
    BY <1>2, <1>5 DEF RangesInv, RangesAscending, n
  <2> QED
    BY <1>3, <2>1
<1> QED
  BY <1>2, <1>4, <1>5

(* What a checkpoint and a read of a signal have gathered.                 *)
LEMMA RequestGathers ==
    ASSUME RuntimeInv, NEW i, NEW req, NEW ok, NEW o, RequestMade(i, req, ok, o)
    PROVE  SnapshotSoFar' /\ SignalSoFar'
<1> DEFINE n == Len(Topology)
           s == worker[i].shard
<1>0. RangesInv /\ RangesAtEnds /\ Len(infos) = Len(Topology)
  BY DEF RuntimeInv, OpType, Construction, RequestMade
<1>1. /\ op'.kind = op.kind
      /\ op'.ok = (op.ok /\ ok)
      /\ op.kind \in {"Snapshot", "GetSignal"} =>
            /\ op'.acc = Collected(o.resp)
            /\ ok => op'.todo = op.todo \ {i}
  BY ZenonT(30), AdvanceRight DEF RuntimeInv, RequestMade
<1>2. /\ before' = before /\ trusted' = trusted /\ i \in op.todo /\ i \in Shards /\ op # Idle
      /\ op.kind # "Tick" => \A j \in op.todo : i <= j
  BY DEF RequestMade
<1>3. op.kind \in {"Snapshot", "GetSignal"} => req.kind = op.kind
  BY RequestRight DEF RuntimeInv, RequestMade
<1>4. (trusted /\ op'.ok) => Accepted(s, req) /\ o.resp = ResponseTo(s, req)
  BY <1>1 DEF RequestMade, Answered
<1>5. op.kind \in {"Snapshot", "GetSignal"} =>
          s.in = before[i].in /\ s.cnt = before[i].cnt
  BY <1>2 DEF RuntimeInv, SoFar, ReadSoFar, HoldsStorage
<1>6. before[i] = [in |-> before[i].in, cnt |-> before[i].cnt]
  BY <1>2 DEF RuntimeInv, OpType
<1>7. n \in Nat \ {0}
  BY EndsFacts
<1> HIDE DEF s, n
<1>8. ASSUME NEW k \in 0..n, op.todo = (k + 1)..n, op.kind # "Tick"
      PROVE  i = k + 1 /\ k + 1 \in 0..n /\ op.todo \ {i} = ((k + 1) + 1)..n
             /\ 1..(k + 1) = (1..k) \cup {i}
  <2>1. k + 1 \in op.todo /\ i <= k + 1 /\ i \in (k + 1)..n
    BY <1>2, <1>7, <1>8
  <2>2. i = k + 1
    BY <1>7, <2>1
  <2> QED
    BY <1>7, <1>8, <2>1, <2>2
<1>9. SnapshotSoFar'
  <2> SUFFICES ASSUME op.kind = "Snapshot", trusted, op'.ok
               PROVE  \E k \in 0..n :
                         /\ op'.todo = (k + 1)..n
                         /\ IsSeq(op'.acc) /\ Len(op'.acc) = k
                         /\ \A j \in 1..k : op'.acc[j] = before[j]
    BY <1>1, <1>2 DEF SnapshotSoFar, n
  <2>1. op.ok /\ ok
    BY <1>1
  <2>2. PICK k \in 0..n : /\ op.todo = (k + 1)..n
                          /\ IsSeq(op.acc) /\ Len(op.acc) = k
                          /\ \A j \in 1..k : op.acc[j] = before[j]
    BY <2>1 DEF RuntimeInv, SnapshotSoFar, n
  <2>3. i = k + 1 /\ k + 1 \in 0..n /\ op'.todo = ((k + 1) + 1)..n /\ 1..(k + 1) = (1..k) \cup {i}
    BY <1>1, <1>8, <2>1, <2>2
  <2>4. Accepted(s, req) /\ o.resp = ResponseTo(s, req) /\ req.kind = "Snapshot"
    BY <1>3, <1>4
  <2>5. o.resp = [kind |-> "Snapshot", storage |-> Storage(s)]
    BY <2>4, ReadAnswers
  <2>6. Storage(s) = before[i]
    BY <1>5, <1>6 DEF Storage
  <2>7. op'.acc = Append(op.acc, before[i])
    BY <1>1, <2>5, <2>6 DEF Collected
  <2>8. /\ IsSeq(op'.acc) /\ Len(op'.acc) = k + 1
        /\ \A j \in 1..k : op'.acc[j] = op.acc[j]
        /\ op'.acc[k + 1] = before[i]
    BY <2>2, <2>7, AppendSeq
  <2>9. \A j \in 1..(k + 1) : op'.acc[j] = before[j]
    BY <2>2, <2>3, <2>8
  <2> QED
    BY <2>3, <2>8, <2>9
<1>10. SignalSoFar'
  <2> SUFFICES ASSUME op.kind = "GetSignal", trusted, op'.ok
               PROVE  \E k \in 0..n :
                         /\ op'.todo = (k + 1)..n
                         /\ IsSeq(op'.acc) /\ Len(op'.acc) = Ends[k]
                         /\ \A j \in 1..k : \A l \in 1..Topology[j] :
                               op'.acc[Ends[j - 1] + l] = before[j].cnt[l]
    BY <1>1, <1>2 DEF SignalSoFar, n
  <2>1. op.ok /\ ok
    BY <1>1
  <2>2. PICK k \in 0..n : /\ op.todo = (k + 1)..n
                          /\ IsSeq(op.acc) /\ Len(op.acc) = Ends[k]
                          /\ \A j \in 1..k : \A l \in 1..Topology[j] :
                                op.acc[Ends[j - 1] + l] = before[j].cnt[l]
    BY <2>1 DEF RuntimeInv, SignalSoFar, n
  <2>3. i = k + 1 /\ k + 1 \in 0..n /\ op'.todo = ((k + 1) + 1)..n /\ 1..(k + 1) = (1..k) \cup {i}
    BY <1>1, <1>8, <2>1, <2>2
  <2>4. Accepted(s, req) /\ o.resp = ResponseTo(s, req) /\ req.kind = "GetSignal"
    BY <1>3, <1>4
  <2>5. o.resp = [kind |-> "Signal", values |-> before[i].cnt]
    BY <1>5, <2>4, ReadAnswers
  <2>6. op'.acc = op.acc \o before[i].cnt
    <3>1. o.resp.kind = "Signal" /\ o.resp.values = before[i].cnt
      BY <2>5
    <3>2. Collected(o.resp) = op.acc \o o.resp.values
      BY <3>1, Zenon DEF Collected
    <3> QED
      BY <1>1, <3>1, <3>2, Zenon
  <2>7. IsSeq(before[i].cnt) /\ Len(before[i].cnt) = Topology[i]
    <3>1. phase = "ready"
      BY <1>2 DEF RuntimeInv, OpType
    <3> QED
      BY <1>2, <3>1 DEF RuntimeInv, Vectors, LaneVector
  <2>8. /\ IsSeq(op'.acc) /\ Len(op'.acc) = Ends[k] + Topology[i]
        /\ \A l \in 1..Ends[k] : op'.acc[l] = op.acc[l]
        /\ \A l \in 1..Topology[i] : op'.acc[Ends[k] + l] = before[i].cnt[l]
    <3> DEFINE u == op.acc
               v == before[i].cnt
    <3>1. IsSeq(u) /\ IsSeq(v) /\ Len(u) = Ends[k] /\ Len(v) = Topology[i]
      BY <2>2, <2>7
    <3>2. op'.acc = u \o v
      BY <2>6, Zenon
    <3> HIDE DEF u, v
    <3>3. /\ IsSeq(u \o v)
          /\ Len(u \o v) = Len(u) + Len(v)
          /\ \A l \in 1..Len(u) : (u \o v)[l] = u[l]
          /\ \A l \in 1..Len(v) : (u \o v)[Len(u) + l] = v[l]
      BY SMTT(30), <3>1, ConcatSeq
    <3> DEFINE uv == u \o v
    <3> HIDE DEF uv
    <3>4. op'.acc = uv
      BY <3>2, Zenon DEF uv
    <3>5. /\ IsSeq(uv)
          /\ Len(uv) = Len(u) + Len(v)
          /\ \A l \in 1..Len(u) : uv[l] = u[l]
          /\ \A l \in 1..Len(v) : uv[Len(u) + l] = v[l]
      BY <3>3, Zenon DEF uv
    <3>6. /\ IsSeq(uv) /\ Len(uv) = Ends[k] + Topology[i]
          /\ \A l \in 1..Ends[k] : uv[l] = u[l]
          /\ \A l \in 1..Topology[i] : uv[Ends[k] + l] = v[l]
      BY <3>1, <3>5
    <3> QED
      BY <3>4, <3>6 DEF u, v
  <2>9. Ends[k + 1] = Ends[k] + Topology[i] /\ i - 1 = k
    BY <1>2, <2>3, EndsFacts
  <2>10. ASSUME NEW j \in 1..k, NEW l \in 1..Topology[j]
         PROVE  op'.acc[Ends[j - 1] + l] = before[j].cnt[l]
    <3>1. /\ j \in Shards /\ j \in 0..n /\ j - 1 \in 0..n
          /\ Ends[j] = Ends[j - 1] + Topology[j]
          /\ Ends[j - 1] \in Nat /\ Topology[j] \in Nat /\ Ends[j] \in Nat /\ Ends[k] \in Nat
      BY <1>7, <2>3, EndsFacts DEF Shards, n
    <3>2. Ends[j] <= Ends[k]
      BY <1>0, <2>3, EndsAscend DEF n
    <3>3. Ends[j - 1] + l \in 1..Ends[k]
      BY <3>1, <3>2
    <3> QED
      BY <2>2, <2>8, <3>3
  <2>11. \A j \in 1..(k + 1) : \A l \in 1..Topology[j] :
            op'.acc[Ends[j - 1] + l] = before[j].cnt[l]
    BY <2>3, <2>8, <2>9, <2>10
  <2> QED
    BY <2>3, <2>8, <2>9, <2>11
<1> QED
  BY <1>9, <1>10

LEMMA RequestStep ==
    ASSUME RuntimeInv, NEW i \in Shards, RequestShard(i)
    PROVE  RuntimeInv'
<1>1. PICK req, ok, o : RequestMade(i, req, ok, o)
  BY RequestIsMade
<1> QED
  BY <1>1, RequestWorkers, RequestSoFar, RequestGathers DEF RuntimeInv

-----------------------------------------------------------------------------
(* One request of a recovery.                                              *)

LEMMA RecoverStep ==
    ASSUME RuntimeInv, NEW i \in Shards, RecoverShard(i)
    PROVE  RuntimeInv'
<1> DEFINE req == RequestOf(i)
<1>1. /\ op # Idle /\ i \in op.todo /\ op.kind = "Recover" /\ \A j \in op.todo : i <= j
      /\ UNCHANGED <<phase, infos, startLane, worker, saved, trusted, before>>
  BY DEF RecoverShard, Turn, KeepsGoing
<1>2. PICK o \in Outcomes(fresh[i], req) :
         /\ fresh' = [fresh EXCEPT ![i] = o.w]
         /\ op' = Advance(i, Good(req, o.resp), o.resp)
  BY DEF RecoverShard
<1> DEFINE ok == Good(req, o.resp)
<1>3. ok \in BOOLEAN
  BY DEF Good
<1>4. WorkerType(fresh[i]) /\ DOMAIN fresh = Shards /\ OpType
  BY DEF RuntimeInv, Types
<1> HIDE DEF req
<1>5. /\ fresh'[i] = o.w /\ DOMAIN fresh' = Shards
      /\ \A j \in Shards : j # i => fresh'[j] = fresh[j]
  BY <1>2, <1>4
<1>6. /\ WorkerType(o.w)
      /\ (ok /\ Quiet(fresh[i])) => Answered(fresh[i], req, o)
  BY <1>4, OutcomeRight
<1> HIDE DEF ok
<1>7. op' = Advance(i, ok, o.resp)
  BY <1>2 DEF ok
<1>8. /\ op'.kind = "Recover" /\ op'.arg = op.arg /\ op' # Idle
      /\ op'.ok = (op.ok /\ ok)
      /\ \/ /\ ok /\ op.stage = 1
            /\ op'.stage = 2 /\ op'.todo = op.todo
         \/ /\ ok => op.stage = 2 /\ op'.todo = op.todo \ {i}
            /\ op'.stage = 1
  BY <1>1, <1>3, <1>4, <1>7, AdvanceRight DEF Stages
<1>9. OpType'
  BY <1>1, <1>3, <1>4, <1>7, OpTypeNext
<1>10. RangesInv'
  BY <1>1, SameRanges DEF RuntimeInv
<1>11. RangesAtEnds' /\ SavedRight' /\ Construction'
  BY <1>1, <1>8 DEF RuntimeInv, RangesAtEnds, SavedRight, Construction, OpType
<1>12. Types'
  BY <1>1, <1>5, <1>6 DEF RuntimeInv, Types
<1>13. InStep' /\ Vectors'
  BY <1>1, <1>8 DEF RuntimeInv, InStep, Vectors
<1>14. SnapshotSoFar' /\ SignalSoFar'
  BY <1>8 DEF SnapshotSoFar, SignalSoFar
<1>15. phase = "ready" /\ Len(infos) = Len(Topology)
  BY <1>1, <1>4 DEF RuntimeInv, OpType, Construction
<1>16. infos[i] \in Ranges /\ infos[i].lanes # 0
  BY <1>15, ReadyRanges DEF RuntimeInv
<1>17. ASSUME NEW j \in Shards
       PROVE  /\ ReadSoFar(j)' /\ TickSoFar(j)' /\ SetSoFar(j)' /\ RestoreSoFar(j)'
              /\ RecoverSoFar(j)'
  <2>1. ReadSoFar(j)' /\ TickSoFar(j)' /\ SetSoFar(j)' /\ RestoreSoFar(j)'
    BY <1>1, <1>8 DEF RuntimeInv, SoFar, ReadSoFar, TickSoFar, SetSoFar, RestoreSoFar
  <2>2. SUFFICES ASSUME op.ok, ok
                 PROVE  IF j \notin op'.todo
                        THEN /\ Quiet(fresh'[j])
                             /\ HoldsRange(fresh'[j], infos[j])
                             /\ HoldsStorage(fresh'[j], op.arg.storages[j])
                        ELSE IF op'.stage = 2 /\ \A l \in op'.todo : j <= l
                        THEN Quiet(fresh'[j]) /\ fresh'[j].shard = NewShard(infos[j])
                        ELSE fresh'[j] = Remote
    <3>1. op'.ok => op.ok /\ ok
      BY <1>8
    <3>2. RecoverSoFar(j)' <=>
            (op'.ok => IF j \notin op'.todo
                        THEN /\ Quiet(fresh'[j])
                             /\ HoldsRange(fresh'[j], infos[j])
                             /\ HoldsStorage(fresh'[j], op.arg.storages[j])
                        ELSE IF op'.stage = 2 /\ \A l \in op'.todo : j <= l
                        THEN Quiet(fresh'[j]) /\ fresh'[j].shard = NewShard(infos[j])
                        ELSE fresh'[j] = Remote)
      BY <1>1, <1>8 DEF RecoverSoFar
    <3> QED
      BY <2>1, <3>1, <3>2
  <2>3. IF j \notin op.todo
        THEN /\ Quiet(fresh[j])
             /\ HoldsRange(fresh[j], infos[j])
             /\ HoldsStorage(fresh[j], op.arg.storages[j])
        ELSE IF op.stage = 2 /\ \A l \in op.todo : j <= l
        THEN Quiet(fresh[j]) /\ fresh[j].shard = NewShard(infos[j])
        ELSE fresh[j] = Remote
    BY <1>1, <2>2 DEF RuntimeInv, SoFar, RecoverSoFar
  <2>4. CASE j # i
    <3>1. fresh'[j] = fresh[j] /\ (j \in op'.todo <=> j \in op.todo)
      BY <1>5, <1>8, <2>2, <2>4
    <3>2. j \in op.todo => ~(\A l \in op.todo : j <= l)
      <4>1. i \in Int /\ j \in Int
        BY EndsFacts DEF Shards
      <4> QED
        BY <1>1, <2>4, <4>1
    <3>3. (op'.stage = 2 /\ j \in op'.todo) => ~(\A l \in op'.todo : j <= l)
      BY <1>8, <3>2
    <3> QED
      BY <2>3, <3>1, <3>2, <3>3
  <2>5. CASE j = i /\ op.stage = 1
    <3>1. op'.todo = op.todo /\ op'.stage = 2
      BY <1>8, <2>2, <2>5
    <3>2. fresh[i] = Remote
      BY <1>1, <2>3, <2>5
    <3>3. Answered(Remote, req, o) /\ Remote.shard = NoShard
      BY <1>6, <2>2, <3>2, RemoteType
    <3>4. req.kind = "InitShard" /\ req.info = infos[i]
      BY <1>1, <1>4, <2>5, RequestRight DEF req
    <3>5. ShardAfter(NoShard, req) = NewShard(req.info)
      BY <3>3, <3>4, ShardIsMade DEF Answered
    <3>6. Quiet(o.w) /\ o.w.shard = NewShard(infos[i])
      BY <3>3, <3>4, <3>5 DEF Answered
    <3> QED
      BY <1>1, <1>5, <2>5, <3>1, <3>6
  <2>6. CASE j = i /\ op.stage = 2
    <3>1. i \notin op'.todo
      BY <1>8, <2>2, <2>6
    <3> DEFINE s == NewShard(infos[i])
    <3>2. fresh[i].shard = s /\ Quiet(fresh[i])
      BY <1>1, <2>3, <2>6
    <3>3. ShardRecord(s) /\ Info(s.start, s.lanes) = infos[i]
      BY <1>16, NewShardFacts
    <3> HIDE DEF s
    <3>4. Quiet(o.w) /\ Accepted(s, req) /\ o.w.shard = ShardAfter(s, req)
      BY <1>6, <2>2, <3>2 DEF Answered
    <3>5. req.kind = "RestoreSnapshot" /\ req.storage = op.arg.storages[i]
      BY <1>1, <1>4, <2>6, RequestRight DEF req
    <3>6. o.w.shard.in = req.storage.in /\ o.w.shard.cnt = req.storage.cnt
      BY <3>3, <3>4, <3>5, StorageRestored
    <3>7. ShardRecord(o.w.shard) /\ o.w.shard.start = s.start /\ o.w.shard.lanes = s.lanes
      BY <3>3, <3>4, ShardIsKept
    <3>8. o.w.shard # NoShard
      BY <3>7 DEF ShardRecord, NoShard
    <3>9. HoldsRange(o.w, infos[i])
      BY <3>3, <3>7, <3>8 DEF HoldsRange
    <3>10. HoldsStorage(o.w, op.arg.storages[i])
      BY <3>5, <3>6 DEF HoldsStorage
    <3> QED
      BY <1>5, <2>6, <3>1, <3>4, <3>9, <3>10
  <2>7. op.stage \in {1, 2}
    BY <1>1, <1>4 DEF OpType, Stages
  <2> QED
    BY <2>4, <2>5, <2>6, <2>7
<1> QED
  BY <1>9, <1>10, <1>11, <1>12, <1>13, <1>14, <1>17 DEF RuntimeInv, SoFar
-----------------------------------------------------------------------------
(* The operation returns.                                                  *)

(* What the shards hold after an operation after which they are trusted.   *)
LEMMA ReturnHolds ==
    ASSUME RuntimeInv, Return, trusted'
    PROVE  /\ \A i \in Shards : Quiet(worker'[i])
           /\ (op.kind = "Restore" \/ (op.kind = "Recover" /\ op.ok)) =>
                 /\ op.ok /\ op.arg = saved /\ saved # Never /\ saved.trusted
                 /\ \A i \in Shards : HoldsStorage(worker'[i], saved.storages[i])
           /\ (op.kind = "Recover" /\ ~op.ok) =>
                 trusted /\ \A i \in Shards : HoldsStorage(worker'[i], before[i])
           /\ op.kind \in {"GetSignal", "Health", "Snapshot"} =>
                 trusted /\ op.ok /\ \A i \in Shards : HoldsStorage(worker'[i], before[i])
           /\ op.kind = "Tick" =>
                 /\ trusted /\ op.ok
                 /\ \A i \in Shards :
                       HoldsStorage(worker'[i], Ticked(before[i], Topology[i], op.arg))
           /\ op.kind = "SetInput" =>
                 /\ trusted /\ op.ok
                 /\ \A i \in Shards : /\ worker'[i].shard.in = Slice(op.arg, i)
                                      /\ worker'[i].shard.cnt = before[i].cnt
<1>1. /\ op # Idle /\ op.todo = {} /\ trusted' = Trust
      /\ worker' = IF op.kind = "Recover" /\ op.ok THEN fresh ELSE worker
  BY DEF Return
<1>2. /\ phase = "ready" /\ op.kind \in OpKinds /\ op.ok \in BOOLEAN
      /\ op.kind \in {"Restore", "Recover"} => op.arg \in Snapshots
  BY <1>1 DEF RuntimeInv, OpType
<1>3. \A i \in Shards :
         ReadSoFar(i) /\ TickSoFar(i) /\ SetSoFar(i) /\ RestoreSoFar(i) /\ RecoverSoFar(i)
  BY DEF RuntimeInv, SoFar
<1>4. ASSUME op.arg \in Snapshots, op.arg.trusted
      PROVE  op.arg = saved /\ saved # Never /\ saved.trusted
  BY <1>4, RuntimeAssumption DEF Snapshots
<1>5. (trusted /\ (op.ok \/ op.kind = "Recover")) => \A i \in Shards : Quiet(worker[i])
  BY <1>2 DEF RuntimeInv, InStep
<1>6. CASE op.kind = "Recover" /\ op.ok
  <2>1. op.arg.trusted /\ worker' = fresh
    BY <1>1, <1>6 DEF Trust
  <2>2. op.arg = saved /\ saved # Never /\ saved.trusted
    BY <1>2, <1>4, <1>6, <2>1
  <2>3. \A i \in Shards : Quiet(fresh[i]) /\ HoldsStorage(fresh[i], op.arg.storages[i])
    BY <1>1, <1>3, <1>6 DEF RecoverSoFar
  <2> QED
    BY <1>6, <2>1, <2>2, <2>3
<1>7. CASE op.kind = "Recover" /\ ~op.ok
  <2>1. trusted /\ worker' = worker
    BY <1>1, <1>7 DEF Trust
  <2>2. \A i \in Shards : HoldsStorage(worker[i], before[i])
    BY <1>3, <1>7 DEF ReadSoFar
  <2> QED
    BY <1>5, <1>7, <2>1, <2>2
<1>8. CASE op.kind = "Restore"
  <2>1. op.ok
    BY <1>1, <1>2, <1>8 DEF Trust
  <2>2. op.arg.trusted /\ (\A i \in Shards : Clean(worker[i])) /\ worker' = worker
    BY <1>1, <1>8, <2>1 DEF Trust
  <2>3. op.arg = saved /\ saved # Never /\ saved.trusted
    BY <1>2, <1>4, <1>8, <2>2
  <2>4. \A i \in Shards : Quiet(worker[i]) /\ HoldsStorage(worker[i], op.arg.storages[i])
    BY <1>1, <1>3, <1>8, <2>1, <2>2 DEF RestoreSoFar, Clean, Quiet
  <2> QED
    BY <1>8, <2>1, <2>2, <2>3, <2>4
<1>9. CASE op.kind \in {"GetSignal", "Health", "Snapshot", "Tick", "SetInput"}
  <2>1. trusted /\ op.ok /\ worker' = worker
    BY <1>1, <1>2, <1>9 DEF Trust
  <2>2. \A i \in Shards : Quiet(worker[i])
    BY <1>5, <2>1
  <2>3. CASE op.kind \in {"GetSignal", "Health", "Snapshot"}
    <3>1. \A i \in Shards : HoldsStorage(worker[i], before[i])
      BY <1>3, <2>3 DEF ReadSoFar
    <3> QED
      BY <2>1, <2>2, <2>3, <3>1
  <2>4. CASE op.kind = "Tick"
    <3>1. \A i \in Shards : HoldsStorage(worker[i], Ticked(before[i], Topology[i], op.arg))
      BY <1>1, <1>3, <2>1, <2>4 DEF TickSoFar
    <3> QED
      BY <2>1, <2>2, <2>4, <3>1
  <2>5. CASE op.kind = "SetInput"
    <3>1. \A i \in Shards : /\ worker[i].shard.in = Slice(op.arg, i)
                            /\ worker[i].shard.cnt = before[i].cnt
      BY <1>1, <1>3, <2>1, <2>5 DEF SetSoFar
    <3> QED
      BY <2>1, <2>2, <2>5, <3>1
  <2> QED
    BY <1>9, <2>3, <2>4, <2>5
<1> QED
  BY <1>2, <1>6, <1>7, <1>8, <1>9 DEF OpKinds

LEMMA TickedVector ==
    ASSUME NEW storage, NEW n \in Nat, NEW steps
    PROVE  LaneVector(Ticked(storage, n, steps).cnt, n)
<1> DEFINE f == [l \in 1..n |-> storage.cnt[l] + steps * storage.in[l]]
           S == {storage.cnt[l] + steps * storage.in[l] : l \in 1..n}
<1>1. f \in [1..n -> S]
  OBVIOUS
<1>2. Ticked(storage, n, steps).cnt = f
  BY DEF Ticked
<1> HIDE DEF f, S
<1>3. f \in Seq(S) /\ Len(f) = n
  BY <1>1
<1>4. IsSeq(f)
  BY <1>3, SomeSeq
<1> QED
  BY <1>2, <1>3, <1>4 DEF LaneVector

(* A checkpoint that returns holds what the shards held.                   *)
LEMMA ReturnSaves ==
    ASSUME RuntimeInv, Return
    PROVE  /\ (op.kind = "Snapshot" /\ op.ok) =>
                 /\ saved' # Never /\ saved'.trusted = trusted
                 /\ trusted => \A i \in Shards : saved'.storages[i] = before[i]
           /\ ~(op.kind = "Snapshot" /\ op.ok) => saved' = saved
<1>1. op.todo = {} /\ saved' = IF op.kind = "Snapshot" /\ op.ok
                               THEN [total |-> startLane, infos |-> infos, storages |-> op.acc,
                                     trusted |-> trusted]
                               ELSE saved
  BY DEF Return
<1>2. ASSUME op.kind = "Snapshot", op.ok
      PROVE  saved'.trusted = trusted /\ saved'.storages = op.acc /\ saved' # Never
  BY <1>1, <1>2 DEF Never
<1>3. ASSUME op.kind = "Snapshot", op.ok, trusted
      PROVE  \A i \in Shards : op.acc[i] = before[i]
  <2> DEFINE n == Len(Topology)
  <2>1. PICK k \in 0..n : /\ op.todo = (k + 1)..n
                          /\ \A i \in 1..k : op.acc[i] = before[i]
    BY <1>3 DEF RuntimeInv, SnapshotSoFar
  <2>2. n \in Nat
    BY EndsFacts
  <2> HIDE DEF n
  <2>3. k = n
    <3>1. k < n => k + 1 \in (k + 1)..n
      BY <2>2
    <3>2. ~(k < n)
      BY <1>1, <2>1, <3>1
    <3> QED
      BY <2>2, <3>2
  <2> QED
    BY <2>1, <2>3 DEF Shards, n
<1> QED
  BY <1>1, <1>2, <1>3

LEMMA ReturnStep ==
    ASSUME RuntimeInv, Return
    PROVE  RuntimeInv'
<1>1. /\ op # Idle /\ op.todo = {} /\ op' = Idle /\ trusted' = Trust
      /\ worker' = IF op.kind = "Recover" /\ op.ok THEN fresh ELSE worker
      /\ fresh' = [i \in Shards |-> Remote]
      /\ UNCHANGED <<phase, infos, startLane>>
  BY DEF Return
<1>2. /\ phase = "ready" /\ op.kind \in OpKinds /\ op.ok \in BOOLEAN
      /\ op.kind \in {"Restore", "Recover"} => op.arg \in Snapshots
  BY <1>1 DEF RuntimeInv, OpType
<1>3. RangesInv'
  BY <1>1, SameRanges DEF RuntimeInv
<1>4. RangesAtEnds'
  BY <1>1 DEF RuntimeInv, RangesAtEnds
<1>5. trusted' \in BOOLEAN
  <2>1. trusted \in BOOLEAN
    BY DEF RuntimeInv, Types
  <2>2. op.arg \in Snapshots => op.arg.trusted \in BOOLEAN
    BY RuntimeAssumption DEF RuntimeInv, SavedRight, Snapshots
  <2>3. CASE op.kind = "Recover"
    BY <1>1, <1>2, <2>1, <2>2, <2>3 DEF Trust
  <2>4. CASE op.kind = "Restore" /\ op.ok
    BY <1>1, <1>2, <2>1, <2>2, <2>4 DEF Trust
  <2>5. CASE op.kind # "Recover" /\ ~(op.kind = "Restore" /\ op.ok)
    BY <1>1, <1>2, <2>1, <2>5 DEF Trust
  <2> QED
    BY <2>3, <2>4, <2>5
<1>6. DOMAIN worker' = Shards /\ \A i \in Shards : WorkerType(worker'[i])
  BY <1>1 DEF RuntimeInv, Types
<1>7. Types'
  BY <1>1, <1>2, <1>5, <1>6, RemoteType DEF Types
<1>8. Construction'
  <2>1. op.kind = "Recover" /\ op.ok => \A i \in Shards : HoldsRange(fresh[i], infos[i])
    BY <1>1 DEF RuntimeInv, SoFar, RecoverSoFar
  <2>2. Len(infos) = Len(Topology) /\ \A i \in Shards : HoldsRange(worker[i], infos[i])
    BY <1>2 DEF RuntimeInv, Construction
  <2>3. \A i \in Shards : HoldsRange(worker'[i], infos[i])
    BY <1>1, <2>1, <2>2
  <2> QED
    BY <1>1, <1>2, <2>2, <2>3 DEF Construction
<1>9. trusted => \A i \in Shards : LaneVector(before[i].cnt, Topology[i])
  BY <1>1, <1>2 DEF RuntimeInv, Vectors
<1>10. SavedRight'
  <2>1. CASE op.kind = "Snapshot" /\ op.ok
    BY <1>9, <2>1, ReturnSaves DEF SavedRight, RuntimeInv, Types
  <2>2. CASE ~(op.kind = "Snapshot" /\ op.ok)
    BY <2>2, ReturnSaves DEF SavedRight, RuntimeInv
  <2> QED
    BY <2>1, <2>2
<1>11. InStep'
  BY ReturnHolds DEF InStep
<1>12. Vectors'
  <2> SUFFICES ASSUME trusted', NEW i \in Shards
               PROVE  LaneVector(worker'[i].shard.cnt, Topology[i])
    BY <1>1 DEF Vectors
  <2>1. CASE op.kind = "Restore" \/ (op.kind = "Recover" /\ op.ok)
    <3>1. saved # Never /\ saved.trusted /\ HoldsStorage(worker'[i], saved.storages[i])
      BY <2>1, ReturnHolds
    <3> QED
      BY <3>1 DEF RuntimeInv, SavedRight, HoldsStorage
  <2>2. CASE \/ op.kind = "Recover" /\ ~op.ok
             \/ op.kind \in {"GetSignal", "Health", "Snapshot", "SetInput"}
    <3>1. trusted /\ worker'[i].shard.cnt = before[i].cnt
      BY <2>2, ReturnHolds DEF HoldsStorage
    <3> QED
      BY <1>9, <3>1
  <2>3. CASE op.kind = "Tick"
    <3>1. worker'[i].shard.cnt = Ticked(before[i], Topology[i], op.arg).cnt
      BY <2>3, ReturnHolds DEF HoldsStorage
    <3>2. Topology[i] \in Nat
      BY EndsFacts
    <3> QED
      BY <3>1, <3>2, TickedVector
  <2> QED
    BY <1>2, <2>1, <2>2, <2>3 DEF OpKinds
<1> QED
  BY <1>1, <1>3, <1>4, <1>7, <1>8, <1>10, <1>11, <1>12, NothingInProgressNext DEF RuntimeInv

-----------------------------------------------------------------------------
LEMMA StepRuntime ==
    ASSUME RuntimeInv, [Next]_vars
    PROVE  RuntimeInv'
<1>1. CASE UNCHANGED vars
  BY <1>1, SameRuntime DEF vars
<1>2. CASE Work
  BY <1>2, RequestStep, RecoverStep, ReturnStep DEF Work
<1> QED
  BY <1>1, <1>2, AddShardStep, BuiltStep, RetryStep, OperationStep DEF Next

(* The invariant of the runtime, through every operation, fault, recovery  *)
(* and retried construction.                                               *)
THEOREM RuntimeInvariance == Spec => []RuntimeInv
<1>1. RuntimeInv /\ [Next]_vars => RuntimeInv'
  BY StepRuntime
<1> QED
  BY <1>1, RuntimeInit, PTL DEF Spec

(* As long as every operation has returned Ok since the last good restore  *)
(* no connection carries an overdue answer; no tick reaches a shard twice, *)
(* whether it fails or not; and every worker holds the lanes the runtime   *)
(* believes it holds.                                                      *)
THEOREM AlwaysInStep == Spec => []ShardsInStep
<1>1. RuntimeInv => TrustedMeansInStep
  BY DEF RuntimeInv, InStep, Quiet, TrustedMeansInStep
<1>2. RuntimeInv => TickAtMostOnce
  <2> SUFFICES ASSUME RuntimeInv, op.kind = "Tick", NEW i \in Shards
               PROVE  Held[i] \in {before[i], Ticked(before[i], Topology[i], op.arg)}
    BY DEF TickAtMostOnce
  <2>1. op # Idle
    BY DEF Idle
  <2>2. before[i] = [in |-> before[i].in, cnt |-> before[i].cnt]
    BY <2>1 DEF RuntimeInv, OpType
  <2>3. Held[i] = [in |-> worker[i].shard.in, cnt |-> worker[i].shard.cnt]
    BY DEF Held, Storage
  <2> DEFINE t == Ticked(before[i], Topology[i], op.arg)
  <2>4. t = [in |-> t.in, cnt |-> t.cnt]
    BY DEF Ticked
  <2>5. HoldsStorage(worker[i], before[i]) \/ HoldsStorage(worker[i], t)
    BY DEF RuntimeInv, SoFar, TickSoFar
  <2> HIDE DEF t
  <2>6. CASE HoldsStorage(worker[i], before[i])
    BY <2>2, <2>3, <2>6 DEF HoldsStorage
  <2>7. CASE HoldsStorage(worker[i], t)
    BY <2>3, <2>4, <2>7 DEF HoldsStorage, t
  <2> QED
    BY <2>5, <2>6, <2>7
<1>3. RuntimeInv => WorkersHoldTheirLanes
  BY DEF RuntimeInv, Construction, HoldsRange, WorkersHoldTheirLanes
<1>4. RuntimeInv => ShardsInStep
  BY <1>1, <1>2, <1>3 DEF ShardsInStep
<1> QED
  BY <1>4, RuntimeInvariance, PTL
-----------------------------------------------------------------------------
(* The refinement: every step of the runtime is one of a simulator of all  *)
(* the lanes, or none.                                                     *)

Ready == RangesInv /\ RangesAtEnds /\ Len(infos) = Len(Topology)

LEMMA OwnerRight ==
    ASSUME Ready, NEW l \in 1..TotalLanes
    PROVE  LET i == OwnerOf(infos, l)
           IN  /\ i \in Shards
               /\ LaneIn(infos, l) \in 1..Topology[i]
               /\ Ends[i - 1] + LaneIn(infos, l) = l
               /\ infos[i].start + LaneIn(infos, l) = l
<1>1. /\ startLane = TotalLanes /\ TotalLanes \in Nat
      /\ \A i \in Shards :
            /\ infos[i].start \in Nat /\ infos[i].lanes \in Nat
            /\ infos[i].start = Ends[i - 1] /\ infos[i].lanes = Topology[i]
  BY ReadyRanges, EndsFacts DEF Ready
<1>2. l - 1 \in 0..(startLane - 1)
  BY <1>1
<1>3. PICK k \in 1..Len(infos) :
         infos[k].start <= l - 1 /\ l - 1 < infos[k].start + infos[k].lanes
  BY <1>2 DEF Ready, RangesInv, RangesCover
<1>4. k \in Shards
  BY <1>3 DEF Ready, Shards
<1>5. infos[k].start < l /\ l <= infos[k].start + infos[k].lanes
  BY <1>1, <1>3, <1>4
<1> DEFINE i == OwnerOf(infos, l)
<1>6. i \in Shards /\ infos[i].start < l /\ l <= infos[i].start + infos[i].lanes
  BY <1>4, <1>5, Zenon DEF OwnerOf
<1>7. LaneIn(infos, l) = l - infos[i].start
  BY DEF LaneIn
<1> HIDE DEF i
<1>8. /\ LaneIn(infos, l) \in 1..Topology[i]
      /\ Ends[i - 1] + LaneIn(infos, l) = l
      /\ infos[i].start + LaneIn(infos, l) = l
  BY <1>1, <1>6, <1>7
<1> QED
  BY <1>6, <1>8 DEF i

(* Shards that hold the same make the same lanes.                          *)
LEMMA SameLanes ==
    ASSUME Ready, NEW s, NEW t,
           \A i \in Shards : s[i].in = t[i].in /\ s[i].cnt = t[i].cnt
    PROVE  Lanes(infos, s) = Lanes(infos, t)
<1>1. \A l \in 1..TotalLanes : OwnerOf(infos, l) \in Shards
  BY OwnerRight
<1>2. \A l \in 1..TotalLanes :
         /\ s[OwnerOf(infos, l)].in[LaneIn(infos, l)] = t[OwnerOf(infos, l)].in[LaneIn(infos, l)]
         /\ s[OwnerOf(infos, l)].cnt[LaneIn(infos, l)] = t[OwnerOf(infos, l)].cnt[LaneIn(infos, l)]
  BY <1>1
<1> QED
  BY <1>2 DEF Lanes

(* The two vectors of the lanes of all shards.                             *)
InsOf(r, s) == [l \in 1..TotalLanes |-> s[OwnerOf(r, l)].in[LaneIn(r, l)]]

CntsOf(r, s) == [l \in 1..TotalLanes |-> s[OwnerOf(r, l)].cnt[LaneIn(r, l)]]

LEMMA LanesAre ==
    ASSUME NEW r, NEW s
    PROVE  Lanes(r, s) = [in |-> InsOf(r, s), cnt |-> CntsOf(r, s)]
  BY DEF Lanes, InsOf, CntsOf

(* A pair of vectors is a state, and not one that was lost.                *)
LEMMA PairFacts ==
    ASSUME NEW a, NEW b
    PROVE  LET m == [in |-> a, cnt |-> b]
           IN  m # Lost /\ m # Never
<1> DEFINE m == [in |-> a, cnt |-> b]
<1>1. DOMAIN m = {"in", "cnt"}
  OBVIOUS
<1>2. DOMAIN Lost = {"lost"} /\ DOMAIN Never = {"never"}
  BY DEF Lost, Never
<1> QED
  BY <1>1, <1>2

LEMMA NotLost ==
    ASSUME NEW r, NEW s
    PROVE  Lanes(r, s) # Lost /\ Lanes(r, s) # Never
  BY LanesAre, PairFacts

(* A new runtime.                                                          *)
LEMMA NewLanes ==
    ASSUME Ready, NEW s,
           \A i \in Shards : /\ s[i].in = [l \in 1..Topology[i] |-> 0]
                             /\ s[i].cnt = [l \in 1..Topology[i] |-> 0]
    PROVE  Lanes(infos, s) = NoCycles
<1>1. \A l \in 1..TotalLanes : /\ OwnerOf(infos, l) \in Shards
                               /\ LaneIn(infos, l) \in 1..Topology[OwnerOf(infos, l)]
  BY OwnerRight
<1>2. \A l \in 1..TotalLanes : /\ s[OwnerOf(infos, l)].in[LaneIn(infos, l)] = 0
                               /\ s[OwnerOf(infos, l)].cnt[LaneIn(infos, l)] = 0
  BY <1>1
<1> QED
  BY <1>2 DEF Lanes, NoCycles

(* A tick of every shard is one of every lane.                             *)
AllTicked(m, steps) ==
    [m EXCEPT !.cnt = [l \in 1..TotalLanes |-> @[l] + steps * m.in[l]]]

LEMMA TickedLanes ==
    ASSUME Ready, NEW s, NEW t, NEW steps,
           \A i \in Shards : /\ t[i].in = s[i].in
                             /\ t[i].cnt = Ticked(s[i], Topology[i], steps).cnt
    PROVE  Lanes(infos, t) = AllTicked(Lanes(infos, s), steps)
<1> DEFINE a == InsOf(infos, s)
           b == CntsOf(infos, s)
           c == [l \in 1..TotalLanes |-> b[l] + steps * a[l]]
<1>1. \A l \in 1..TotalLanes : /\ OwnerOf(infos, l) \in Shards
                               /\ LaneIn(infos, l) \in 1..Topology[OwnerOf(infos, l)]
  BY OwnerRight
<1>2. \A i \in Shards : \A l \in 1..Topology[i] : t[i].cnt[l] = s[i].cnt[l] + steps * s[i].in[l]
  BY DEF Ticked
<1>3. \A l \in 1..TotalLanes : /\ a[l] = s[OwnerOf(infos, l)].in[LaneIn(infos, l)]
                               /\ b[l] = s[OwnerOf(infos, l)].cnt[LaneIn(infos, l)]
  BY DEF InsOf, CntsOf
<1>4. InsOf(infos, t) = a
  BY <1>1 DEF InsOf
<1>5. CntsOf(infos, t) = c
  <2> HIDE DEF a, b
  <2>1. \A l \in 1..TotalLanes :
           t[OwnerOf(infos, l)].cnt[LaneIn(infos, l)] = b[l] + steps * a[l]
    BY <1>1, <1>2, <1>3
  <2> QED
    BY <2>1 DEF CntsOf
<1>6. Lanes(infos, s) = [in |-> a, cnt |-> b] /\ Lanes(infos, t) = [in |-> a, cnt |-> c]
  BY <1>4, <1>5, LanesAre
<1> HIDE DEF a, b
<1> DEFINE m == Lanes(infos, s)
           d == [l \in 1..TotalLanes |-> m.cnt[l] + steps * m.in[l]]
<1>7. m.in = a /\ m.cnt = b
  BY <1>6
<1>8. d = c
  BY <1>7
<1>9. m = [in |-> a, cnt |-> b]
  BY <1>6
<1> HIDE DEF c, d, m
<1>10. [m EXCEPT !.cnt = d] = [in |-> a, cnt |-> d]
  BY <1>9
<1>11. Lanes(infos, t) = [m EXCEPT !.cnt = d]
  BY <1>6, <1>8, <1>10
<1> QED
  BY <1>11 DEF d, m, AllTicked

(* The slices of the caller's vector are the vector.                       *)
LEMMA SlicedLane ==
    ASSUME NEW v \in Seq(Nat), NEW a \in Nat, NEW n \in Nat, NEW k \in 1..n,
           a + n <= Len(v)
    PROVE  SubSeq(v, a + 1, a + n)[k] = v[a + k]
<1> DEFINE first == a + 1
           last == a + n
<1>1. /\ first \in Int /\ last \in Int
      /\ \A i \in first..last : v[i] \in Nat
  OBVIOUS
<1>2. k \in 1..(last - first + 1) /\ first + k - 1 = a + k
  OBVIOUS
<1>3. SubSeq(v, first, last)[k] = v[a + k]
  <2> HIDE DEF first, last
  <2>1. \A i \in 1..(last - first + 1) : SubSeq(v, first, last)[i] = v[first + i - 1]
    BY <1>1, SubSeqProperties
  <2> QED
    BY <2>1, <1>2
<1> QED
  BY <1>3

LEMMA SetLanes ==
    ASSUME Ready, NEW s, NEW t, NEW v \in Inputs, Len(v) = TotalLanes,
           \A i \in Shards : t[i].in = Slice(v, i) /\ t[i].cnt = s[i].cnt
    PROVE  Lanes(infos, t) = [Lanes(infos, s) EXCEPT !.in = v]
<1> DEFINE a == InsOf(infos, s)
           b == CntsOf(infos, s)
<1>2. v \in Seq(Nat) /\ TotalLanes \in Nat
  BY RuntimeAssumption, TotalAssumption
<1>3. v = [l \in 1..TotalLanes |-> v[l]]
  BY <1>2
<1>4. ASSUME NEW l \in 1..TotalLanes
      PROVE  /\ t[OwnerOf(infos, l)].in[LaneIn(infos, l)] = v[l]
             /\ t[OwnerOf(infos, l)].cnt[LaneIn(infos, l)] =
                   s[OwnerOf(infos, l)].cnt[LaneIn(infos, l)]
  <2> DEFINE i == OwnerOf(infos, l)
             k == LaneIn(infos, l)
  <2>1. i \in Shards /\ k \in 1..Topology[i] /\ infos[i].start + k = l
    BY OwnerRight
  <2> HIDE DEF i, k
  <2>2. /\ infos[i].start \in Nat /\ infos[i].lanes = Topology[i] /\ Topology[i] \in Nat
        /\ infos[i].start + infos[i].lanes <= TotalLanes
    <3>1. startLane = TotalLanes /\ i \in 1..Len(infos)
      BY <2>1, ReadyRanges DEF Ready, Shards
    <3>2. infos[i].start + infos[i].lanes <= TotalLanes
      BY <3>1 DEF Ready, RangesInv, RangesBelow
    <3> QED
      BY <2>1, <3>2, ReadyRanges, EndsFacts DEF Ready
  <2>3. Slice(v, i)[k] = v[l]
    <3> DEFINE st == infos[i].start
               n == infos[i].lanes
    <3>1. Slice(v, i) = SubSeq(v, st + 1, st + n)
      BY DEF Slice
    <3>2. st \in Nat /\ n \in Nat /\ k \in 1..n /\ st + n <= Len(v) /\ st + k = l
      BY <2>1, <2>2
    <3> HIDE DEF st, n
    <3>3. SubSeq(v, st + 1, st + n)[k] = v[st + k]
      BY <1>2, <3>2, SlicedLane
    <3> QED
      BY <3>1, <3>2, <3>3
  <2>4. t[i].in[k] = v[l] /\ t[i].cnt[k] = s[i].cnt[k]
    BY <2>1, <2>3
  <2> QED
    BY <2>4 DEF i, k
<1>5. InsOf(infos, t) = v /\ CntsOf(infos, t) = b
  <2>1. InsOf(infos, t) = [l \in 1..TotalLanes |-> v[l]]
    BY <1>4 DEF InsOf
  <2>2. CntsOf(infos, t) = b
    BY <1>4 DEF CntsOf
  <2> QED
    BY <1>3, <2>1, <2>2
<1>6. Lanes(infos, s) = [in |-> a, cnt |-> b] /\ Lanes(infos, t) = [in |-> v, cnt |-> b]
  BY <1>5, LanesAre
<1> HIDE DEF a, b
<1>7. [[in |-> a, cnt |-> b] EXCEPT !.in = v] = [in |-> v, cnt |-> b]
  OBVIOUS
<1> QED
  BY <1>6, <1>7

(* A read gathers the counters of every lane, in the order of the lanes.   *)
LEMMA ReadGathers ==
    ASSUME RuntimeInv, Ready, op.kind = "GetSignal", trusted, op.ok, op.todo = {}
    PROVE  op.acc = CntsOf(infos, before)
<1> DEFINE n == Len(Topology)
<1>1. n \in Nat /\ TotalLanes \in Nat /\ Ends[n] = TotalLanes
  BY EndsFacts
<1>2. PICK k \in 0..n :
         /\ op.todo = (k + 1)..n
         /\ IsSeq(op.acc) /\ Len(op.acc) = Ends[k]
         /\ \A i \in 1..k : \A l \in 1..Topology[i] : op.acc[Ends[i - 1] + l] = before[i].cnt[l]
  BY DEF RuntimeInv, SignalSoFar
<1> HIDE DEF n
<1>3. k = n
  <2>1. k < n => k + 1 \in (k + 1)..n
    BY <1>1
  <2>2. ~(k < n)
    BY <1>2, <2>1
  <2> QED
    BY <1>1, <2>2
<1>4. IsSeq(op.acc) /\ Len(op.acc) = TotalLanes
  BY <1>1, <1>2, <1>3
<1>5. op.acc = [l \in 1..TotalLanes |-> op.acc[l]]
  BY <1>4 DEF IsSeq
<1>6. \A l \in 1..TotalLanes : op.acc[l] = before[OwnerOf(infos, l)].cnt[LaneIn(infos, l)]
  <2> TAKE l \in 1..TotalLanes
  <2> DEFINE i == OwnerOf(infos, l)
             j == LaneIn(infos, l)
  <2>1. i \in Shards /\ j \in 1..Topology[i] /\ Ends[i - 1] + j = l
    BY OwnerRight
  <2> HIDE DEF i, j
  <2>2. i \in 1..k
    BY <1>3, <2>1 DEF Shards, n
  <2>3. op.acc[Ends[i - 1] + j] = before[i].cnt[j]
    BY <1>2, <2>1, <2>2
  <2> QED
    BY <2>1, <2>3 DEF i, j
<1> QED
  BY <1>5, <1>6 DEF CntsOf

(* What the simulator of all lanes sees of an operation that returns.      *)
LEMMA ReturnSeen ==
    ASSUME RuntimeInv, Return
    PROVE  /\ Ready /\ op.kind \in OpKinds /\ op.ok \in BOOLEAN
           /\ trusted \in BOOLEAN /\ trusted' \in BOOLEAN
           /\ BatchMem = IF trusted THEN Lanes(infos, before) ELSE Lost
           /\ BatchMem' = IF trusted' THEN Lanes(infos, Held') ELSE Lost
           /\ \A i \in Shards : /\ Held'[i].in = worker'[i].shard.in
                                /\ Held'[i].cnt = worker'[i].shard.cnt
           /\ ~(op.kind = "Snapshot" /\ op.ok) => BatchStore' = BatchStore
           /\ ~(op.kind = "GetSignal" /\ op.ok) => got' = got
<1>1. /\ op # Idle /\ op' = Idle /\ infos' = infos /\ phase' = phase
      /\ ~(op.kind = "GetSignal" /\ op.ok) => got' = got
  BY DEF Return
<1>2. phase = "ready" /\ op.kind \in OpKinds /\ op.ok \in BOOLEAN
  BY <1>1 DEF RuntimeInv, OpType
<1>3. Ready
  BY <1>2 DEF RuntimeInv, Construction, Ready
<1>4. trusted \in BOOLEAN /\ trusted' \in BOOLEAN
  BY ReturnStep DEF RuntimeInv, Types
<1>5. BatchMem = IF trusted THEN Lanes(infos, before) ELSE Lost
  BY <1>1, <1>2, <1>4 DEF BatchMem
<1>6. BatchMem' = IF trusted' THEN Lanes(infos, Held') ELSE Lost
  BY <1>1, <1>2, <1>4 DEF BatchMem
<1>7. \A i \in Shards : Held'[i] = [in |-> worker'[i].shard.in, cnt |-> worker'[i].shard.cnt]
  BY DEF Held, Storage
<1>8. \A i \in Shards : /\ Held'[i].in = worker'[i].shard.in
                        /\ Held'[i].cnt = worker'[i].shard.cnt
  <2> TAKE i \in Shards
  <2> DEFINE h == Held'[i]
             a == worker'[i].shard.in
             b == worker'[i].shard.cnt
  <2>1. h = [in |-> a, cnt |-> b]
    BY <1>7
  <2> HIDE DEF h, a, b
  <2>2. h.in = a /\ h.cnt = b
    BY <2>1
  <2> QED
    BY <2>2 DEF h, a, b
<1>9. ~(op.kind = "Snapshot" /\ op.ok) => BatchStore' = BatchStore
  <2>1. ~(op.kind = "Snapshot" /\ op.ok) => saved' = saved
    BY ReturnSaves
  <2> QED
    BY <1>1, <2>1 DEF BatchStore
<1> QED
  BY <1>1, <1>2, <1>3, <1>4, <1>5, <1>6, <1>8, <1>9

(* The kinds of a step of the simulator of all lanes.                      *)
BatchStutters == BatchMem' = BatchMem /\ BatchStore' = BatchStore /\ got' = got

BatchStep == [Batch!Next]_(Batch!vars)

LEMMA StutterRefines ==
    ASSUME BatchStutters
    PROVE  BatchStep
  BY DEF BatchStutters, BatchStep, Batch!vars

LEMMA FailRefines ==
    ASSUME BatchMem' = Lost, BatchStore' = BatchStore, got' = got
    PROVE  BatchStep
  BY DEF BatchStep, Batch!Next, Batch!Fail, Batch!Lost, Lost

(* A checkpoint that was taken.                                            *)
LEMMA SnapshotRefines ==
    ASSUME RuntimeInv, Return, op.kind = "Snapshot", op.ok
    PROVE  BatchStep
<1>1. trusted' = trusted /\ got' = got /\ infos' = infos
  BY ReturnSeen DEF Return, Trust
<1>2. saved' # Never /\ saved'.trusted = trusted
  BY ReturnSaves
<1>3. BatchStore' = IF trusted THEN Lanes(infos, saved'.storages) ELSE Lost
  BY <1>1, <1>2 DEF BatchStore
<1>4. CASE trusted
  <2>1. \A i \in Shards : saved'.storages[i] = before[i]
    BY <1>4, ReturnSaves
  <2>2. Lanes(infos, saved'.storages) = Lanes(infos, before)
    BY <2>1, ReturnSeen, SameLanes
  <2>3. \A i \in Shards : HoldsStorage(worker'[i], before[i])
    BY <1>1, <1>4, ReturnHolds
  <2>4. \A i \in Shards : Held'[i].in = before[i].in /\ Held'[i].cnt = before[i].cnt
    BY <2>3, ReturnSeen DEF HoldsStorage
  <2>5. Lanes(infos, Held') = Lanes(infos, before)
    BY <2>4, ReturnSeen, SameLanes
  <2>6. BatchMem' = BatchMem /\ BatchStore' = BatchMem
    BY <1>1, <1>3, <1>4, <2>2, <2>5, ReturnSeen
  <2> QED
    BY <1>1, <2>6 DEF BatchStep, Batch!Next, Batch!Checkpoint
<1>5. CASE ~trusted
  <2>1. BatchMem' = BatchMem /\ BatchStore' = BatchMem
    BY <1>1, <1>3, <1>5, ReturnSeen
  <2> QED
    BY <1>1, <2>1 DEF BatchStep, Batch!Next, Batch!Checkpoint
<1> QED
  BY <1>4, <1>5

(* A read that was answered.                                               *)
LEMMA SignalRefines ==
    ASSUME RuntimeInv, Return, op.kind = "GetSignal", op.ok
    PROVE  BatchStep
<1>1. trusted' = trusted /\ BatchStore' = BatchStore /\ op.todo = {}
      /\ got' = IF trusted THEN [values |-> op.acc] ELSE Lost
  BY ReturnSeen DEF Return, Trust
<1>2. CASE trusted
  <2>1. op.acc = CntsOf(infos, before)
    BY <1>1, <1>2, ReturnSeen, ReadGathers
  <2>2. BatchMem = [in |-> InsOf(infos, before), cnt |-> CntsOf(infos, before)]
    BY <1>2, ReturnSeen, LanesAre
  <2>3. BatchMem # Lost /\ BatchMem.cnt = op.acc
    BY <2>1, <2>2, PairFacts
  <2>4. \A i \in Shards : HoldsStorage(worker'[i], before[i])
    BY <1>1, <1>2, ReturnHolds
  <2>5. \A i \in Shards : Held'[i].in = before[i].in /\ Held'[i].cnt = before[i].cnt
    BY <2>4, ReturnSeen DEF HoldsStorage
  <2>6. Lanes(infos, Held') = Lanes(infos, before)
    BY <2>5, ReturnSeen, SameLanes
  <2>7. BatchMem' = BatchMem
    BY <1>1, <1>2, <2>6, ReturnSeen
  <2>8. got' = [values |-> BatchMem.cnt]
    BY <1>1, <1>2, <2>3
  <2> QED
    BY <1>1, <2>3, <2>7, <2>8 DEF BatchStep, Batch!Next, Batch!Read, Batch!Lost, Lost
<1>3. CASE ~trusted
  <2>1. BatchMem' = BatchMem /\ BatchMem = Lost /\ got' = Lost
    BY <1>1, <1>3, ReturnSeen
  <2> QED
    BY <1>1, <2>1 DEF BatchStep, Batch!Next, Batch!Read, Batch!Lost, Lost
<1> QED
  BY <1>2, <1>3

(* A restore, and a recovery that succeeded.                               *)
LEMMA RestoreRefines ==
    ASSUME RuntimeInv, Return, op.kind = "Restore" \/ (op.kind = "Recover" /\ op.ok)
    PROVE  BatchStep
<1>1. BatchStore' = BatchStore /\ got' = got
  BY ReturnSeen
<1>2. CASE trusted'
  <2>1. /\ saved # Never /\ saved.trusted
        /\ \A i \in Shards : HoldsStorage(worker'[i], saved.storages[i])
    BY <1>2, ReturnHolds
  <2>2. \A i \in Shards : /\ Held'[i].in = saved.storages[i].in
                          /\ Held'[i].cnt = saved.storages[i].cnt
    BY <2>1, ReturnSeen DEF HoldsStorage
  <2>3. Lanes(infos, Held') = Lanes(infos, saved.storages)
    BY <2>2, ReturnSeen, SameLanes
  <2>4. BatchStore = Lanes(infos, saved.storages)
    BY <2>1 DEF BatchStore
  <2>5. BatchStore # Never /\ BatchMem' = BatchStore
    BY <1>2, <2>3, <2>4, NotLost, ReturnSeen
  <2> QED
    BY <1>1, <2>5 DEF BatchStep, Batch!Next, Batch!Restore, Batch!Never, Never
<1>3. CASE ~trusted'
  BY <1>1, <1>3, ReturnSeen, FailRefines
<1> QED
  BY <1>2, <1>3

(* A tick.                                                                 *)
LEMMA TickRefines ==
    ASSUME RuntimeInv, Return, op.kind = "Tick"
    PROVE  BatchStep
<1>1. BatchStore' = BatchStore /\ got' = got
  BY ReturnSeen
<1>2. CASE trusted'
  <2>1. /\ trusted
        /\ \A i \in Shards : HoldsStorage(worker'[i], Ticked(before[i], Topology[i], op.arg))
    BY <1>2, ReturnHolds
  <2>2. \A i \in Shards : Ticked(before[i], Topology[i], op.arg).in = before[i].in
    BY DEF Ticked
  <2>3. \A i \in Shards : /\ Held'[i].in = before[i].in
                          /\ Held'[i].cnt = Ticked(before[i], Topology[i], op.arg).cnt
    BY <2>1, <2>2, ReturnSeen DEF HoldsStorage
  <2>4. op.arg \in 0..MaxSteps
    BY DEF RuntimeInv, OpType, Return
  <2> DEFINE m == Lanes(infos, before)
             n == op.arg
             t == Held'
  <2>5. Lanes(infos, t) = AllTicked(m, n)
    BY <2>3, ReturnSeen, TickedLanes
  <2>6. BatchMem = m /\ BatchMem' = Lanes(infos, Held') /\ BatchMem # Lost
    BY <1>2, <2>1, NotLost, ReturnSeen
  <2> HIDE DEF m, n
  <2>7. BatchMem' = [BatchMem EXCEPT !.cnt = [l \in 1..TotalLanes |-> @[l] + n * BatchMem.in[l]]]
    <3>1. BatchMem' = AllTicked(BatchMem, n)
      BY <2>5, <2>6
    <3> QED
      BY <3>1 DEF AllTicked
  <2>8. n \in 0..MaxSteps
    BY <2>4 DEF n
  <2> QED
    BY <1>1, <2>6, <2>7, <2>8 DEF BatchStep, Batch!Next, Batch!Tick, Batch!Lost, Lost
<1>3. CASE ~trusted'
  BY <1>1, <1>3, ReturnSeen, FailRefines
<1> QED
  BY <1>2, <1>3

(* Inputs that were set.                                                   *)
LEMMA SetInputRefines ==
    ASSUME RuntimeInv, Return, op.kind = "SetInput"
    PROVE  BatchStep
<1>1. BatchStore' = BatchStore /\ got' = got
  BY ReturnSeen
<1>2. CASE trusted'
  <2>1. /\ trusted
        /\ \A i \in Shards : /\ worker'[i].shard.in = Slice(op.arg, i)
                             /\ worker'[i].shard.cnt = before[i].cnt
    BY <1>2, ReturnHolds
  <2>2. \A i \in Shards : Held'[i].in = Slice(op.arg, i) /\ Held'[i].cnt = before[i].cnt
    BY <2>1, ReturnSeen
  <2>3. op.arg \in Inputs /\ Len(op.arg) = startLane
    BY DEF RuntimeInv, OpType, Return
  <2>4. Len(op.arg) = TotalLanes
    BY <2>3, ReadyRanges, ReturnSeen DEF Ready
  <2>5. Lanes(infos, Held') = [Lanes(infos, before) EXCEPT !.in = op.arg]
    BY <2>2, <2>3, <2>4, ReturnSeen, SetLanes
  <2>6. /\ BatchMem = Lanes(infos, before) /\ BatchMem' = Lanes(infos, Held')
        /\ BatchMem # Lost
    BY <1>2, <2>1, NotLost, ReturnSeen
  <2>7. BatchMem' = [BatchMem EXCEPT !.in = op.arg]
    BY <2>5, <2>6
  <2> QED
    BY <1>1, <2>3, <2>4, <2>6, <2>7
       DEF BatchStep, Batch!Next, Batch!SetInput, Batch!Lost, Lost
<1>3. CASE ~trusted'
  BY <1>1, <1>3, ReturnSeen, FailRefines
<1> QED
  BY <1>2, <1>3

(* A call that failed or has no effect on the lanes.                       *)
LEMMA OtherRefines ==
    ASSUME RuntimeInv, Return,
           \/ op.kind = "Health"
           \/ op.kind \in {"Snapshot", "GetSignal", "Recover"} /\ ~op.ok
    PROVE  BatchStep
<1>1. BatchStore' = BatchStore /\ got' = got
  BY ReturnSeen
<1>2. CASE trusted'
  <2>1. trusted /\ \A i \in Shards : HoldsStorage(worker'[i], before[i])
    BY <1>2, ReturnHolds
  <2>2. \A i \in Shards : Held'[i].in = before[i].in /\ Held'[i].cnt = before[i].cnt
    BY <2>1, ReturnSeen DEF HoldsStorage
  <2>3. Lanes(infos, Held') = Lanes(infos, before)
    BY <2>2, ReturnSeen, SameLanes
  <2>4. BatchMem' = BatchMem
    BY <1>2, <2>1, <2>3, ReturnSeen
  <2> QED
    BY <1>1, <2>4, StutterRefines DEF BatchStutters
<1>3. CASE ~trusted'
  BY <1>1, <1>3, ReturnSeen, FailRefines
<1> QED
  BY <1>2, <1>3

LEMMA ReturnRefines ==
    ASSUME RuntimeInv, Return
    PROVE  BatchStep
<1>1. op.kind \in OpKinds /\ op.ok \in BOOLEAN
  BY ReturnSeen
<1> QED
  BY <1>1, SnapshotRefines, SignalRefines, RestoreRefines, TickRefines, SetInputRefines,
     OtherRefines DEF OpKinds

-----------------------------------------------------------------------------
(* No other step of the runtime is seen.                                   *)

LEMMA SameSeen ==
    ASSUME UNCHANGED <<phase, infos, worker, op, got, saved, trusted, before>>
    PROVE  BatchStep
<1>1. Held' = Held
  BY DEF Held
<1>2. BatchMem' = BatchMem /\ BatchStore' = BatchStore
  BY <1>1 DEF BatchMem, BatchStore
<1> QED
  BY <1>2, StutterRefines DEF BatchStutters

LEMMA ConstructionRefines ==
    ASSUME RuntimeInv, AddShard \/ Retry
    PROVE  BatchStep
<1>1. phase # "ready" /\ phase' # "ready" /\ saved' = saved /\ got' = got
  <2>1. CASE AddShard
    <3>1. phase = "building" /\ saved' = saved /\ got' = got
      BY <2>1 DEF AddShard
    <3>2. phase' = phase \/ phase' = "failed"
      BY <2>1 DEF AddShard
    <3> QED
      BY <3>1, <3>2
  <2>2. CASE Retry
    <3>1. phase = "failed" /\ phase' = "building" /\ UNCHANGED <<saved, got>>
      BY <2>2, Zenon DEF Retry
    <3> QED
      BY <3>1
  <2> QED
    BY <2>1, <2>2
<1>2. saved = Never
  BY <1>1 DEF RuntimeInv, Construction
<1>3. BatchMem' = BatchMem /\ BatchStore' = BatchStore
  BY <1>1, <1>2 DEF BatchMem, BatchStore
<1> QED
  BY <1>1, <1>3, StutterRefines DEF BatchStutters

LEMMA BuiltRefines ==
    ASSUME RuntimeInv, Built
    PROVE  BatchStep
<1>1. /\ phase = "building" /\ phase' = "ready" /\ Len(infos) = Len(Topology)
      /\ UNCHANGED <<infos, worker, op, got, saved, trusted, before>>
  BY DEF Built
<1>2. /\ Ready /\ op = Idle /\ trusted
      /\ \A i \in 1..Len(infos) : worker[i].shard = NewShard(infos[i])
  BY <1>1 DEF RuntimeInv, Construction, Ready
<1>3. \A i \in Shards : infos[i].lanes = Topology[i] /\ worker[i].shard = NewShard(infos[i])
  BY <1>1, <1>2, ReadyRanges DEF Ready, Shards
<1>4. \A i \in Shards : Held[i].in = NewShard(infos[i]).in /\ Held[i].cnt = NewShard(infos[i]).cnt
  BY <1>3 DEF Held, Storage
<1>5. \A i \in Shards : /\ Held[i].in = [l \in 1..Topology[i] |-> 0]
                        /\ Held[i].cnt = [l \in 1..Topology[i] |-> 0]
  BY <1>3, <1>4 DEF NewShard
<1>6. Lanes(infos, Held) = NoCycles
  BY <1>2, <1>5, NewLanes
<1>7. Held' = Held
  BY <1>1 DEF Held
<1>8. BatchMem' = Lanes(infos, Held) /\ BatchMem = NoCycles /\ BatchStore' = BatchStore
  BY <1>1, <1>2, <1>7 DEF BatchMem, BatchStore
<1> QED
  BY <1>1, <1>6, <1>8, StutterRefines DEF BatchStutters

LEMMA BeginRefines ==
    ASSUME RuntimeInv, NEW kind \in OpKinds, NEW arg, Begin(kind, arg)
    PROVE  BatchStep
<1>1. /\ phase = "ready" /\ op = Idle /\ before' = Held
      /\ op' = [kind |-> kind, arg |-> arg, todo |-> Shards, stage |-> 1, ok |-> TRUE,
                acc |-> << >>, info |-> Never]
      /\ UNCHANGED <<phase, infos, worker, got, saved, trusted>>
  BY DEF Begin
<1>2. op' # Idle
  BY <1>1 DEF Idle, OpKinds
<1>3. BatchMem' = BatchMem /\ BatchStore' = BatchStore
  BY <1>1, <1>2 DEF BatchMem, BatchStore
<1> QED
  BY <1>1, <1>3, StutterRefines DEF BatchStutters

LEMMA OperationRefines ==
    ASSUME RuntimeInv, Operation
    PROVE  BatchStep
<1>1. ASSUME NEW kind, Reject(kind) PROVE BatchStep
  BY <1>1, SameSeen DEF Reject
<1>2. ASSUME NEW v \in Inputs, SetInput(v) PROVE BatchStep
  BY <1>1, <1>2, BeginRefines DEF SetInput, OpKinds
<1>3. ASSUME NEW n \in 0..MaxSteps, Tick(n) PROVE BatchStep
  BY <1>3, BeginRefines DEF Tick, OpKinds
<1>4. ASSUME GetSignal \/ Health \/ Checkpoint PROVE BatchStep
  BY <1>4, BeginRefines DEF GetSignal, Health, Checkpoint, OpKinds
<1>5. ASSUME NEW snap \in Snapshots, Restore(snap) \/ Recover(snap) PROVE BatchStep
  BY <1>1, <1>5, BeginRefines DEF Restore, Recover, OpKinds
<1> QED
  BY <1>2, <1>3, <1>4, <1>5 DEF Operation

LEMMA RequestRefines ==
    ASSUME RuntimeInv, NEW i \in Shards, RequestShard(i) \/ RecoverShard(i)
    PROVE  BatchStep
<1>1. /\ op # Idle /\ UNCHANGED <<phase, infos, got, saved, trusted, before>>
      /\ \E ok \in BOOLEAN : \E resp : op' = Advance(i, ok, resp)
  BY DEF RequestShard, RecoverShard, Good
<1>2. op' # Idle
  BY <1>1, AdvanceRight DEF RuntimeInv
<1>3. BatchMem' = BatchMem /\ BatchStore' = BatchStore
  BY <1>1, <1>2 DEF BatchMem, BatchStore
<1> QED
  BY <1>1, <1>3, StutterRefines DEF BatchStutters

LEMMA StepRefines ==
    ASSUME RuntimeInv, [Next]_vars
    PROVE  [Batch!Next]_(Batch!vars)
<1>1. CASE UNCHANGED vars
  BY <1>1, SameSeen DEF vars, BatchStep
<1>2. CASE Work
  BY <1>2, RequestRefines, ReturnRefines DEF Work, BatchStep
<1> QED
  BY <1>1, <1>2, ConstructionRefines, BuiltRefines, OperationRefines DEF Next, BatchStep

LEMMA InitRefines == Init => Batch!Init
<1> SUFFICES ASSUME Init PROVE Batch!Init
  OBVIOUS
<1>1. phase # "ready" /\ saved = Never /\ got = Never
  BY DEF Init
<1>2. BatchMem = NoCycles /\ BatchStore = Never
  BY <1>1 DEF BatchMem, BatchStore
<1> QED
  BY <1>1, <1>2 DEF Batch!Init, Batch!Zero, Batch!Never, Never, NoCycles

(* The runtime behaves as one simulator of all its lanes: an operation that *)
(* returns Ok has happened to every lane exactly once, in whatever order   *)
(* the shards answered; a checkpoint holds one state of all lanes; and     *)
(* recovery brings back exactly that state or changes nothing.             *)
THEOREM RuntimeIsOneSimulator == Spec => BehavesAsOneSimulator
<1>1. RuntimeInv /\ [Next]_vars => [Batch!Next]_(Batch!vars)
  BY StepRefines
<1> QED
  BY <1>1, InitRefines, RuntimeInvariance, PTL DEF Spec, BehavesAsOneSimulator, Batch!Spec
=============================================================================
