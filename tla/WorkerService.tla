---------------------------- MODULE WorkerService ----------------------------
(***************************************************************************)
(* LocalRuntimeWorkerService::handle for the shard requests, as operators: *)
(* the shard a request leaves behind and the response it gets.  The worker *)
(* behind a TCP connection (TcpWorker) and the workers of a distributed    *)
(* runtime (DistributedRuntime) both use them.                             *)
(*                                                                         *)
(* A shard simulates the design of the documentation's example, a counter  *)
(* with an enable input: lane l of the shard holds the input in[l] and the *)
(* register cnt[l].  One design is enough because the runtime never looks  *)
(* into a shard's storage; what matters to it is that the storage changes  *)
(* with every cycle and depends on the inputs of the right lanes.          *)
(* SetInput stands for SetInput, SetInputLimbs and SetMemoryLimbs, and     *)
(* GetSignal for GetSignalLimbs and GetMemoryLimbs, which differ only in   *)
(* the word they touch; Tick stands for Tick and TickMany.                 *)
(***************************************************************************)
EXTENDS Integers, Sequences

NoShard == [lanes |-> 0]

(* RuntimeShardInit: the shard a worker is asked to own.                   *)
Info(start, lanes) == [start |-> start, lanes |-> lanes]

NewShard(info) ==
    [start |-> info.start, lanes |-> info.lanes,
     in  |-> [l \in 1..info.lanes |-> 0],
     cnt |-> [l \in 1..info.lanes |-> 0],
     ops |-> 0]

(* Clock cycles of every lane of the shard (tick and tick_many).           *)
TickShard(shard, steps) ==
    [shard EXCEPT !.cnt = [l \in 1..shard.lanes |-> @[l] + steps * shard.in[l]]]

(* PackedSimulatorStorage: all a snapshot keeps of a shard.                *)
Storage(shard) == [in |-> shard.in, cnt |-> shard.cnt]

SetStorage(shard, storage) == [shard EXCEPT !.in = storage.in, !.cnt = storage.cnt]

\* Mutant: InitShard replaces the shard a worker already has.
AcceptedAnyInit(shard, req) ==
    CASE req.kind = "InitShard" -> req.info.lanes > 0
      [] req.kind = "Health" -> TRUE
      [] OTHER -> shard # NoShard

(* Requests that need an initialised shard are answered with an error      *)
(* otherwise (shard_mut); InitShard is answered with an error unless the   *)
(* service has no shard yet; RestoreSnapshot is checked against the lane   *)
(* range and the size of the shard's storage, SetInput against its lanes.   *)
Accepted(shard, req) ==
    CASE req.kind = "InitShard" -> shard = NoShard /\ req.info.lanes > 0
      [] req.kind = "Health" -> TRUE
      [] req.kind = "SetInput" -> shard # NoShard /\ Len(req.values) = shard.lanes
      [] req.kind = "RestoreSnapshot" ->
            /\ shard # NoShard
            /\ req.info = Info(shard.start, shard.lanes)
            /\ Len(req.storage.in) = shard.lanes
            /\ Len(req.storage.cnt) = shard.lanes
      [] req.kind \in {"Eval", "Tick", "GetSignal", "Snapshot", "Stats", "ResetStats"} ->
            shard # NoShard
      [] OTHER -> FALSE     \* a line that is not a request

\* Mutant: a snapshot moves the storage out of the shard.
ShardAfterTake(shard, req) ==
    IF ~Accepted(shard, req) THEN shard ELSE
    CASE req.kind = "InitShard" -> NewShard(req.info)
      [] req.kind = "SetInput" -> [shard EXCEPT !.in = req.values]
      [] req.kind = "Tick" -> [TickShard(shard, req.steps) EXCEPT !.ops = @ + 1]
      [] req.kind = "Snapshot" -> NewShard(Info(shard.start, shard.lanes))
      [] OTHER -> shard

(* The shard after the request.                                            *)
ShardAfter(shard, req) ==
    IF ~Accepted(shard, req) THEN shard ELSE
    CASE req.kind = "InitShard" -> NewShard(req.info)
      [] req.kind = "SetInput" -> [shard EXCEPT !.in = req.values]
      [] req.kind = "Tick" -> [TickShard(shard, req.steps) EXCEPT !.ops = @ + 1]
      [] req.kind = "Eval" -> [shard EXCEPT !.ops = @ + 1]
      [] req.kind = "RestoreSnapshot" -> SetStorage(shard, req.storage)
      [] req.kind = "ResetStats" -> [shard EXCEPT !.ops = 0]
      [] OTHER -> shard

(* The response.                                                           *)
Ack == [kind |-> "Ack"]
Err == [kind |-> "Err"]

\* Mutant: state-changing requests are acknowledged unconditionally.
ResponseAlwaysAck(shard, req) ==
    IF req.kind \in {"InitShard", "SetInput", "Tick"} THEN Ack
    ELSE IF ~Accepted(shard, req) THEN Err
    ELSE [kind |-> "Snapshot", storage |-> Storage(shard)]

ResponseTo(shard, req) ==
    IF ~Accepted(shard, req) THEN Err ELSE
    CASE req.kind \in {"InitShard", "SetInput", "Eval", "Tick", "RestoreSnapshot",
                       "ResetStats"} -> Ack
      [] req.kind = "Health" -> [kind |-> "Health", initialized |-> shard # NoShard]
      [] req.kind = "GetSignal" -> [kind |-> "Signal", values |-> shard.cnt]
      [] req.kind = "Snapshot" -> [kind |-> "Snapshot", storage |-> Storage(shard)]
      [] req.kind = "Stats" ->
            [kind |-> "Stats", info |-> Info(shard.start, shard.lanes), ops |-> shard.ops]

(* The response kind the caller of request() insists on (expect_ack and    *)
(* the matches in RuntimeEngine); any other is an error to it.             *)
ExpectedKind(req) ==
    CASE req.kind = "Health" -> "Health"
      [] req.kind = "GetSignal" -> "Signal"
      [] req.kind = "Snapshot" -> "Snapshot"
      [] req.kind = "Stats" -> "Stats"
      [] OTHER -> "Ack"
=============================================================================
