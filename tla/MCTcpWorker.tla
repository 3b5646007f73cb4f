---------------------------- MODULE MCTcpWorker ----------------------------
(* Model-checking instance of TcpWorker: a one-lane shard, the requests    *)
(* that make it, change it and read it, and two clients: one with enough   *)
(* calls for answers to lag two frames behind, and one queued behind it.   *)
EXTENDS TcpWorker

CONSTANTS c1, c2

InitRequest == [kind |-> "InitShard", info |-> Info(0, 1)]
SetRequest == [kind |-> "SetInput", values |-> <<1>>]
TickRequest == [kind |-> "Tick", steps |-> 1]
SnapshotRequest == [kind |-> "Snapshot"]

ShardRequests ==
    [c \in Clients |->
        IF c = c1 THEN {InitRequest, SetRequest, SnapshotRequest}
        ELSE {InitRequest, TickRequest}]

ThreeAndOne == [c \in Clients |-> IF c = c1 THEN 3 ELSE 1]
=============================================================================
