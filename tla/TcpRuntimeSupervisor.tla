------------------------ MODULE TcpRuntimeSupervisor ------------------------
(***************************************************************************)
(* TcpRuntimeSupervisor: the owner of a DistributedRuntime, of the worker  *)
(* processes it runs on and of the latest checkpoint, and the recovery it  *)
(* performs when its caller asks for it.                                   *)
(*                                                                         *)
(* The state of the simulation is the number of cycles each shard has      *)
(* executed.  DistributedRuntime says what a failed operation may have     *)
(* done; here it has ticked some of the shards, and from then on the       *)
(* runtime is `dirty' until it is recovered from a clean checkpoint.       *)
(***************************************************************************)
EXTENDS Integers

CONSTANTS
    NumWorkers,  \* workers of the topology
    MaxPid,      \* bound on the processes spawned
    MaxCycles,   \* bound on the cycles executed
    MaxCrashes   \* bound on workers that die by themselves

ASSUME SupervisorAssumption ==
    /\ NumWorkers \in Nat \ {0}
    /\ MaxPid \in Nat
    /\ MaxCycles \in Nat
    /\ MaxCrashes \in Nat

Workers == 1..NumWorkers
Pids == 1..MaxPid
None == 0
NoCheckpoint == [taken |-> FALSE]
NoEvent == [taken |-> FALSE]

VARIABLES
    phase,      \* what the supervisor is doing, "idle" between calls
    running,    \* processes that run
    spawned,    \* number of processes spawned so far
    cycles,     \* cycles[p]: cycles of the shard in process p
    processes,  \* processes[w]: the process handle of worker w, or None
    engines,    \* engines[w]: the process the runtime's shard w is connected to
    fresh,      \* fresh[w]: handles of a spawn or recovery in progress
    latest,     \* latest_checkpoint
    event,      \* latest_checkpoint_event, as the state it was emitted for
    pending,    \* the closure's `latest' while a checkpointed run is going on
    left,       \* chunks left to the checkpointed run
    dirty,      \* history: a runtime operation failed since the last recovery
    stray,      \* history: processes that reported no usable address
    crashes     \* number of crashes so far

supervisorVars == <<phase, running, spawned, cycles, processes, engines, fresh, latest, event, pending,
          left, dirty, stray, crashes>>

NoProcess == [w \in Workers |-> None]
Handles(h) == {h[w] : w \in Workers} \ {None}

SupervisorInit ==
    /\ phase = "down"
    /\ running = {}
    /\ spawned = 0
    /\ cycles = [p \in Pids |-> 0]
    /\ processes = NoProcess
    /\ engines = NoProcess
    /\ fresh = NoProcess
    /\ latest = NoCheckpoint
    /\ event = NoEvent
    /\ pending = NoCheckpoint
    /\ left = 0
    /\ dirty = FALSE
    /\ stray = {}
    /\ crashes = 0

-----------------------------------------------------------------------------
(* Worker processes.                                                       *)

(* A worker dies, or ends at an I/O error (TcpWorker's ServeIoError).      *)
Crash(p) ==
    /\ p \in running
    /\ crashes < MaxCrashes
    /\ crashes' = crashes + 1
    /\ running' = running \ {p}
    /\ UNCHANGED <<phase, spawned, cycles, processes, engines, fresh, latest, event, pending,
                   left, dirty, stray>>

(* TcpRuntimeWorkerProcessSet::spawn goes through the topology in order.   *)
Spawning(w) ==
    /\ phase \in {"spawn", "respawn"}
    /\ fresh[w] = None
    /\ \A v \in 1..(w - 1) : fresh[v] # None

(* The state an abandoned spawn or recovery returns to.                    *)
Abandoned == IF phase = "spawn" THEN "down" ELSE "idle"

(* TcpRuntimeWorkerProcess::spawn for the next worker of the topology.     *)
SpawnProcess(w) ==
    /\ Spawning(w)
    /\ spawned < MaxPid
    /\ spawned' = spawned + 1
    /\ running' = running \cup {spawned'}
    /\ fresh' = [fresh EXCEPT ![w] = spawned']
    /\ UNCHANGED <<phase, cycles, processes, engines, latest, event, pending, left, dirty, stray, crashes>>

\* Mutant: the processes spawned before the failing one are not killed.
SpawnFailsLeaking(w) ==
    /\ Spawning(w)
    /\ spawned < MaxPid
    /\ spawned' = spawned + 1
    /\ fresh' = NoProcess
    /\ phase' = Abandoned
    /\ UNCHANGED <<running, cycles, processes, engines, latest, event, pending, left,
                   dirty, stray, crashes>>

(* The process ends before it reports an address: it is reaped, and so are *)
(* the ones spawned before it when the half-built set is dropped.          *)
SpawnFails(w) ==
    /\ Spawning(w)
    /\ spawned < MaxPid
    /\ spawned' = spawned + 1
    /\ running' = running \ Handles(fresh)
    /\ fresh' = NoProcess
    /\ phase' = Abandoned
    /\ UNCHANGED <<cycles, processes, engines, latest, event, pending, left, dirty,
                   stray, crashes>>

(* The process reports a line that is no address: spawn returns the parse  *)
(* error and drops the Child, which does not end the process.              *)
SpawnMisreports(w) ==
    /\ Spawning(w)
    /\ spawned < MaxPid
    /\ spawned' = spawned + 1
    /\ running' = (running \ Handles(fresh)) \cup {spawned'}
    /\ stray' = stray \cup {spawned'}
    /\ fresh' = NoProcess
    /\ phase' = Abandoned
    /\ UNCHANGED <<cycles, processes, engines, latest, event, pending, left, dirty,
                   crashes>>

AllSpawned == \A w \in Workers : fresh[w] # None

-----------------------------------------------------------------------------
(* TcpRuntimeSupervisor::spawn                                             *)

Spawn ==
    /\ phase = "down"
    /\ phase' = "spawn"
    /\ UNCHANGED <<running, spawned, cycles, processes, engines, fresh, latest, event, pending,
                   left, dirty, stray, crashes>>

(* DistributedRuntime::new_tcp_workers over the spawned processes.         *)
Construct ==
    /\ phase = "spawn"
    /\ AllSpawned
    /\ \/ /\ Handles(fresh) \subseteq running
          /\ processes' = fresh
          /\ engines' = fresh
          /\ phase' = "idle"
          /\ UNCHANGED running
       \/ /\ phase' = Abandoned
          /\ running' = running \ Handles(fresh)
          /\ UNCHANGED <<processes, engines>>
    /\ fresh' = NoProcess
    /\ UNCHANGED <<spawned, cycles, latest, event, pending, left, dirty, stray,
                   crashes>>

-----------------------------------------------------------------------------
(* Operations of the runtime.                                              *)

Reachable == \A w \in Workers : engines[w] \in running

(* runtime.checkpoint_with_tcp_endpoints: what each shard holds.       *)
Snapshot ==
    [taken |-> TRUE, cycles |-> [w \in Workers |-> cycles[engines[w]]],
     dirty |-> dirty]

(* execute_shards on one chunk: all shards, or on an error some of them.   *)
Advance(S) ==
    cycles' = [p \in Pids |-> IF \E w \in S : engines[w] = p THEN cycles[p] + 1 ELSE cycles[p]]

(* checkpoint()                                                            *)
Checkpoint ==
    /\ phase = "idle"
    /\ \/ /\ Reachable
          /\ latest' = Snapshot
          /\ event' = NoEvent
          /\ UNCHANGED dirty
       \/ /\ dirty' = TRUE
          /\ UNCHANGED <<latest, event>>
    /\ UNCHANGED <<phase, running, spawned, cycles, processes, engines, fresh, pending, left,
                   stray, crashes>>

(* tick_many_with_checkpoints: a run of n chunks.  As in CheckpointCadence *)
(* there may be a checkpoint before the first chunk, there is one between  *)
(* two chunks, and there may be one after the last.                        *)
StartRun(n) ==
    /\ phase = "idle"
    /\ \A w \in Workers : cycles[engines[w]] + n <= MaxCycles
    /\ phase' \in {"emit", IF n > 0 THEN "run" ELSE "close"}
    /\ left' = n
    /\ pending' = NoCheckpoint
    /\ UNCHANGED <<running, spawned, cycles, processes, engines, fresh, latest, event,
                   dirty, stray, crashes>>

\* Mutant: an error of one shard does not end the run.
RunTickIgnoringErrors ==
    /\ phase = "run"
    /\ \E S \in SUBSET {w \in Workers : engines[w] \in running} : Advance(S)
    /\ left' = left - 1
    /\ phase' = "emit"
    /\ UNCHANGED <<running, spawned, processes, engines, fresh, latest, event, pending,
                   dirty, stray, crashes>>

RunTick ==
    /\ phase = "run"
    /\ \/ /\ Reachable
          /\ Advance(Workers)
          /\ left' = left - 1
          /\ phase' \in IF left > 1 THEN {"emit"} ELSE {"emit", "close"}
          /\ UNCHANGED dirty
       \/ \E S \in SUBSET {w \in Workers : engines[w] \in running} :
             /\ Advance(S)
             /\ dirty' = TRUE
             /\ phase' = "close"
             /\ UNCHANGED left
    /\ UNCHANGED <<running, spawned, processes, engines, fresh, latest, event, pending,
                   stray, crashes>>

(* emit_checkpoint: the closure keeps the checkpoint, then calls the       *)
(* caller's sink, which may fail.                                          *)
RunEmit ==
    /\ phase = "emit"
    /\ \/ /\ Reachable
          /\ pending' = Snapshot
          /\ phase' \in {"close", IF left = 0 THEN "close" ELSE "run"}
          /\ UNCHANGED dirty
       \/ /\ dirty' = TRUE
          /\ phase' = "close"
          /\ UNCHANGED pending
    /\ UNCHANGED <<running, spawned, cycles, processes, engines, fresh, latest, event, left,
                   stray, crashes>>

(* The run is over, well or not: what the closure kept becomes the latest. *)
EndRun ==
    /\ phase = "close"
    /\ phase' = "idle"
    /\ IF pending.taken
       THEN /\ latest' = pending
            /\ event' = [taken |-> TRUE, cycles |-> pending.cycles]
       ELSE UNCHANGED <<latest, event>>
    /\ pending' = NoCheckpoint
    /\ left' = 0
    /\ UNCHANGED <<running, spawned, cycles, processes, engines, fresh, dirty, stray,
                   crashes>>

-----------------------------------------------------------------------------
(* recover_from_latest_checkpoint                                          *)

StartRecovery ==
    /\ phase = "idle"
    /\ latest.taken
    /\ phase' = "respawn"
    /\ UNCHANGED <<running, spawned, cycles, processes, engines, fresh, latest, event, pending,
                   left, dirty, stray, crashes>>

(* recover_tcp_workers_from_checkpoint_with_config over the new processes, *)
(* all of them or none, and the exchange of the process sets.  If it fails *)
(* the new set is dropped and with it its processes.                       *)
RestoreFresh ==
    /\ phase = "respawn"
    /\ AllSpawned
    /\ \/ /\ Handles(fresh) \subseteq running
          /\ cycles' = [p \in Pids |-> IF \E w \in Workers : fresh[w] = p
                                       THEN latest.cycles[CHOOSE w \in Workers : fresh[w] = p]
                                       ELSE cycles[p]]
          /\ engines' = fresh
          /\ processes' = fresh
          /\ fresh' = processes
          /\ phase' = "reap"
          /\ dirty' = latest.dirty
          /\ UNCHANGED running
       \/ /\ running' = running \ Handles(fresh)
          /\ fresh' = NoProcess
          /\ phase' = "idle"
          /\ UNCHANGED <<cycles, engines, processes, dirty>>
    /\ UNCHANGED <<spawned, latest, event, pending, left, stray, crashes>>

(* kill_all and wait_all on the processes that were replaced.  If either   *)
(* reports an error the recovery returns it, and dropping the old set ends *)
(* what still runs.                                                        *)
ReapOld ==
    /\ phase = "reap"
    /\ running' = running \ Handles(fresh)
    /\ fresh' = NoProcess
    /\ phase' \in {"recheck", "idle"}
    /\ UNCHANGED <<spawned, cycles, processes, engines, latest, event, pending, left, dirty, stray, crashes>>

\* Mutant: the checkpoint is dropped before its successor is taken.
RecheckpointTaking ==
    /\ phase = "recheck"
    /\ phase' = "idle"
    /\ latest' = IF Reachable THEN Snapshot ELSE NoCheckpoint
    /\ UNCHANGED <<running, spawned, cycles, processes, engines, fresh, event, pending, left,
                   dirty, stray, crashes>>

(* The checkpoint of the recovered runtime, with the new endpoints.  If it *)
(* fails the recovery returns an error although the runtime has recovered. *)
Recheckpoint ==
    /\ phase = "recheck"
    /\ phase' = "idle"
    /\ fresh' = NoProcess
    /\ \/ /\ Reachable
          /\ latest' = Snapshot
          /\ UNCHANGED dirty
       \/ /\ dirty' = TRUE
          /\ UNCHANGED latest
    /\ UNCHANGED <<running, spawned, cycles, processes, engines, event, pending, left, stray,
                   crashes>>

(* shutdown(): kill_all and wait_all; the supervisor can still recover.    *)
Shutdown ==
    /\ phase = "idle"
    /\ running' = running \ Handles(processes)
    /\ UNCHANGED <<phase, spawned, cycles, processes, engines, fresh, latest, event, pending, left,
                   dirty, stray, crashes>>

(* The supervisor goes out of scope: dropping the handles ends what runs.  *)
Drop ==
    /\ phase = "idle"
    /\ phase' = "dropped"
    /\ running' = running \ Handles(processes)
    /\ processes' = NoProcess
    /\ UNCHANGED <<spawned, cycles, engines, fresh, latest, event, pending, left, dirty, stray, crashes>>

SupervisorNext ==
    \/ \E p \in Pids : Crash(p)
    \/ Spawn \/ Construct
    \/ \E w \in Workers : SpawnProcess(w) \/ SpawnFails(w) \/ SpawnMisreports(w)
    \/ Checkpoint \/ (\E n \in 0..MaxCycles : StartRun(n)) \/ RunTick \/ RunEmit \/ EndRun
    \/ StartRecovery \/ RestoreFresh \/ ReapOld \/ Recheckpoint
    \/ Shutdown \/ Drop

SupervisorSpec == SupervisorInit /\ [][SupervisorNext]_supervisorVars

-----------------------------------------------------------------------------
(* Between calls every running worker process is one of the supervisor's:  *)
(* neither a failed spawn, nor a failed or successful recovery, nor a      *)
(* shutdown leaves a process behind, except one whose startup line was not *)
(* an address.                                                             *)
NoLeakedProcess ==
    phase \in {"down", "idle", "dropped"} => running \subseteq Handles(processes) \cup stray

(* The runtime is only ever connected to the processes the supervisor      *)
(* holds: the two are exchanged together, at every failure point of        *)
(* recovery.                                                               *)
RuntimeOnOwnProcesses ==
    phase \in {"idle", "run", "emit", "close", "respawn", "reap", "recheck"} =>
        engines = processes

(* Unless the caller took a checkpoint after an error without recovering,  *)
(* the latest checkpoint has every shard at the same cycle, although runs  *)
(* that fail half-way leave the shards apart and still publish their last  *)
(* checkpoint.                                                             *)
LatestIsConsistent ==
    (latest.taken /\ ~latest.dirty) =>
        \A v, w \in Workers : latest.cycles[v] = latest.cycles[w]

(* The event reported with the latest checkpoint is the one it was emitted *)
(* for; recovery replaces the checkpoint and keeps the event.              *)
EventDescribesLatest ==
    event.taken => latest.taken /\ event.cycles = latest.cycles

(* The supervisor, its processes and its runtime belong together: between  *)
(* calls nothing it spawned runs unowned, and the runtime talks to the     *)
(* processes the supervisor would kill.                                    *)
ProcessesOwned == NoLeakedProcess /\ RuntimeOnOwnProcesses

(* What a recovery would start from is one cycle of the whole simulation,  *)
(* and the event published with it says which.                             *)
CheckpointRecoverable == LatestIsConsistent /\ EventDescribesLatest

(* A recovery never loses or alters the state to recover from, wherever it *)
(* stops: a failed one can be tried again.                                 *)
RecoveryKeepsCheckpoint ==
    [][(latest.taken => latest'.taken)
       /\ (phase \in {"respawn", "reap", "recheck"} => latest'.cycles = latest.cycles)]_supervisorVars

(* A recovery that fails before the exchange leaves the old runtime        *)
(* exactly as it was, its processes running.                               *)
FailedRecoveryHarmless ==
    [][(phase = "respawn" /\ phase' = "idle") =>
           /\ engines' = engines
           /\ \A w \in Workers : /\ processes[w] \in running => processes[w] \in running'
                                 /\ cycles'[engines[w]] = cycles[engines[w]]]_supervisorVars

(* Wherever a recovery stops it has lost nothing: neither the checkpoint   *)
(* nor, before the exchange, the runtime it was to replace.                *)
RecoveryLosesNothing == RecoveryKeepsCheckpoint /\ FailedRecoveryHarmless
=============================================================================
