--------------------------- MODULE MCCheckpointing ---------------------------
(* Model-checking instance of the two components that keep a simulation    *)
(* recoverable: in one half of the behaviours the loop that cuts a run     *)
(* into checkpointed chunks, in the other the supervisor that recovers     *)
(* from what the loop hands it.                                            *)
EXTENDS CheckpointCadence, TcpRuntimeSupervisor

VARIABLE part  \* the component this behaviour is of: "cadence" or "supervisor"

allVars == <<part, vars, supervisorVars>>

MCInit ==
    /\ part \in {"cadence", "supervisor"}
    /\ Init
    /\ SupervisorInit

CadenceStep == part = "cadence" /\ Next /\ UNCHANGED <<part, supervisorVars>>

SupervisorStep == part = "supervisor" /\ SupervisorNext /\ UNCHANGED <<part, vars>>

MCNext == CadenceStep \/ SupervisorStep

(* The fairness of CheckpointCadence; the supervisor is left to its caller. *)
MCSpec ==
    /\ MCInit /\ [][MCNext]_allVars
    /\ WF_allVars(/\ EmitInitial \/ TickChunk \/ EmitCadence \/ LoopExit \/ EmitFinal \/ Return
                  /\ UNCHANGED <<part, supervisorVars>>)
==============================================================================
