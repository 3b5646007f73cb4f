------------------------- MODULE CheckpointCadence -------------------------
(***************************************************************************)
(* DistributedRuntime::tick_many_with_checkpoint_sink: a run of `steps'    *)
(* clock cycles cut into tick_many chunks, with checkpoints handed to the  *)
(* caller's sink at the start, at every multiple of every_steps and at the *)
(* end.  Each fallible call of the loop (tick_many, the checkpoint itself, *)
(* the sink) is a step that may fail and abandon the run.  What a          *)
(* checkpoint contains is DistributedRuntime's subject; here it is the     *)
(* step at which it was taken and the reason given to the sink.            *)
(***************************************************************************)
EXTENDS Integers, Sequences

CONSTANTS
    MaxSteps,   \* bound on the `steps' argument of one run
    MaxEvery,   \* bound on cadence.every_steps
    MaxRuns     \* bound on the number of runs

ASSUME BoundsAssumption ==
    /\ MaxSteps \in Nat
    /\ MaxEvery \in Nat
    /\ MaxRuns \in Nat

VARIABLES
    pc,         \* which call of the function is next; "idle" between runs
    run,        \* the arguments: [steps, every, initial, final]
    completed,  \* completed_steps
    emitted,    \* checkpoints_emitted
    last,       \* last_checkpoint_step; NoStep models None
    result,     \* "none" before the first run, then "running", "ok" or "err"
    log,        \* events handed to the sink in this run, oldest first
    runs        \* number of runs started

vars == <<pc, run, completed, emitted, last, result, log, runs>>

NoStep == -1

Reasons == {"Initial", "Cadence", "Final"}
Events == [step : Nat, reason : Reasons]
Runs == [steps : 0..MaxSteps, every : 0..MaxEvery, initial : BOOLEAN, final : BOOLEAN]

Init ==
    /\ pc = "idle"
    /\ run = [steps |-> 0, every |-> 0, initial |-> FALSE, final |-> FALSE]
    /\ completed = 0
    /\ emitted = 0
    /\ last = NoStep
    /\ result = "none"
    /\ log = << >>
    /\ runs = 0

(* The call: every_steps = 0 is refused before anything else happens. *)
Start(r) ==
    /\ pc = "idle"
    /\ runs < MaxRuns
    /\ runs' = runs + 1
    /\ run' = r
    /\ completed' = 0
    /\ emitted' = 0
    /\ last' = NoStep
    /\ log' = << >>
    /\ IF r.every = 0
       THEN pc' = "idle" /\ result' = "err"
       ELSE pc' = (IF r.initial THEN "initial" ELSE "loop") /\ result' = "running"

(* emit_checkpoint: the snapshot may fail, in which case the sink is never *)
(* called; the sink may fail after it has been handed the checkpoint.      *)
EmitCheckpoint(reason, next) ==
    \/ /\ log' = Append(log, [step |-> completed, reason |-> reason])
       /\ emitted' = emitted + 1
       /\ last' = completed
       /\ pc' = next
       /\ UNCHANGED <<run, completed, result, runs>>
    \/ /\ log' = Append(log, [step |-> completed, reason |-> reason])
       /\ pc' = "idle"
       /\ result' = "err"
       /\ UNCHANGED <<run, completed, emitted, last, runs>>
    \/ /\ pc' = "idle"
       /\ result' = "err"
       /\ UNCHANGED <<run, completed, emitted, last, log, runs>>

EmitInitial == pc = "initial" /\ EmitCheckpoint("Initial", "loop")

\* Mutant: the chunk is cut at the end of the run only.
ChunkIgnoringCadence == run.steps - completed

(* The next chunk: up to the next cadence point, cut at the end of the run. *)
Chunk ==
    LET remaining == run.steps - completed
        stepsToCadence == run.every - (completed % run.every)
    IN  IF remaining < stepsToCadence THEN remaining ELSE stepsToCadence

(* One iteration of the loop up to its checkpoint. *)
TickChunk ==
    /\ pc = "loop"
    /\ completed < run.steps
    /\ \/ /\ completed' = completed + Chunk
          /\ pc' = IF completed' % run.every = 0 THEN "cadence" ELSE "loop"
          /\ UNCHANGED result
       \/ /\ pc' = "idle"
          /\ result' = "err"
          /\ UNCHANGED completed
    /\ UNCHANGED <<run, emitted, last, log, runs>>

EmitCadence == pc = "cadence" /\ EmitCheckpoint("Cadence", "loop")

\* Mutant: the final checkpoint is not suppressed after a cadence one.
LoopExitAlwaysFinal ==
    /\ pc = "loop"
    /\ completed >= run.steps
    /\ pc' = IF run.final THEN "final" ELSE "return"
    /\ UNCHANGED <<run, completed, emitted, last, result, log, runs>>

\* Mutant: the loop is left only past the end of the run.
LoopExitPastEnd ==
    /\ pc = "loop"
    /\ completed > run.steps
    /\ pc' = IF run.final /\ last # completed THEN "final" ELSE "return"
    /\ UNCHANGED <<run, completed, emitted, last, result, log, runs>>

(* The end of the loop: a final checkpoint unless one was just taken. *)
LoopExit ==
    /\ pc = "loop"
    /\ completed >= run.steps
    /\ pc' = IF run.final /\ last # completed THEN "final" ELSE "return"
    /\ UNCHANGED <<run, completed, emitted, last, result, log, runs>>

EmitFinal == pc = "final" /\ EmitCheckpoint("Final", "return")

Return ==
    /\ pc = "return"
    /\ pc' = "idle"
    /\ result' = "ok"
    /\ UNCHANGED <<run, completed, emitted, last, log, runs>>

Next ==
    \/ \E r \in Runs : Start(r)
    \/ EmitInitial
    \/ TickChunk
    \/ EmitCadence
    \/ LoopExit
    \/ EmitFinal
    \/ Return

(* The function runs on the caller's thread and every call in it returns.  *)
Spec == Init /\ [][Next]_vars /\ WF_vars(EmitInitial \/ TickChunk \/ EmitCadence
                                         \/ LoopExit \/ EmitFinal \/ Return)

-----------------------------------------------------------------------------
(* The types of the state; a run never executes more than it was asked to. *)
TypeOK ==
    /\ pc \in {"idle", "initial", "loop", "cadence", "final", "return"}
    /\ run \in Runs
    /\ completed \in 0..run.steps
    /\ emitted \in Nat
    /\ last \in Nat \cup {NoStep}
    /\ result \in {"none", "running", "ok", "err"}
    /\ log \in Seq(Events)
    /\ runs \in Nat

LoggedSteps == {log[i].step : i \in 1..Len(log)}

(* The step a caller would resume from: the latest checkpoint whose sink   *)
(* call succeeded, or the start of the run.                                *)
ResumePoint == IF last = NoStep THEN 0 ELSE last

(* What the documentation of the cadence promises, without the loop: the   *)
(* set of steps of a run that carry a checkpoint.                          *)
ExpectedSteps(r) ==
    {k \in 0..r.steps : \/ k = 0 /\ r.initial
                        \/ k > 0 /\ k % r.every = 0
                        \/ k = r.steps /\ r.final}

(* A run that stops, for whatever reason and wherever it stops, has lost   *)
(* at most every_steps cycles since the checkpoint to resume from: chunks  *)
(* never jump over a cadence point and never start before the previous     *)
(* checkpoint has been accepted by the sink.                               *)
LossBound ==
    run.every > 0 => completed - ResumePoint <= run.every

(* A finished run handed the sink exactly the checkpoints of the cadence,  *)
(* completed exactly the requested steps, and reports as many checkpoints  *)
(* as the sink saw.                                                        *)
CompleteRun ==
    result = "ok" =>
        /\ completed = run.steps
        /\ LoggedSteps = ExpectedSteps(run)
        /\ emitted = Len(log)

(* The sink sees strictly increasing steps, so no step is checkpointed     *)
(* twice (a final checkpoint never repeats a cadence one) and a file named *)
(* after the step is never overwritten within a run.                       *)
StrictlyAscending ==
    \A i, j \in 1..Len(log) : i < j => log[i].step < log[j].step

(* Every run ends: the chunk is never zero, so the loop makes progress.    *)
RunEnds == (result = "running") ~> (result # "running")

=============================================================================
