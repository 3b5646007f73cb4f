------------------------ MODULE CheckpointingProofs ------------------------
(***************************************************************************)
(* Proofs about the two components that keep a simulation recoverable: the *)
(* loop that cuts a run into checkpointed chunks, for every number of      *)
(* steps and every cadence, and the supervisor that recovers from the      *)
(* checkpoints, for any number of workers, spawns, cycles and crashes.     *)
(***************************************************************************)
EXTENDS CheckpointCadence, TcpRuntimeSupervisor, TLAPS

-----------------------------------------------------------------------------
(***************************************************************************)
(* The checkpoint loop.                                                    *)
(***************************************************************************)

(* Euclidean division, as the provers know it.                             *)
LEMMA Division ==
  ASSUME NEW c \in Nat, NEW e \in Nat, e > 0
  PROVE  /\ c = e * (c \div e) + (c % e)
         /\ c \div e \in Nat
         /\ c % e \in Nat
         /\ c % e < e
  OBVIOUS

(* A multiple of e that is smaller than e is zero.                         *)
LEMMA SmallMultiple ==
  ASSUME NEW q \in Int, NEW e \in Nat, NEW r \in Nat, e > 0, r < e, e * q = r
  PROVE  r = 0
<1>1. CASE q = 0
  BY <1>1
<1>2. CASE q >= 1
  <2>1. e * q >= e
    BY <1>2
  <2> QED
    BY <2>1
<1>3. CASE q <= -1
  <2>1. e * q < 0
    BY <1>3
  <2> QED
    BY <2>1
<1> QED
  BY <1>1, <1>2, <1>3

(* Stepping by the modulus from a multiple of it reaches a multiple of it. *)
LEMMA NextMultiple ==
  ASSUME NEW c \in Nat, NEW e \in Nat, e > 0, c % e = 0
  PROVE  (c + e) % e = 0
<1> DEFINE q == c \div e
           p == (c + e) \div e
           r == (c + e) % e
<1>1. c = e * q /\ q \in Nat
  BY Division
<1>2. c + e = e * p + r /\ p \in Nat /\ r \in Nat /\ r < e
  BY Division
<1> HIDE DEF q, p, r
<1>3. e * q + e = e * p + r
  BY <1>1, <1>2
<1>4. e * (q + 1 - p) = r
  BY <1>1, <1>2, <1>3
<1>5. r = 0
  BY <1>1, <1>2, <1>4, SmallMultiple
<1> QED
  BY <1>5 DEF r

(* There is no multiple of e strictly between two consecutive ones.        *)
LEMMA NoMultipleBetween ==
  ASSUME NEW c \in Nat, NEW e \in Nat, NEW k \in Nat, e > 0, c % e = 0,
         c < k, k < c + e
  PROVE  k % e # 0
<1> SUFFICES ASSUME k % e = 0 PROVE FALSE
  OBVIOUS
<1> DEFINE q == c \div e
           p == k \div e
<1>1. c = e * q /\ q \in Nat
  BY Division
<1>2. k = e * p /\ p \in Nat
  BY Division
<1> HIDE DEF q, p
<1>3. e * (p - q) = k - c
  BY <1>1, <1>2
<1>4. k - c \in Nat /\ k - c < e /\ p - q \in Int
  BY <1>1, <1>2
<1>5. k - c = 0
  BY <1>3, <1>4, SmallMultiple
<1> QED
  BY <1>5

-----------------------------------------------------------------------------
(* The inductive invariant.  Due(k) is the cadence without the final       *)
(* checkpoint; the log is compared with it at every point of the loop.     *)

Due(k) == (k = 0 /\ run.initial) \/ (k > 0 /\ k % run.every = 0)

ControlInv ==
    /\ (pc # "idle") <=> (result = "running")
    /\ pc # "idle" => run.every > 0
    /\ pc = "initial" => completed = 0 /\ log = << >> /\ last = NoStep /\ run.initial
    /\ pc = "loop" => \/ completed = run.steps
                      \/ completed % run.every = 0 /\ completed = ResumePoint
    /\ pc = "cadence" => completed > 0 /\ completed % run.every = 0
    /\ pc = "final" => completed = run.steps /\ last # completed /\ run.final
    /\ pc = "return" => completed = run.steps

LogInv ==
    /\ pc # "idle" => emitted = Len(log)
    /\ pc # "idle" => IF log = << >> THEN last = NoStep ELSE last = log[Len(log)].step
    /\ \A i \in 1..Len(log) : log[i].step <= completed
    /\ pc = "cadence" => \A i \in 1..Len(log) : log[i].step < completed

CoverageInv ==
    /\ pc \in {"loop", "final"} => LoggedSteps = {k \in 0..completed : Due(k)}
    /\ pc = "cadence" => LoggedSteps = {k \in 0..(completed - 1) : Due(k)}
    /\ pc = "return" => LoggedSteps = ExpectedSteps(run)

IInv ==
    /\ TypeOK
    /\ ControlInv
    /\ LogInv
    /\ CoverageInv
    /\ LossBound
    /\ StrictlyAscending
    /\ CompleteRun

-----------------------------------------------------------------------------
(* What handing one more event to the sink does to the log.                *)
LEMMA AppendSteps ==
  ASSUME NEW s \in Seq(Events), NEW e \in Events
  PROVE  LET t == Append(s, e)
         IN  /\ t \in Seq(Events)
             /\ Len(t) = Len(s) + 1
             /\ t # << >>
             /\ t[Len(t)] = e
             /\ \A i \in 1..Len(s) : t[i] = s[i]
             /\ {t[i].step : i \in 1..Len(t)}
                   = {s[i].step : i \in 1..Len(s)} \cup {e.step}
  OBVIOUS

(* The initial state satisfies the invariant.                              *)
LEMMA InitInv == Init => IInv
  BY BoundsAssumption
     DEF Init, IInv, TypeOK, ControlInv, LogInv, CoverageInv, LossBound,
         StrictlyAscending, CompleteRun, Runs, NoStep, ResumePoint

(* A checkpoint accepted or refused by the sink, or never taken, preserves *)
(* what the log records, provided its step is later than every logged one. *)
LEMMA EmitInv ==
  ASSUME IInv, NEW reason \in Reasons, NEW next \in {"loop", "return"},
         pc \in {"initial", "cadence", "final"},
         EmitCheckpoint(reason, next),
         \A i \in 1..Len(log) : log[i].step < completed
  PROVE  /\ TypeOK'
         /\ LogInv'
         /\ LossBound'
         /\ StrictlyAscending'
         /\ \/ pc' = "idle" /\ result' = "err"
            \/ /\ pc' = next /\ last' = completed /\ UNCHANGED <<run, completed, result>>
               /\ LoggedSteps' = LoggedSteps \cup {completed}
<1> USE DEF NoStep
<1> DEFINE e == [step |-> completed, reason |-> reason]
<1>0. e \in Events /\ completed \in Nat /\ run \in Runs /\ run.steps \in Nat
      /\ run.every \in Nat /\ log \in Seq(Events)
  BY BoundsAssumption DEF IInv, TypeOK, Events, Runs
<1>1. ASSUME log' = Append(log, e)
      PROVE  /\ log' \in Seq(Events)
             /\ Len(log') = Len(log) + 1
             /\ log' # << >>
             /\ log'[Len(log')].step = completed
             /\ \A i \in 1..Len(log) : log'[i] = log[i]
             /\ LoggedSteps' = LoggedSteps \cup {completed}
             /\ StrictlyAscending'
             /\ \A i \in 1..Len(log') : log'[i].step <= completed
  <2>1. /\ log' \in Seq(Events)
        /\ Len(log') = Len(log) + 1
        /\ log' # << >>
        /\ log'[Len(log')] = e
        /\ \A i \in 1..Len(log) : log'[i] = log[i]
        /\ LoggedSteps' = LoggedSteps \cup {completed}
    BY <1>0, <1>1, AppendSteps DEF LoggedSteps
  <2>2. Len(log) \in Nat
    BY <1>0
  <2>3. \A i \in 1..Len(log) : log[i].step \in Nat
    <3>1. TAKE i \in 1..Len(log)
    <3>2. log[i] \in Events
      BY <1>0
    <3> QED
      BY <3>2 DEF Events
  <2>4. \A i \in 1..Len(log') : i \in 1..Len(log) \/ i = Len(log')
    BY <2>1, <2>2
  <2>5. StrictlyAscending'
    BY <2>1, <2>2, <2>3, <2>4, <1>0 DEF StrictlyAscending, IInv
  <2> QED
    BY SMTT(30), <2>1, <2>2, <2>3, <2>4, <2>5, <1>0
<1>2. CASE /\ log' = Append(log, e) /\ emitted' = emitted + 1 /\ last' = completed
           /\ pc' = next /\ UNCHANGED <<run, completed, result, runs>>
  BY <1>0, <1>1, <1>2 DEF IInv, TypeOK, LogInv, LossBound, ResumePoint
<1>3. CASE /\ log' = Append(log, e) /\ pc' = "idle" /\ result' = "err"
           /\ UNCHANGED <<run, completed, emitted, last, runs>>
  BY <1>0, <1>1, <1>3 DEF IInv, TypeOK, LogInv, LossBound, ResumePoint
<1>4. CASE /\ pc' = "idle" /\ result' = "err"
           /\ UNCHANGED <<run, completed, emitted, last, log, runs>>
  BY <1>0, <1>4 DEF IInv, TypeOK, LogInv, LossBound, ResumePoint, StrictlyAscending
<1> QED
  BY <1>2, <1>3, <1>4 DEF EmitCheckpoint

(* Every step of the function preserves the invariant.                     *)
LEMMA NextInv == IInv /\ [Next]_vars => IInv'
<1> SUFFICES ASSUME IInv, [Next]_vars PROVE IInv'
  OBVIOUS
<1> USE DEF NoStep
<1>0. /\ completed \in Nat /\ run \in Runs /\ run.steps \in Nat /\ run.every \in Nat
      /\ run.initial \in BOOLEAN /\ run.final \in BOOLEAN
      /\ log \in Seq(Events) /\ Len(log) \in Nat
  BY BoundsAssumption DEF IInv, TypeOK, Runs
<1>1. ASSUME NEW r \in Runs, Start(r) PROVE IInv'
  <2>1. r.steps \in Nat /\ r.every \in Nat /\ r.every >= 0 /\ Len(log') = 0
    BY <1>1, BoundsAssumption DEF Runs, Start
  <2> QED
    BY <1>0, <1>1, <2>1 DEF Start, IInv, TypeOK, ControlInv, LogInv, CoverageInv,
       LossBound, StrictlyAscending, CompleteRun, ResumePoint, LoggedSteps, Due
<1>2. CASE EmitInitial
  <2>1. completed = 0 /\ log = << >> /\ run.initial /\ run.every > 0 /\ Len(log) = 0
        /\ result = "running"
    BY <1>2 DEF EmitInitial, IInv, ControlInv
  <2>2. /\ TypeOK' /\ LogInv' /\ LossBound' /\ StrictlyAscending'
        /\ \/ pc' = "idle" /\ result' = "err"
           \/ /\ pc' = "loop" /\ last' = completed /\ UNCHANGED <<run, completed, result>>
              /\ LoggedSteps' = LoggedSteps \cup {completed}
    BY <1>2, <2>1, EmitInv DEF EmitInitial, Reasons
  <2>3. LoggedSteps = {}
    BY <2>1 DEF LoggedSteps
  <2>4. completed % run.every = 0
    BY <2>1, <1>0
  <2>5. CASE pc' = "idle" /\ result' = "err"
    BY <2>2, <2>5 DEF IInv, ControlInv, CoverageInv, CompleteRun
  <2>6. CASE /\ pc' = "loop" /\ last' = completed /\ UNCHANGED <<run, completed, result>>
             /\ LoggedSteps' = LoggedSteps \cup {completed}
    <3>1. LoggedSteps' = {k \in 0..completed' : Due(k)'}
      BY <2>1, <2>3, <2>6 DEF Due
    <3> QED
      BY <1>0, <2>1, <2>2, <2>4, <2>6, <3>1
         DEF IInv, ControlInv, CoverageInv, CompleteRun, ResumePoint
  <2> QED
    BY <2>2, <2>5, <2>6
<1>3. CASE TickChunk
  <2>1. /\ pc = "loop" /\ completed < run.steps /\ run.every > 0 /\ result = "running"
        /\ completed % run.every = 0 /\ completed = ResumePoint
        /\ UNCHANGED <<run, emitted, last, log, runs>>
    BY <1>0, <1>3 DEF TickChunk, IInv, ControlInv
  <2>2. CASE pc' = "idle" /\ result' = "err" /\ UNCHANGED completed
    BY <2>1, <2>2 DEF IInv, TypeOK, ControlInv, LogInv, CoverageInv, LossBound,
       StrictlyAscending, CompleteRun, ResumePoint
  <2>3. CASE /\ completed' = completed + Chunk
             /\ pc' = IF completed' % run.every = 0 THEN "cadence" ELSE "loop"
             /\ UNCHANGED result
    <3>1. /\ Chunk \in Nat /\ Chunk > 0 /\ Chunk <= run.every
          /\ completed + Chunk <= run.steps
          /\ Chunk = run.every \/ completed + Chunk = run.steps
      <4>1. run.every - (completed % run.every) = run.every
        BY <1>0, <2>1
      <4>2. Chunk = IF run.steps - completed < run.every
                    THEN run.steps - completed ELSE run.every
        BY <4>1 DEF Chunk
      <4> HIDE DEF Chunk
      <4> QED
        BY <1>0, <2>1, <4>2
    <3>2. /\ completed' \in 0..run.steps /\ completed < completed'
          /\ completed' <= completed + run.every
          /\ completed' = completed + run.every \/ completed' = run.steps
      BY <1>0, <2>3, <3>1
    <3>3. \A k \in Nat : completed < k /\ k < completed' => k % run.every # 0
      <4>1. SUFFICES ASSUME NEW k \in Nat, completed < k, k < completed'
                     PROVE  k % run.every # 0
        OBVIOUS
      <4>2. k < completed + run.every
        BY <1>0, <3>2, <4>1
      <4> QED
        BY <1>0, <2>1, <4>1, <4>2, NoMultipleBetween
    <3>4. completed' = completed + run.every => completed' % run.every = 0
      BY <1>0, <2>1, NextMultiple
    <3>5. LoggedSteps = {k \in 0..completed : Due(k)}
      BY <2>1 DEF IInv, CoverageInv
    <3>6. LoggedSteps = {k \in 0..(completed' - 1) : Due(k)}
      BY <1>0, <3>2, <3>3, <3>5 DEF Due
    <3>7. completed' % run.every # 0 => LoggedSteps = {k \in 0..completed' : Due(k)}
      BY <1>0, <3>2, <3>6 DEF Due
    <3>8. LoggedSteps' = LoggedSteps /\ \A k : Due(k)' <=> Due(k)
      BY <2>1 DEF LoggedSteps, Due
    <3>9. TypeOK' /\ LossBound' /\ CompleteRun' /\ StrictlyAscending'
      BY <1>0, <2>1, <2>3, <3>2
         DEF IInv, TypeOK, LossBound, CompleteRun, StrictlyAscending, ResumePoint
    <3>10. ControlInv'
      BY <1>0, <2>1, <2>3, <3>2, <3>4 DEF IInv, ControlInv
    <3>11. LogInv'
      <4>1. \A i \in 1..Len(log) : log[i].step \in Nat
        <5>1. TAKE i \in 1..Len(log)
        <5>2. log[i] \in Events
          BY <1>0
        <5> QED
          BY <5>2 DEF Events
      <4> QED
        BY <1>0, <2>1, <2>3, <3>2, <4>1 DEF IInv, LogInv
    <3>12. CoverageInv'
      BY <2>3, <3>6, <3>7, <3>8 DEF CoverageInv
    <3> QED
      BY <3>9, <3>10, <3>11, <3>12 DEF IInv
  <2> QED
    BY <1>3, <2>2, <2>3 DEF TickChunk
<1>4. CASE EmitCadence
  <2>1. /\ completed > 0 /\ completed % run.every = 0 /\ run.every > 0
        /\ result = "running"
        /\ LoggedSteps = {k \in 0..(completed - 1) : Due(k)}
        /\ \A i \in 1..Len(log) : log[i].step < completed
    BY <1>4 DEF EmitCadence, IInv, ControlInv, CoverageInv, LogInv
  <2>2. /\ TypeOK' /\ LogInv' /\ LossBound' /\ StrictlyAscending'
        /\ \/ pc' = "idle" /\ result' = "err"
           \/ /\ pc' = "loop" /\ last' = completed /\ UNCHANGED <<run, completed, result>>
              /\ LoggedSteps' = LoggedSteps \cup {completed}
    BY <1>4, <2>1, EmitInv DEF EmitCadence, Reasons
  <2>3. CASE pc' = "idle" /\ result' = "err"
    BY <2>2, <2>3 DEF IInv, ControlInv, CoverageInv, CompleteRun
  <2>4. CASE /\ pc' = "loop" /\ last' = completed /\ UNCHANGED <<run, completed, result>>
             /\ LoggedSteps' = LoggedSteps \cup {completed}
    <3>1. LoggedSteps' = {k \in 0..completed' : Due(k)'}
      BY <1>0, <2>1, <2>4 DEF Due
    <3> QED
      BY <1>0, <2>1, <2>2, <2>4, <3>1
         DEF IInv, ControlInv, CoverageInv, CompleteRun, ResumePoint
  <2> QED
    BY <2>2, <2>3, <2>4
<1>5. CASE LoopExit
  <2>1. /\ pc = "loop" /\ completed = run.steps /\ run.every > 0
        /\ LoggedSteps = {k \in 0..completed : Due(k)}
        /\ pc' = (IF run.final /\ last # completed THEN "final" ELSE "return")
        /\ result = "running"
        /\ UNCHANGED <<run, completed, emitted, last, result, log, runs>>
    BY <1>0, <1>5 DEF LoopExit, IInv, TypeOK, ControlInv, CoverageInv
  <2>2. LoggedSteps' = LoggedSteps /\ \A k : Due(k)' <=> Due(k)
    BY <2>1 DEF LoggedSteps, Due
  <2>3. last = completed => completed \in LoggedSteps
    <3>1. HAVE last = completed
    <3>2. log # << >> /\ last = log[Len(log)].step
      BY <1>0, <2>1, <3>1 DEF IInv, LogInv
    <3>3. Len(log) \in 1..Len(log)
      BY <1>0, <3>2
    <3> QED
      BY <3>1, <3>2, <3>3 DEF LoggedSteps
  <2>4. pc' = "return" => LoggedSteps = ExpectedSteps(run)
    BY <1>0, <2>1, <2>3 DEF ExpectedSteps, Due
  <2>5. CoverageInv'
    BY <2>1, <2>2, <2>4 DEF CoverageInv, ExpectedSteps
  <2> QED
    BY <1>0, <2>1, <2>5 DEF IInv, TypeOK, ControlInv, LogInv, LossBound,
       StrictlyAscending, CompleteRun, ResumePoint
<1>6. CASE EmitFinal
  <2>1. /\ completed = run.steps /\ last # completed /\ run.final /\ run.every > 0
        /\ LoggedSteps = {k \in 0..completed : Due(k)}
        /\ result = "running" /\ pc = "final"
    BY <1>6 DEF EmitFinal, IInv, ControlInv, CoverageInv
  <2>2. \A i \in 1..Len(log) : log[i].step < completed
    <3>1. TAKE i \in 1..Len(log)
    <3>2. log[i] \in Events /\ log[Len(log)] \in Events /\ Len(log) \in 1..Len(log)
      BY <1>0
    <3>3. log[i].step \in Nat /\ log[Len(log)].step \in Nat
      BY <3>2 DEF Events
    <3>4. last = log[Len(log)].step /\ log[Len(log)].step <= completed
      BY <1>0, <2>1, <3>2 DEF IInv, LogInv
    <3>5. i = Len(log) \/ log[i].step < log[Len(log)].step
      BY <1>0, <3>2 DEF IInv, StrictlyAscending
    <3> QED
      BY <1>0, <2>1, <3>3, <3>4, <3>5
  <2>3. /\ TypeOK' /\ LogInv' /\ LossBound' /\ StrictlyAscending'
        /\ \/ pc' = "idle" /\ result' = "err"
           \/ /\ pc' = "return" /\ last' = completed /\ UNCHANGED <<run, completed, result>>
              /\ LoggedSteps' = LoggedSteps \cup {completed}
    BY <1>6, <2>1, <2>2, EmitInv DEF EmitFinal, Reasons
  <2>4. CASE pc' = "idle" /\ result' = "err"
    BY <2>3, <2>4 DEF IInv, ControlInv, CoverageInv, CompleteRun
  <2>5. CASE /\ pc' = "return" /\ last' = completed /\ UNCHANGED <<run, completed, result>>
             /\ LoggedSteps' = LoggedSteps \cup {completed}
    <3>1. LoggedSteps' = ExpectedSteps(run')
      BY <1>0, <2>1, <2>5 DEF Due, ExpectedSteps
    <3> QED
      BY <1>0, <2>1, <2>3, <2>5, <3>1
         DEF IInv, ControlInv, CoverageInv, CompleteRun, ExpectedSteps
  <2> QED
    BY <2>3, <2>4, <2>5
<1>7. CASE Return
  BY <1>0, <1>7 DEF Return, IInv, TypeOK, ControlInv, LogInv, CoverageInv, LossBound,
     StrictlyAscending, CompleteRun, ResumePoint, LoggedSteps, ExpectedSteps
<1>8. CASE UNCHANGED vars
  BY <1>8 DEF vars, IInv, TypeOK, ControlInv, LogInv, CoverageInv, LossBound, Due,
     StrictlyAscending, CompleteRun, ResumePoint, LoggedSteps, ExpectedSteps
<1> QED
  BY <1>1, <1>2, <1>3, <1>4, <1>5, <1>6, <1>7, <1>8 DEF Next

(* CheckpointCadence keeps its inductive invariant in every run.           *)
THEOREM CadenceInvariant == Spec => []IInv
  BY InitInv, NextInv, PTL DEF Spec

(* The types of tick_many_with_checkpoint_sink's state, with no step       *)
(* beyond the requested ones, for every cadence and every step count.      *)
THEOREM TypeCorrect == Spec => []TypeOK
  BY CadenceInvariant, PTL DEF IInv

(* However a run ends, it has lost at most every_steps cycles since the    *)
(* last checkpoint the sink accepted, for every cadence.                   *)
THEOREM LossBounded == Spec => []LossBound
  BY CadenceInvariant, PTL DEF IInv

(* A run that returns Ok emitted exactly the checkpoints of its cadence.   *)
THEOREM CadenceExact == Spec => []CompleteRun
  BY CadenceInvariant, PTL DEF IInv

(* The sink never sees two checkpoints of the same step.                   *)
THEOREM SinkAscending == Spec => []StrictlyAscending
  BY CadenceInvariant, PTL DEF IInv

-----------------------------------------------------------------------------
(***************************************************************************)
(* The supervisor never loses a process or a checkpoint.  SupervisorInv    *)
(* says where every process handle is in each phase, that no handle is in  *)
(* two places, and what the shards behind the handles have executed; the   *)
(* properties are its parts, or what one step from it may do.              *)
(***************************************************************************)

(* The phases in which there is a runtime, and the ones in which a process *)
(* set is being spawned.                                                   *)
Active == {"idle", "run", "emit", "close", "respawn", "reap", "recheck"}
Building == {"spawn", "respawn"}
Phases == Active \cup {"down", "spawn", "dropped"}

(* A checkpoint or event, if there is one, has the cycles of all workers.  *)
IsEvent(e) == e.taken \in BOOLEAN /\ (e.taken => e.cycles \in [Workers -> Nat])
IsCheckpoint(c) == IsEvent(c) /\ (c.taken => c.dirty \in BOOLEAN)

(* Process handles of the workers, None or processes spawned before.       *)
IsProcessSet(h) == h \in [Workers -> Nat] /\ \A w \in Workers : h[w] <= spawned

ControlTypes ==
    /\ phase \in Phases
    /\ spawned \in 0..MaxPid
    /\ left \in Int
    /\ dirty \in BOOLEAN
    /\ crashes \in Nat

ProcessTypes ==
    /\ \A p \in running : p \in Pids
    /\ cycles \in [Pids -> Nat]
    /\ IsProcessSet(processes)
    /\ IsProcessSet(engines)
    /\ IsProcessSet(fresh)

CheckpointTypes ==
    /\ IsCheckpoint(latest)
    /\ IsCheckpoint(pending)
    /\ IsEvent(event)

(* No two workers share a process.                                         *)
Apart(h) == \A v, w \in Workers : v # w /\ h[v] # None => h[v] # h[w]

(* Every running process is in a set the supervisor will end, and a set    *)
(* being spawned or replaced is not the one the runtime is on.             *)
HandlesKept ==
    /\ \A p \in running : p \in Handles(processes) \cup Handles(fresh) \cup stray
    /\ phase \in Building \cup {"reap"} \/ fresh = NoProcess
    /\ phase \in {"down", "spawn"} => processes = NoProcess
    /\ phase \in Building => Apart(fresh)
    /\ \A v, w \in Workers : fresh[v] # None => fresh[v] # processes[w]

(* The runtime is on the supervisor's processes, one for each worker.      *)
RuntimeConnected ==
    phase \in Active =>
        /\ engines = processes
        /\ Apart(engines)
        /\ \A w \in Workers : engines[w] # None

(* A checkpoint taken of a runtime without failures is of one cycle.       *)
OneCycle(c) == (c.taken /\ ~c.dirty) => \A v, w \in Workers : c.cycles[v] = c.cycles[w]

(* What the processes have executed: nothing where nobody was told to yet, *)
(* the same everywhere where nothing has failed, and what the checkpoint   *)
(* holds right after a recovery.                                           *)
ShardsKept ==
    /\ \A p \in Pids : p > spawned => cycles[p] = 0
    /\ phase = "spawn" => \A w \in Workers : fresh[w] # None => cycles[fresh[w]] = 0
    /\ (phase \in Active /\ ~dirty) =>
           \A v, w \in Workers : cycles[engines[v]] = cycles[engines[w]]
    /\ phase \in {"reap", "recheck"} =>
           \A w \in Workers : cycles[engines[w]] = latest.cycles[w]

CheckpointsKept ==
    /\ phase \in {"respawn", "reap", "recheck"} => latest.taken
    /\ OneCycle(latest)
    /\ OneCycle(pending)
    /\ EventDescribesLatest

SupervisorInv ==
    /\ ControlTypes
    /\ ProcessTypes
    /\ CheckpointTypes
    /\ HandlesKept
    /\ RuntimeConnected
    /\ ShardsKept
    /\ CheckpointsKept

(* The processes a handle vector names.                                    *)
LEMMA HandlesHold ==
    ASSUME NEW h, NEW p
    PROVE  p \in Handles(h) <=> p # None /\ \E w \in Workers : h[w] = p
BY DEF Handles

(* What a checkpoint of the running runtime holds.                         *)
LEMMA SnapshotHolds ==
    ASSUME SupervisorInv, phase \in Active
    PROVE  /\ IsCheckpoint(Snapshot)
           /\ OneCycle(Snapshot)
           /\ Snapshot.taken
           /\ Snapshot.cycles = [w \in Workers |-> cycles[engines[w]]]
<1>1. \A w \in Workers : engines[w] \in Pids
    BY SupervisorAssumption DEF SupervisorInv, ControlTypes, ProcessTypes, IsProcessSet,
                                RuntimeConnected, Pids, None
<1>2. [w \in Workers |-> cycles[engines[w]]] \in [Workers -> Nat]
    BY <1>1 DEF SupervisorInv, ProcessTypes
<1>3. /\ Snapshot.taken = TRUE
      /\ Snapshot.dirty = dirty
      /\ Snapshot.cycles = [w \in Workers |-> cycles[engines[w]]]
    BY DEF Snapshot
<1>4. IsCheckpoint(Snapshot)
    BY <1>2, <1>3 DEF IsCheckpoint, IsEvent, SupervisorInv, ControlTypes
<1>5. OneCycle(Snapshot)
    BY <1>3 DEF OneCycle, SupervisorInv, ShardsKept
<1> QED BY <1>3, <1>4, <1>5

(* Right after a recovery every shard is where the checkpoint has it.      *)
LEMMA RestoredCycles ==
    ASSUME SupervisorInv, RestoreFresh, phase' = "reap"
    PROVE  /\ cycles' \in [Pids -> Nat]
           /\ \A w \in Workers : fresh[w] \in Pids /\ cycles'[fresh[w]] = latest.cycles[w]
           /\ \A p \in Pids : p > spawned => cycles'[p] = 0
<1>1. /\ cycles' = [p \in Pids |-> IF \E w \in Workers : fresh[w] = p
                                   THEN latest.cycles[CHOOSE w \in Workers : fresh[w] = p]
                                   ELSE cycles[p]]
      /\ latest.cycles \in [Workers -> Nat]
    BY DEF SupervisorInv, RestoreFresh, CheckpointsKept, CheckpointTypes, IsCheckpoint, IsEvent
<1>2. \A w \in Workers : fresh[w] \in Pids /\ fresh[w] <= spawned
    BY SupervisorAssumption DEF RestoreFresh, AllSpawned, SupervisorInv, ControlTypes,
                                ProcessTypes, IsProcessSet,
                                Pids, None
<1>3. cycles' \in [Pids -> Nat]
    <2> SUFFICES ASSUME NEW p \in Pids, \E w \in Workers : fresh[w] = p
                 PROVE  latest.cycles[CHOOSE w \in Workers : fresh[w] = p] \in Nat
        BY <1>1 DEF SupervisorInv, ProcessTypes
    <2> QED BY <1>1
<1>4. \A w \in Workers : cycles'[fresh[w]] = latest.cycles[w]
    <2> TAKE w \in Workers
    <2>1. (CHOOSE v \in Workers : fresh[v] = fresh[w]) = w
        BY <1>2 DEF RestoreFresh, SupervisorInv, HandlesKept, Apart, Building, AllSpawned
    <2> QED BY <1>1, <1>2, <2>1
<1>5. \A p \in Pids : p > spawned => cycles'[p] = 0
    <2> SUFFICES ASSUME NEW p \in Pids, p > spawned
                 PROVE  cycles'[p] = 0
        OBVIOUS
    <2>1. ~ \E w \in Workers : fresh[w] = p
        BY <1>2, SupervisorAssumption DEF SupervisorInv, ControlTypes, ProcessTypes, IsProcessSet, Pids
    <2> QED BY <1>1, <2>1 DEF SupervisorInv, ShardsKept
<1> QED BY <1>2, <1>3, <1>4, <1>5

(* A process dies: only running shrinks.                                   *)
LEMMA CrashKeeps ==
    ASSUME SupervisorInv, NEW p \in Pids, Crash(p)
    PROVE  SupervisorInv'
<1>1. ControlTypes'
    BY DEF SupervisorInv, Crash, ControlTypes
<1>2. ProcessTypes'
    BY DEF SupervisorInv, Crash, ProcessTypes, IsProcessSet
<1>3. CheckpointTypes'
    BY DEF SupervisorInv, Crash, CheckpointTypes
<1>4. HandlesKept'
    BY DEF SupervisorInv, Crash, HandlesKept
<1>5. RuntimeConnected'
    BY DEF SupervisorInv, Crash, RuntimeConnected
<1>6. ShardsKept'
    BY DEF SupervisorInv, Crash, ShardsKept
<1>7. CheckpointsKept'
    BY DEF SupervisorInv, Crash, CheckpointsKept, EventDescribesLatest
<1> QED BY <1>1, <1>2, <1>3, <1>4, <1>5, <1>6, <1>7 DEF SupervisorInv

(* spawn starts from an empty process set.                                 *)
LEMMA SpawnKeeps ==
    ASSUME SupervisorInv, Spawn
    PROVE  SupervisorInv'
<1>1. ControlTypes'
    BY DEF SupervisorInv, Spawn, ControlTypes, Phases
<1>2. ProcessTypes'
    BY DEF SupervisorInv, Spawn, ProcessTypes, IsProcessSet
<1>3. CheckpointTypes'
    BY DEF SupervisorInv, Spawn, CheckpointTypes
<1>4. HandlesKept'
    BY DEF SupervisorInv, Spawn, HandlesKept, Building, Apart
<1>5. RuntimeConnected'
    BY DEF SupervisorInv, Spawn, RuntimeConnected, Active
<1>6. ShardsKept'
    BY DEF SupervisorInv, Spawn, HandlesKept, ShardsKept, Active, Building
<1>7. CheckpointsKept'
    BY DEF SupervisorInv, Spawn, CheckpointsKept, EventDescribesLatest
<1> QED BY <1>1, <1>2, <1>3, <1>4, <1>5, <1>6, <1>7 DEF SupervisorInv

(* spawn connects a runtime to the complete set, or abandons the set.      *)
LEMMA ConstructKeeps ==
    ASSUME SupervisorInv, Construct
    PROVE  SupervisorInv'
<1>1. ControlTypes'
    BY DEF SupervisorInv, Construct, Abandoned, ControlTypes, Phases, Active
<1>2. ProcessTypes'
    BY DEF SupervisorInv, Construct, ControlTypes, ProcessTypes, IsProcessSet, NoProcess, None
<1>3. CheckpointTypes'
    BY DEF SupervisorInv, Construct, CheckpointTypes
<1>4. HandlesKept'
    BY DEF SupervisorInv, Construct, HandlesKept, NoProcess, Apart
<1>5. RuntimeConnected'
    BY DEF SupervisorInv, Construct, AllSpawned, Abandoned, HandlesKept, RuntimeConnected, Active, Apart
<1>6. ShardsKept'
    BY DEF SupervisorInv, Construct, AllSpawned, Abandoned, RuntimeConnected, ShardsKept, Active
<1>7. CheckpointsKept'
    BY DEF SupervisorInv, Construct, Abandoned, CheckpointsKept, EventDescribesLatest
<1> QED BY <1>1, <1>2, <1>3, <1>4, <1>5, <1>6, <1>7 DEF SupervisorInv

(* A new process is one no handle has named before.                        *)
LEMMA SpawnProcessKeeps ==
    ASSUME SupervisorInv, NEW w \in Workers, SpawnProcess(w)
    PROVE  SupervisorInv'
<1>1. ControlTypes'
    BY SupervisorAssumption DEF SupervisorInv, SpawnProcess, ControlTypes
<1>2. ProcessTypes'
    BY SupervisorAssumption DEF SupervisorInv, SpawnProcess, ControlTypes, ProcessTypes,
                                IsProcessSet, Pids
<1>3. CheckpointTypes'
    BY DEF SupervisorInv, SpawnProcess, CheckpointTypes
<1>4. HandlesKept'
    <2>1. /\ spawned' = spawned + 1 /\ spawned' \in Nat \ {0}
          /\ \A v \in Workers : fresh[v] # spawned' /\ processes[v] # spawned'
        BY SupervisorAssumption DEF SupervisorInv, SpawnProcess, ControlTypes, ProcessTypes,
                                    IsProcessSet, Pids
    <2>2. \A v \in Workers : fresh'[v] = IF v = w THEN spawned' ELSE fresh[v]
        BY DEF SupervisorInv, SpawnProcess, ProcessTypes, IsProcessSet
    <2>3. fresh[w] = None
        BY DEF SpawnProcess, Spawning
    <2>4. \A p \in running' : p \in Handles(processes') \cup Handles(fresh') \cup stray'
        <3> SUFFICES ASSUME NEW p \in running'
                     PROVE  p \in Handles(processes') \cup Handles(fresh') \cup stray'
            OBVIOUS
        <3>1. CASE p = spawned'
            BY <3>1, <2>1, <2>2, HandlesHold DEF None
        <3>2. CASE p # spawned'
            <4>1. p \in Handles(processes) \cup Handles(fresh) \cup stray
                BY <3>2 DEF SupervisorInv, HandlesKept, SpawnProcess
            <4>2. p \in Handles(fresh) => p \in Handles(fresh')
                BY <2>2, <2>3, HandlesHold
            <4> QED BY <4>1, <4>2 DEF SpawnProcess
        <3> QED BY <3>1, <3>2
    <2>5. Apart(fresh)'
        BY <2>1, <2>2, <2>3 DEF SupervisorInv, HandlesKept, Apart, SpawnProcess, Spawning, Building
    <2>6. \A u, v \in Workers : fresh'[u] # None => fresh'[u] # processes'[v]
        BY <2>1, <2>2 DEF SupervisorInv, HandlesKept, SpawnProcess
    <2> QED BY <2>4, <2>5, <2>6 DEF SupervisorInv, HandlesKept, SpawnProcess, Spawning, Building
<1>5. RuntimeConnected'
    BY DEF SupervisorInv, SpawnProcess, RuntimeConnected
<1>6. ShardsKept'
    BY SupervisorAssumption DEF SupervisorInv, SpawnProcess, ShardsKept, ControlTypes, Pids
<1>7. CheckpointsKept'
    BY DEF SupervisorInv, SpawnProcess, CheckpointsKept, EventDescribesLatest
<1> QED BY <1>1, <1>2, <1>3, <1>4, <1>5, <1>6, <1>7 DEF SupervisorInv

(* A failed spawn ends the set it was adding to, and nothing else.         *)
LEMMA SpawnFailsKeeps ==
    ASSUME SupervisorInv, NEW w \in Workers, SpawnFails(w)
    PROVE  SupervisorInv'
<1>1. ControlTypes'
    BY SupervisorAssumption DEF SupervisorInv, SpawnFails, Abandoned, ControlTypes, Phases, Active
<1>2. ProcessTypes'
    BY DEF SupervisorInv, SpawnFails, ControlTypes, ProcessTypes, IsProcessSet, NoProcess, None
<1>3. CheckpointTypes'
    BY DEF SupervisorInv, SpawnFails, CheckpointTypes
<1>4. HandlesKept'
    BY DEF SupervisorInv, SpawnFails, Abandoned, HandlesKept, NoProcess, Apart
<1>5. RuntimeConnected'
    BY DEF SupervisorInv, SpawnFails, Spawning, Abandoned, RuntimeConnected, Active
<1>6. ShardsKept'
    BY DEF SupervisorInv, SpawnFails, Spawning, Abandoned, ShardsKept, Active, NoProcess,
           ControlTypes, Pids
<1>7. CheckpointsKept'
    BY DEF SupervisorInv, SpawnFails, Abandoned, CheckpointsKept, EventDescribesLatest
<1> QED BY <1>1, <1>2, <1>3, <1>4, <1>5, <1>6, <1>7 DEF SupervisorInv

(* A process without a valid startup line is the only one left unowned.    *)
LEMMA SpawnMisreportsKeeps ==
    ASSUME SupervisorInv, NEW w \in Workers, SpawnMisreports(w)
    PROVE  SupervisorInv'
<1>1. ControlTypes'
    BY SupervisorAssumption DEF SupervisorInv, SpawnMisreports, Abandoned, ControlTypes, Phases, Active
<1>2. ProcessTypes'
    BY SMTT(30), SupervisorAssumption DEF SupervisorInv, SpawnMisreports, ControlTypes, ProcessTypes,
                                IsProcessSet, NoProcess, Pids, None
<1>3. CheckpointTypes'
    BY DEF SupervisorInv, SpawnMisreports, CheckpointTypes
<1>4. HandlesKept'
    BY DEF SupervisorInv, SpawnMisreports, Abandoned, HandlesKept, NoProcess, Apart
<1>5. RuntimeConnected'
    BY DEF SupervisorInv, SpawnMisreports, Spawning, Abandoned, RuntimeConnected, Active
<1>6. ShardsKept'
    BY DEF SupervisorInv, SpawnMisreports, Spawning, Abandoned, ShardsKept, Active, ControlTypes, Pids
<1>7. CheckpointsKept'
    BY DEF SupervisorInv, SpawnMisreports, Abandoned, CheckpointsKept, EventDescribesLatest
<1> QED BY <1>1, <1>2, <1>3, <1>4, <1>5, <1>6, <1>7 DEF SupervisorInv

(* checkpoint captures the running runtime.                                *)
LEMMA CheckpointKeeps ==
    ASSUME SupervisorInv, Checkpoint
    PROVE  SupervisorInv'
<1>1. ControlTypes'
    BY DEF SupervisorInv, Checkpoint, ControlTypes
<1>2. ProcessTypes'
    BY DEF SupervisorInv, Checkpoint, ProcessTypes, IsProcessSet
<1>3. CheckpointTypes'
    <2>1. IsEvent(NoEvent)
        BY DEF IsEvent, NoEvent
    <2>2. IsCheckpoint(latest)' /\ IsEvent(event)'
        BY <2>1, SnapshotHolds DEF SupervisorInv, Checkpoint, CheckpointTypes, Active
    <2> QED BY <2>2 DEF SupervisorInv, Checkpoint, CheckpointTypes
<1>4. HandlesKept'
    BY DEF SupervisorInv, Checkpoint, HandlesKept
<1>5. RuntimeConnected'
    BY DEF SupervisorInv, Checkpoint, RuntimeConnected
<1>6. ShardsKept'
    BY DEF SupervisorInv, Checkpoint, ShardsKept
<1>7. CheckpointsKept'
    BY SnapshotHolds DEF SupervisorInv, Checkpoint, CheckpointsKept, EventDescribesLatest, NoEvent,
                         Active, OneCycle
<1> QED BY <1>1, <1>2, <1>3, <1>4, <1>5, <1>6, <1>7 DEF SupervisorInv

(* A checkpointed run starts without touching the processes.               *)
LEMMA StartRunKeeps ==
    ASSUME SupervisorInv, NEW n \in 0..MaxCycles, StartRun(n)
    PROVE  SupervisorInv'
<1>1. ControlTypes'
    BY DEF SupervisorInv, StartRun, ControlTypes, Phases, Active
<1>2. ProcessTypes'
    BY DEF SupervisorInv, StartRun, ProcessTypes, IsProcessSet
<1>3. CheckpointTypes'
    BY DEF SupervisorInv, StartRun, CheckpointTypes, IsCheckpoint, IsEvent, NoCheckpoint
<1>4. HandlesKept'
    BY DEF SupervisorInv, StartRun, HandlesKept, Building
<1>5. RuntimeConnected'
    BY DEF SupervisorInv, StartRun, RuntimeConnected, Active
<1>6. ShardsKept'
    BY DEF SupervisorInv, StartRun, ShardsKept, Active
<1>7. CheckpointsKept'
    BY DEF SupervisorInv, StartRun, CheckpointsKept, OneCycle, EventDescribesLatest, NoCheckpoint
<1> QED BY <1>1, <1>2, <1>3, <1>4, <1>5, <1>6, <1>7 DEF SupervisorInv

(* A chunk is executed by every shard, or leaves the runtime dirty.        *)
LEMMA RunTickKeeps ==
    ASSUME SupervisorInv, RunTick
    PROVE  SupervisorInv'
<1>1. ControlTypes'
    <2>1. phase' \in {"emit", "close"}
        BY DEF RunTick
    <2>2. left' = left - 1 \/ left' = left
        BY DEF RunTick
    <2>3. dirty' = dirty \/ dirty' = TRUE
        BY DEF RunTick
    <2>4. left' \in Int
        BY <2>2 DEF SupervisorInv, ControlTypes
    <2>5. dirty' \in BOOLEAN
        BY <2>3, Zenon DEF SupervisorInv, ControlTypes
    <2> QED BY <2>1, <2>4, <2>5 DEF RunTick, SupervisorInv, ControlTypes, Phases, Active
<1>2. ProcessTypes'
    <2>1. PICK S \in SUBSET Workers : Advance(S)
        BY DEF RunTick
    <2>2. cycles' \in [Pids -> Nat]
        BY <2>1 DEF Advance, SupervisorInv, ProcessTypes
    <2> QED BY <2>2 DEF RunTick, SupervisorInv, ProcessTypes, IsProcessSet
<1>3. CheckpointTypes'
    BY DEF SupervisorInv, RunTick, CheckpointTypes
<1>4. HandlesKept'
    BY DEF SupervisorInv, RunTick, HandlesKept, Building
<1>5. RuntimeConnected'
    BY DEF SupervisorInv, RunTick, RuntimeConnected, Active
<1>6. ShardsKept'
    <2>1. PICK S \in SUBSET Workers : Advance(S) /\ (dirty' \/ S = Workers)
        BY DEF RunTick
    <2>2. \A w \in Workers : engines[w] \in Pids /\ engines[w] <= spawned
        BY SupervisorAssumption DEF RunTick, SupervisorInv, ControlTypes, ProcessTypes, IsProcessSet,
                                    RuntimeConnected, Active, Pids, None
    <2>3. \A p \in Pids : p > spawned' => cycles'[p] = 0
        <3> SUFFICES ASSUME NEW p \in Pids, p > spawned
                     PROVE  cycles'[p] = 0
            BY DEF RunTick
        <3>1. ~ \E w \in S : engines[w] = p
            BY <2>2, SupervisorAssumption DEF SupervisorInv, ControlTypes, ProcessTypes,
                                              IsProcessSet, Pids
        <3> QED BY <3>1, <2>1 DEF Advance, SupervisorInv, ShardsKept
    <2>4. ~dirty' => \A v, w \in Workers : cycles'[engines'[v]] = cycles'[engines'[w]]
        <3> SUFFICES ASSUME ~dirty', NEW v \in Workers, NEW w \in Workers
                     PROVE  cycles'[engines[v]] = cycles'[engines[w]]
            BY DEF RunTick
        <3>1. cycles'[engines[v]] = cycles[engines[v]] + 1 /\ cycles'[engines[w]] = cycles[engines[w]] + 1
            BY <2>1, <2>2 DEF Advance
        <3>2. ~dirty
            BY DEF RunTick
        <3> QED BY <3>1, <3>2 DEF SupervisorInv, ShardsKept, RunTick, Active
    <2>5. phase' \in {"emit", "close"}
        BY DEF RunTick
    <2> QED BY <2>3, <2>4, <2>5 DEF ShardsKept
<1>7. CheckpointsKept'
    BY DEF SupervisorInv, RunTick, CheckpointsKept, EventDescribesLatest
<1> QED BY <1>1, <1>2, <1>3, <1>4, <1>5, <1>6, <1>7 DEF SupervisorInv

(* A checkpoint taken during a run waits in pending.                       *)
LEMMA RunEmitKeeps ==
    ASSUME SupervisorInv, RunEmit
    PROVE  SupervisorInv'
<1>1. ControlTypes'
    BY DEF SupervisorInv, RunEmit, ControlTypes, Phases, Active
<1>2. ProcessTypes'
    BY DEF SupervisorInv, RunEmit, ProcessTypes, IsProcessSet
<1>3. CheckpointTypes'
    BY SnapshotHolds DEF SupervisorInv, RunEmit, CheckpointTypes, IsCheckpoint, IsEvent,
                         NoCheckpoint, NoEvent, Active
<1>4. HandlesKept'
    BY DEF SupervisorInv, RunEmit, HandlesKept, Building
<1>5. RuntimeConnected'
    BY DEF SupervisorInv, RunEmit, RuntimeConnected, Active
<1>6. ShardsKept'
    BY DEF SupervisorInv, RunEmit, ShardsKept, Active
<1>7. CheckpointsKept'
    BY HandlesHold DEF SupervisorInv, RunEmit, Snapshot, HandlesKept, ShardsKept, CheckpointsKept,
                       CheckpointTypes, Active, OneCycle, EventDescribesLatest, ControlTypes
<1> QED BY <1>1, <1>2, <1>3, <1>4, <1>5, <1>6, <1>7 DEF SupervisorInv

(* The pending checkpoint becomes the latest one when the run ends.        *)
LEMMA EndRunKeeps ==
    ASSUME SupervisorInv, EndRun
    PROVE  SupervisorInv'
<1>1. ControlTypes'
    BY DEF SupervisorInv, EndRun, ControlTypes, Phases, Active
<1>2. ProcessTypes'
    BY DEF SupervisorInv, EndRun, ProcessTypes, IsProcessSet
<1>3. CheckpointTypes'
    <2>1. CASE pending.taken
        <3>1. latest' = pending /\ event' = [taken |-> TRUE, cycles |-> pending.cycles] /\ pending' = NoCheckpoint
            BY <2>1 DEF EndRun
        <3>2. event'.taken = TRUE /\ event'.cycles = pending.cycles
            BY <3>1
        <3>3. IsEvent(event)'
            BY <2>1, <3>2 DEF SupervisorInv, CheckpointTypes, IsCheckpoint, IsEvent
        <3>4. IsCheckpoint(pending)' /\ IsCheckpoint(latest)'
            BY <3>1 DEF SupervisorInv, CheckpointTypes, IsCheckpoint, IsEvent, NoCheckpoint
        <3> QED BY <3>3, <3>4 DEF CheckpointTypes
    <2>2. CASE ~pending.taken
        BY <2>2 DEF EndRun, SupervisorInv, CheckpointTypes, IsCheckpoint, IsEvent, NoCheckpoint
    <2> QED BY <2>1, <2>2
<1>4. HandlesKept'
    BY DEF SupervisorInv, EndRun, HandlesKept, Building
<1>5. RuntimeConnected'
    BY DEF SupervisorInv, EndRun, RuntimeConnected, Active
<1>6. ShardsKept'
    BY DEF SupervisorInv, EndRun, ShardsKept, Active
<1>7. CheckpointsKept'
    BY DEF SupervisorInv, EndRun, CheckpointsKept, OneCycle, EventDescribesLatest, NoCheckpoint
<1> QED BY <1>1, <1>2, <1>3, <1>4, <1>5, <1>6, <1>7 DEF SupervisorInv

(* A recovery begins beside the process set it will replace.               *)
LEMMA StartRecoveryKeeps ==
    ASSUME SupervisorInv, StartRecovery
    PROVE  SupervisorInv'
<1>1. ControlTypes'
    BY DEF SupervisorInv, StartRecovery, ControlTypes, Phases, Active
<1>2. ProcessTypes'
    BY DEF SupervisorInv, StartRecovery, ProcessTypes, IsProcessSet
<1>3. CheckpointTypes'
    BY DEF SupervisorInv, StartRecovery, CheckpointTypes
<1>4. HandlesKept'
    BY DEF SupervisorInv, StartRecovery, HandlesKept, Building, NoProcess, Apart
<1>5. RuntimeConnected'
    BY DEF SupervisorInv, StartRecovery, RuntimeConnected, Active
<1>6. ShardsKept'
    BY DEF SupervisorInv, StartRecovery, ShardsKept, Active
<1>7. CheckpointsKept'
    BY DEF SupervisorInv, StartRecovery, CheckpointsKept, EventDescribesLatest
<1> QED BY <1>1, <1>2, <1>3, <1>4, <1>5, <1>6, <1>7 DEF SupervisorInv

(* The new set takes the old one's place once it is restored.              *)
LEMMA RestoreFreshKeeps ==
    ASSUME SupervisorInv, RestoreFresh
    PROVE  SupervisorInv'
<1>1. ControlTypes'
    BY DEF SupervisorInv, RestoreFresh, ControlTypes, CheckpointTypes, IsCheckpoint,
           CheckpointsKept, Phases, Active
<1>2. ProcessTypes'
    <2>1. cycles' \in [Pids -> Nat]
        BY RestoredCycles DEF RestoreFresh, SupervisorInv, ProcessTypes
    <2> QED BY <2>1 DEF SupervisorInv, RestoreFresh, ProcessTypes, IsProcessSet, NoProcess, None, ControlTypes
<1>3. CheckpointTypes'
    BY DEF SupervisorInv, RestoreFresh, CheckpointTypes
<1>4. HandlesKept'
    BY DEF SupervisorInv, RestoreFresh, HandlesKept, NoProcess, Apart, RuntimeConnected, Active
<1>5. RuntimeConnected'
    BY DEF SupervisorInv, RestoreFresh, AllSpawned, HandlesKept, RuntimeConnected, Active, Building
<1>6. ShardsKept'
    <2>1. CASE phase' = "reap"
        <3>1. engines' = fresh /\ dirty' = latest.dirty /\ UNCHANGED <<latest, spawned>>
            BY <2>1 DEF RestoreFresh
        <3>2. ~latest.dirty => \A v, w \in Workers : latest.cycles[v] = latest.cycles[w]
            BY DEF SupervisorInv, CheckpointsKept, OneCycle, RestoreFresh
        <3> QED BY <2>1, <3>1, <3>2, RestoredCycles DEF ShardsKept
    <2>2. CASE phase' # "reap"
        BY <2>2 DEF RestoreFresh, SupervisorInv, ShardsKept, Active
    <2> QED BY <2>1, <2>2
<1>7. CheckpointsKept'
    BY DEF SupervisorInv, RestoreFresh, CheckpointsKept, EventDescribesLatest
<1> QED BY <1>1, <1>2, <1>3, <1>4, <1>5, <1>6, <1>7 DEF SupervisorInv

(* The replaced set is ended after the exchange.                           *)
LEMMA ReapOldKeeps ==
    ASSUME SupervisorInv, ReapOld
    PROVE  SupervisorInv'
<1>1. ControlTypes'
    BY DEF SupervisorInv, ReapOld, ControlTypes, Phases, Active
<1>2. ProcessTypes'
    BY DEF SupervisorInv, ReapOld, ControlTypes, ProcessTypes, IsProcessSet, NoProcess, None
<1>3. CheckpointTypes'
    BY DEF SupervisorInv, ReapOld, CheckpointTypes
<1>4. HandlesKept'
    BY DEF SupervisorInv, ReapOld, HandlesKept, NoProcess, Apart
<1>5. RuntimeConnected'
    BY DEF SupervisorInv, ReapOld, RuntimeConnected, Active
<1>6. ShardsKept'
    BY DEF SupervisorInv, ReapOld, ShardsKept, Active
<1>7. CheckpointsKept'
    BY DEF SupervisorInv, ReapOld, CheckpointsKept, EventDescribesLatest
<1> QED BY <1>1, <1>2, <1>3, <1>4, <1>5, <1>6, <1>7 DEF SupervisorInv

(* The checkpoint after a recovery holds what the one before it held.      *)
LEMMA RecheckpointKeeps ==
    ASSUME SupervisorInv, Recheckpoint
    PROVE  SupervisorInv'
<1>1. ControlTypes'
    BY DEF SupervisorInv, Recheckpoint, ControlTypes, Phases, Active
<1>2. ProcessTypes'
    BY DEF SupervisorInv, Recheckpoint, ControlTypes, ProcessTypes, IsProcessSet, NoProcess, None
<1>3. CheckpointTypes'
    BY SnapshotHolds DEF SupervisorInv, Recheckpoint, CheckpointTypes, IsCheckpoint, IsEvent,
                         NoCheckpoint, NoEvent, Active
<1>4. HandlesKept'
    BY DEF SupervisorInv, Recheckpoint, HandlesKept, Building
<1>5. RuntimeConnected'
    BY DEF SupervisorInv, Recheckpoint, RuntimeConnected, Active
<1>6. ShardsKept'
    BY DEF SupervisorInv, Recheckpoint, ShardsKept, Active
<1>7. CheckpointsKept'
    <2>1. /\ OneCycle(latest)' /\ OneCycle(pending)'
          /\ latest'.taken
        BY SnapshotHolds DEF SupervisorInv, Recheckpoint, CheckpointsKept, Active, OneCycle
    <2>2. latest'.cycles = latest.cycles
        <3>1. latest.cycles = [w \in Workers |-> latest.cycles[w]]
            BY DEF SupervisorInv, Recheckpoint, CheckpointsKept, CheckpointTypes, IsCheckpoint, IsEvent
        <3>2. [w \in Workers |-> latest.cycles[w]] = [w \in Workers |-> cycles[engines[w]]]
            BY DEF SupervisorInv, Recheckpoint, ShardsKept
        <3> QED BY <3>1, <3>2, SnapshotHolds DEF Recheckpoint, Active
    <2>3. EventDescribesLatest'
        BY <2>1, <2>2 DEF SupervisorInv, Recheckpoint, CheckpointsKept, EventDescribesLatest
    <2> QED BY <2>1, <2>3 DEF CheckpointsKept, Recheckpoint
<1> QED BY <1>1, <1>2, <1>3, <1>4, <1>5, <1>6, <1>7 DEF SupervisorInv

(* shutdown ends processes and keeps the handles.                          *)
LEMMA ShutdownKeeps ==
    ASSUME SupervisorInv, Shutdown
    PROVE  SupervisorInv'
<1>1. ControlTypes'
    BY DEF SupervisorInv, Shutdown, ControlTypes
<1>2. ProcessTypes'
    BY DEF SupervisorInv, Shutdown, ProcessTypes, IsProcessSet
<1>3. CheckpointTypes'
    BY DEF SupervisorInv, Shutdown, CheckpointTypes
<1>4. HandlesKept'
    BY DEF SupervisorInv, Shutdown, HandlesKept
<1>5. RuntimeConnected'
    BY DEF SupervisorInv, Shutdown, RuntimeConnected
<1>6. ShardsKept'
    BY DEF SupervisorInv, Shutdown, ShardsKept
<1>7. CheckpointsKept'
    BY DEF SupervisorInv, Shutdown, CheckpointsKept, EventDescribesLatest
<1> QED BY <1>1, <1>2, <1>3, <1>4, <1>5, <1>6, <1>7 DEF SupervisorInv

(* drop ends every process.                                                *)
LEMMA DropKeeps ==
    ASSUME SupervisorInv, Drop
    PROVE  SupervisorInv'
<1>1. ControlTypes'
    BY DEF SupervisorInv, Drop, ControlTypes, Phases
<1>2. ProcessTypes'
    BY DEF SupervisorInv, Drop, ControlTypes, ProcessTypes, IsProcessSet, NoProcess, None
<1>3. CheckpointTypes'
    BY DEF SupervisorInv, Drop, CheckpointTypes
<1>4. HandlesKept'
    BY DEF SupervisorInv, Drop, HandlesKept, Building, NoProcess
<1>5. RuntimeConnected'
    BY DEF SupervisorInv, Drop, RuntimeConnected, Active
<1>6. ShardsKept'
    BY DEF SupervisorInv, Drop, ShardsKept, Active
<1>7. CheckpointsKept'
    BY DEF SupervisorInv, Drop, CheckpointsKept, EventDescribesLatest
<1> QED BY <1>1, <1>2, <1>3, <1>4, <1>5, <1>6, <1>7 DEF SupervisorInv

(* A step of another component keeps the invariant.                        *)
LEMMA SupervisorStutterKeeps ==
    ASSUME SupervisorInv, UNCHANGED supervisorVars
    PROVE  SupervisorInv'
<1>1. ControlTypes'
    BY DEF SupervisorInv, supervisorVars, ControlTypes
<1>2. ProcessTypes'
    BY DEF SupervisorInv, supervisorVars, ProcessTypes, IsProcessSet
<1>3. CheckpointTypes'
    BY DEF SupervisorInv, supervisorVars, CheckpointTypes
<1>4. HandlesKept'
    BY DEF SupervisorInv, supervisorVars, HandlesKept
<1>5. RuntimeConnected'
    BY DEF SupervisorInv, supervisorVars, RuntimeConnected
<1>6. ShardsKept'
    BY DEF SupervisorInv, supervisorVars, ShardsKept
<1>7. CheckpointsKept'
    BY DEF SupervisorInv, supervisorVars, CheckpointsKept, EventDescribesLatest
<1> QED BY <1>1, <1>2, <1>3, <1>4, <1>5, <1>6, <1>7 DEF SupervisorInv

(* Before the first spawn there is no process and no checkpoint.           *)
LEMMA SupervisorStarts == SupervisorInit => SupervisorInv
<1> SUFFICES ASSUME SupervisorInit
             PROVE  SupervisorInv
    OBVIOUS
<1>1. ControlTypes
    <2>1. dirty \in BOOLEAN
        BY Zenon DEF SupervisorInit
    <2>2. phase \in Phases /\ spawned \in 0..MaxPid /\ left \in Int /\ crashes \in Nat
        BY SupervisorAssumption DEF SupervisorInit, Phases, Active
    <2> QED BY <2>1, <2>2 DEF ControlTypes
<1>2. ProcessTypes
    BY SupervisorAssumption DEF SupervisorInit, ProcessTypes, IsProcessSet, NoProcess, None
<1>3. CheckpointTypes
    BY DEF SupervisorInit, CheckpointTypes, IsCheckpoint, IsEvent, NoCheckpoint, NoEvent
<1>4. HandlesKept
    BY DEF SupervisorInit, HandlesKept, Building, NoProcess
<1>5. RuntimeConnected
    BY DEF SupervisorInit, RuntimeConnected, Active
<1>6. ShardsKept
    BY SupervisorAssumption DEF SupervisorInit, ShardsKept, Active
<1>7. CheckpointsKept
    BY DEF SupervisorInit, CheckpointsKept, OneCycle, EventDescribesLatest, NoCheckpoint, NoEvent
<1> QED BY <1>1, <1>2, <1>3, <1>4, <1>5, <1>6, <1>7 DEF SupervisorInv

(* Every action of the supervisor keeps the invariant.                     *)
LEMMA SupervisorSteps == SupervisorInv /\ [SupervisorNext]_supervisorVars => SupervisorInv'
<1> SUFFICES ASSUME SupervisorInv, [SupervisorNext]_supervisorVars
             PROVE  SupervisorInv'
    OBVIOUS
<1>1. CASE \E p \in Pids : Crash(p)
    BY <1>1, CrashKeeps
<1>2. CASE \E w \in Workers : SpawnProcess(w) \/ SpawnFails(w) \/ SpawnMisreports(w)
    BY <1>2, SpawnProcessKeeps, SpawnFailsKeeps, SpawnMisreportsKeeps
<1>3. CASE Spawn \/ Construct \/ Shutdown \/ Drop
    BY <1>3, SpawnKeeps, ConstructKeeps, ShutdownKeeps, DropKeeps
<1>4. CASE \E n \in 0..MaxCycles : StartRun(n)
    BY <1>4, StartRunKeeps
<1>5. CASE Checkpoint \/ RunTick \/ RunEmit \/ EndRun
    BY <1>5, CheckpointKeeps, RunTickKeeps, RunEmitKeeps, EndRunKeeps
<1>6. CASE StartRecovery \/ RestoreFresh \/ ReapOld \/ Recheckpoint
    BY <1>6, StartRecoveryKeeps, RestoreFreshKeeps, ReapOldKeeps, RecheckpointKeeps
<1>7. CASE UNCHANGED supervisorVars
    BY <1>7, SupervisorStutterKeeps
<1> QED BY <1>1, <1>2, <1>3, <1>4, <1>5, <1>6, <1>7 DEF SupervisorNext

(* Where every process handle is, and what the shards behind the handles   *)
(* have executed, at every step of the supervisor.                         *)
THEOREM SupervisorInvariance == SupervisorSpec => []SupervisorInv
<1>1. SupervisorInit => SupervisorInv
    BY SupervisorStarts
<1>2. SupervisorInv /\ [SupervisorNext]_supervisorVars => SupervisorInv'
    BY SupervisorSteps
<1> QED BY <1>1, <1>2, PTL DEF SupervisorSpec

(* TcpRuntimeSupervisor::spawn, recover_from_latest_checkpoint, shutdown   *)
(* and drop: whatever fails, between calls no spawned process runs unowned *)
(* (save one whose startup line was no address), and the runtime is always *)
(* on the processes the supervisor would end.                              *)
THEOREM ProcessesStayOwned == SupervisorSpec => []ProcessesOwned
<1>1. SupervisorInv => NoLeakedProcess
    <2> SUFFICES ASSUME SupervisorInv, phase \in {"down", "idle", "dropped"}, NEW p \in running
                 PROVE  p \in Handles(processes) \cup stray
        BY DEF NoLeakedProcess
    <2>1. p \notin Handles(fresh)
        BY HandlesHold DEF SupervisorInv, HandlesKept, Building, NoProcess
    <2> QED BY <2>1 DEF SupervisorInv, HandlesKept
<1>2. SupervisorInv => RuntimeOnOwnProcesses
    BY DEF SupervisorInv, RuntimeConnected, RuntimeOnOwnProcesses, Active
<1>3. SupervisorInv => ProcessesOwned
    BY <1>1, <1>2 DEF ProcessesOwned
<1> QED BY <1>3, SupervisorInvariance, PTL

(* tick_many_with_checkpoints and checkpoint: unless the caller took a     *)
(* checkpoint of a runtime that had failed, the latest one has all shards  *)
(* at one cycle, and the event published with it is the one it is of, also *)
(* after runs that stop half-way and after recoveries.                     *)
THEOREM CheckpointStaysRecoverable == SupervisorSpec => []CheckpointRecoverable
<1>1. SupervisorInv => CheckpointRecoverable
    BY DEF SupervisorInv, CheckpointsKept, CheckpointRecoverable, LatestIsConsistent, OneCycle
<1> QED BY <1>1, SupervisorInvariance, PTL

(* Only steps outside a recovery change what the latest checkpoint holds,  *)
(* and none drops it.                                                      *)
LEMMA CheckpointSurvives ==
    ASSUME SupervisorInv, [SupervisorNext]_supervisorVars
    PROVE  /\ latest.taken => latest'.taken
           /\ phase \in {"respawn", "reap", "recheck"} => latest'.cycles = latest.cycles
<1>1. CASE Recheckpoint
    <2>1. CASE latest' = Snapshot
        <3>1. latest.cycles = [w \in Workers |-> latest.cycles[w]]
            BY <1>1 DEF SupervisorInv, Recheckpoint, CheckpointsKept, CheckpointTypes,
                        IsCheckpoint, IsEvent
        <3>2. [w \in Workers |-> latest.cycles[w]] = [w \in Workers |-> cycles[engines[w]]]
            BY <1>1 DEF SupervisorInv, Recheckpoint, ShardsKept
        <3> QED BY <1>1, <2>1, <3>1, <3>2, SnapshotHolds DEF Recheckpoint, Active
    <2>2. CASE latest' = latest
        BY <2>2
    <2> QED BY <1>1, <2>1, <2>2 DEF Recheckpoint
<1>2. CASE Checkpoint
    BY <1>2, SnapshotHolds DEF Checkpoint, Active
<1>3. CASE EndRun
    BY <1>3 DEF EndRun
<1>4. CASE latest' = latest
    BY <1>4
<1>5. latest' = latest \/ Recheckpoint \/ Checkpoint \/ EndRun
    BY DEF SupervisorNext, supervisorVars, Crash, Spawn, Construct, SpawnProcess, SpawnFails,
           SpawnMisreports,
           StartRun, RunTick, RunEmit, StartRecovery, RestoreFresh, ReapOld, Shutdown, Drop
<1> QED BY <1>1, <1>2, <1>3, <1>4, <1>5

(* A recovery given up before the exchange ends only processes it spawned. *)
LEMMA OldRuntimeSurvives ==
    ASSUME SupervisorInv, [SupervisorNext]_supervisorVars, phase = "respawn", phase' = "idle"
    PROVE  /\ engines' = engines
           /\ \A w \in Workers : /\ processes[w] \in running => processes[w] \in running'
                                 /\ cycles'[engines[w]] = cycles[engines[w]]
<1>1. PICK w \in Workers : SpawnFails(w) \/ SpawnMisreports(w) \/ RestoreFresh
    BY SupervisorAssumption
       DEF SupervisorNext, supervisorVars, Crash, Spawn, Construct, SpawnProcess, SpawnFails,
           SpawnMisreports, Checkpoint, StartRun, RunTick, RunEmit, EndRun, StartRecovery,
           ReapOld, Recheckpoint, Shutdown, Drop, Workers
<1>2. /\ UNCHANGED <<engines, cycles>>
      /\ running \ Handles(fresh) \subseteq running'
    BY <1>1 DEF SpawnFails, SpawnMisreports, RestoreFresh
<1>3. \A v \in Workers : processes[v] \notin Handles(fresh)
    BY HandlesHold DEF SupervisorInv, HandlesKept
<1> QED BY <1>2, <1>3

(* recover_from_latest_checkpoint: wherever it stops, the checkpoint it    *)
(* started from is still there with the same contents, and before the      *)
(* exchange of the process sets the runtime it was to replace still runs.  *)
THEOREM RecoveriesLoseNothing == SupervisorSpec => RecoveryLosesNothing
<1>1. SupervisorInv /\ [SupervisorNext]_supervisorVars =>
        [ /\ latest.taken => latest'.taken
          /\ phase \in {"respawn", "reap", "recheck"} => latest'.cycles = latest.cycles]_supervisorVars
    BY CheckpointSurvives
<1>2. SupervisorInv /\ [SupervisorNext]_supervisorVars =>
        [(phase = "respawn" /\ phase' = "idle") =>
           /\ engines' = engines
           /\ \A w \in Workers : /\ processes[w] \in running => processes[w] \in running'
                                 /\ cycles'[engines[w]] = cycles[engines[w]]]_supervisorVars
    BY OldRuntimeSurvives
<1>3. SupervisorSpec => RecoveryKeepsCheckpoint
    BY <1>1, SupervisorInvariance, PTL DEF SupervisorSpec, RecoveryKeepsCheckpoint
<1>4. SupervisorSpec => FailedRecoveryHarmless
    BY <1>2, SupervisorInvariance, PTL DEF SupervisorSpec, FailedRecoveryHarmless
<1> QED BY <1>3, <1>4 DEF RecoveryLosesNothing
=============================================================================
