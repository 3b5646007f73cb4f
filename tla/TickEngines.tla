----------------------------- MODULE TickEngines -----------------------------
(***************************************************************************)
(* The simulators of rrtl-core and rrtl-sim-ir on one-bit designs: each    *)
(* settles and clocks the design in an order of its own and is run beside  *)
(* the meaning of the design, driven by the same calls: the settled values *)
(* of its wires and what a clock edge does to its registers and its memory *)
(* word.  The compiled simulators are the second part of the module.       *)
(*                                                                         *)
(* A design is a record                                                    *)
(*   assign  sequence of [dst, e], in declaration order                    *)
(*   child   an instance: [assign, ins, outs], ins a sequence of           *)
(*           <<port, parent signal>>, outs of <<parent signal, port>>      *)
(*   next    an expression for each register                               *)
(*   reset   NoReset or [sig, kind, low, value] for each register          *)
(*   clock   the clock of each register                                    *)
(*   writes  sequence of [clk, en, data], the memory's write ports         *)
(* The memory has one word, read by the signal Mem.                        *)
(***************************************************************************)
EXTENDS Integers, Sequences, SequencesExt, FiniteSets, FiniteSetsExt, TLC

CONSTANTS Inputs, Wires, Regs, ChildSignals, Clocks, Mem,
          InputPorts,   \* input ports of instances: of kind Input, and assigned
          Outputs       \* signals of kind Output

Signals == Inputs \cup Wires \cup Regs \cup ChildSignals \cup {Mem}

packed_signal_kind(s) ==
    CASE s \in Inputs \cup InputPorts -> "Input"
      [] s \in Regs                   -> "Reg"
      [] s \in Outputs                -> "Output"
      [] OTHER                        -> "Wire"

NoReset == [kind |-> "none"]
NoChild == [assign |-> <<>>, ins |-> <<>>, outs |-> <<>>]

Value(e, v) ==
    CASE e.op = "copy" -> v[e.a]
      [] e.op = "not"  -> 1 - v[e.a]
      [] e.op = "and"  -> v[e.a] * v[e.b]

reset_asserted(r, v) == r.kind # "none" /\ v[r.sig] = IF r.low THEN 0 ELSE 1

Copy(dst, src) == [dst |-> dst, e |-> [op |-> "copy", a |-> src, b |-> src]]

\* The design without its hierarchy: parent, connections, child.
Flat(d) == d.assign
           \o [k \in DOMAIN d.child.ins |-> Copy(d.child.ins[k][1], d.child.ins[k][2])]
           \o [k \in DOMAIN d.child.outs |-> Copy(d.child.outs[k][1], d.child.outs[k][2])]
           \o d.child.assign

AsyncReset(d, v) ==
    LET asserted == {s \in Regs : d.reset[s].kind = "async" /\ reset_asserted(d.reset[s], v)}
    IN  [s \in asserted |-> d.reset[s].value] @@ v

Assign(a, v) == [v EXCEPT ![a.dst] = Value(a.e, v)]

\* f applied n times; each argument is evaluated before f is applied to it
Iterate(f(_), n, x) == FoldLeft(LAMBDA y, k : CHOOSE z \in {f(w) : w \in {y}} : TRUE, x, [k \in 1..n |-> k])
------------------------------------------------------------------------------
(* The meaning.  A design has no combinational cycle, resets included, so  *)
(* rounds of resets and assignments reach the one settled state.           *)

Round(d, v) == FoldLeft(LAMBDA u, a : Assign(a, u), AsyncReset(d, v), Flat(d))

IsSettled(d, v) == /\ \A k \in DOMAIN Flat(d) : v[Flat(d)[k].dst] = Value(Flat(d)[k].e, v)
                   /\ AsyncReset(d, v) = v

RECURSIVE Settle(_, _)
Settle(d, v) == IF IsSettled(d, v) THEN v ELSE Settle(d, Round(d, v))

NextValue(d, s, v) == IF reset_asserted(d.reset[s], v) THEN d.reset[s].value ELSE Value(d.next[s], v)

\* writes of the active clocks, in port order
Written(writes, v, old) ==
    FoldLeft(LAMBDA m, w : IF v[w.en] = 1 THEN v[w.data] ELSE m, old, writes)

ActiveWrites(d, active) == SelectSeq(d.writes, LAMBDA w : w.clk \in active)

Edge(d, v, active) ==
    [s \in {s \in Regs : d.clock[s] \in active} |-> NextValue(d, s, v)]
    @@ (Mem :> Written(ActiveWrites(d, active), v, v[Mem])) @@ v

TickMeaning(d, v, active) == Settle(d, Edge(d, Settle(d, v), active))
------------------------------------------------------------------------------

CONSTANTS Engines,       \* the engines a run looks at
          DesignsOf(_)   \* the designs each of them is run on
------------------------------------------------------------------------------
(* rrtl-core's Simulator, the reference oracle of the other engines: it    *)
(* keeps the hierarchy and settles by a bounded number of passes over the  *)
(* assignments and the instances.                                          *)

instances(d) == IF d.child = NoChild THEN 0 ELSE 1

Limit(n) == IF n = 0 THEN 1 ELSE n

eval_assignments(assigns, v) == FoldLeft(LAMBDA u, a : Assign(a, u), v, assigns)

\* the child's inputs from the parent's values
drive_child_inputs(d, v) ==
    FoldLeft(LAMBDA u, c : [u EXCEPT ![c[1]] = v[c[2]]], v, d.child.ins)

eval_child(d, v) ==
    Iterate(LAMBDA u : eval_assignments(d.child.assign, u), Limit(Len(d.child.assign)), v)

eval_instances(d, v) ==
    LET u == eval_child(d, drive_child_inputs(d, v))
    IN  FoldLeft(LAMBDA w, c : [w EXCEPT ![c[1]] = u[c[2]]], u, d.child.outs)

\* Mutant: one pass over the assignments, as if they were in dependency order.
scalar_eval_combinational_once(d, v) ==
    AsyncReset(d, eval_instances(d, eval_assignments(d.assign, AsyncReset(d, v))))

\* Passes until nothing changes, at most one per assignment and instance; a
\* pass that changes nothing is repeated here without effect.
scalar_eval_combinational(d, v) ==
    Iterate(LAMBDA u : AsyncReset(d, eval_instances(d, eval_assignments(d.assign, AsyncReset(d, u)))),
            Limit(Len(d.assign) + instances(d)), v)

\* sampling covers and assertions, and capturing, refresh the child first
capture_tick_clocked(d, v, active) == Edge(d, eval_child(d, drive_child_inputs(d, v)), active)

scalar_tick_clocked(d, v, active) ==
    scalar_eval_combinational(d, capture_tick_clocked(d, scalar_eval_combinational(d, v), active))
------------------------------------------------------------------------------
(* The packed engines of rrtl-sim-ir (PackedSimulator, SimdCpuSimulator,   *)
(* SingleLaneMachineSimulator): the hierarchy is flattened, assignments    *)
(* are scheduled by level into packets, and a tick runs four streams.      *)

expr_signal_deps(e) == IF e.op = "and" THEN {e.a, e.b} ELSE {e.a}

\* The level of each assignment: one above the assignments it reads.
assignment_level(assigns) ==
    LET n == Len(assigns)
        deps(k) == {j \in 1..n : assigns[j].dst \in expr_signal_deps(assigns[k].e)} \ {k}
        level[k \in 1..n] == IF deps(k) = {} THEN 0 ELSE Max({level[j] + 1 : j \in deps(k)})
    IN  level

\* Mutant: everything in one packet, as the tick streams are.
schedule_one_packet(d) == IF Flat(d) = <<>> THEN <<>> ELSE <<{Flat(d)[k] : k \in DOMAIN Flat(d)}>>

\* packets of independent assignments, by level
schedule_assignments(d) ==
    LET f == Flat(d)
        lv == assignment_level(f)
        top == IF f = <<>> THEN -1 ELSE Max({lv[k] : k \in DOMAIN f})
    IN  [p \in 1..(top + 1) |-> {f[k] : k \in {k \in DOMAIN f : lv[k] = p - 1}}]

\* A packet evaluates all its instructions, then applies its stores.
execute_packet(packet, v) ==
    [s \in {a.dst : a \in packet} |-> Value((CHOOSE a \in packet : a.dst = s).e, v)] @@ v

execute_machine_block(packets, v) == FoldLeft(LAMBDA u, p : execute_packet(p, u), v, packets)

\* the comb stream, then the async-reset stream
eval_combinational(d, v) == AsyncReset(d, execute_machine_block(schedule_assignments(d), v))

\* one clock per memory: the first write port's
mem_clock(d) == IF d.writes = <<>> THEN Clocks ELSE {d.writes[1].clk}

\* the next values, resets of either kind applied
capture_machine_registers(d, v) == [s \in Regs |-> NextValue(d, s, v)]

\* the write ports, all evaluated before the first store
execute_memory_writes(d, v, active) ==
    IF mem_clock(d) \cap active # {} THEN [v EXCEPT ![Mem] = Written(d.writes, v, @)] ELSE v

commit_register_captures_clocked(d, captured, v, active) ==
    [s \in {s \in Regs : d.clock[s] \in active} |-> captured[s]] @@ v

\* capture the registers, write the memories, commit the captures
tick_from_evaluated_no_post_eval(d, v, active) ==
    commit_register_captures_clocked(d, capture_machine_registers(d, v), execute_memory_writes(d, v, active), active)

tick_clocked(d, v, active) ==
    eval_combinational(d, tick_from_evaluated_no_post_eval(d, eval_combinational(d, v), active))

\* comb fusion: one evaluation between two edges
tick_many(d, v, n) ==
    Iterate(LAMBDA u : eval_combinational(d, tick_from_evaluated_no_post_eval(d, u, Clocks)),
            n, eval_combinational(d, v))
------------------------------------------------------------------------------
(* The bit-parallel and bit-slice engines of rrtl-sim-ir on the packets    *)
(* above.  Each lane is one bit of a word, so one lane is followed here.   *)
(* Reset streams run before the comb stream, and setting a signal          *)
(* evaluates nothing; a tick settles before and after the clock edge.      *)

\* The async-reset stream: the capture's value is the literal reset value
\* (schedule_async_resets), stored whether or not the reset is asserted.
settle_async_resets(d, v) ==
    LET captured(s) == d.reset[s].value
        stored(s) == IF reset_asserted(d.reset[s], v) THEN d.reset[s].value ELSE captured(s)
    IN  [s \in {s \in Regs : d.reset[s].kind = "async"} |-> stored(s)] @@ v

\* Bit-parallel: each packet's stores are applied before the next packet.
settle_by_packet(d, v) == execute_machine_block(schedule_assignments(d), settle_async_resets(d, v))

\* Bit-slice: every instruction of the stream is evaluated before any store.
settle_by_stream(d, v) ==
    LET u == settle_async_resets(d, v)
    IN  execute_packet(UNION {schedule_assignments(d)[p] : p \in DOMAIN schedule_assignments(d)}, u)

\* Mutant: the final settle is left to the next tick.
bitparallel_tick_no_settle(d, v) == Edge(d, settle_by_packet(d, v), Clocks)

bitparallel_tick(d, v) == settle_by_packet(d, Edge(d, settle_by_packet(d, v), Clocks))

\* Mutant: the registers are captured from the state before the settle.
bitslice_tick_unsettled(d, v) == settle_by_stream(d, Edge(d, v, Clocks))

bitslice_tick(d, v) == settle_by_stream(d, Edge(d, settle_by_stream(d, v), Clocks))

\* Mutant: the generated code captures from unsettled values.
bitparallel_aot_tick_unsettled(d, v) ==
    LET comb(u) == execute_machine_block(schedule_assignments(d), u)
    IN  comb(Edge(d, v, Clocks))

\* The generated C (BitParallelAot) has no reset stream.
bitparallel_aot_tick(d, v) ==
    LET comb(u) == execute_machine_block(schedule_assignments(d), u)
    IN  comb(Edge(d, comb(v), Clocks))
------------------------------------------------------------------------------
(* The shaders of rrtl-gpu-sim: a GPU kernel is straight-line code, so the *)
(* streams are emitted a fixed number of times instead of until nothing    *)
(* changes, and every clock ticks.                                         *)

async_packets(d) == IF \E s \in Regs : d.reset[s].kind = "async" THEN 1 ELSE 0

\* Mutant: the streams are emitted once, as the packed simulator runs them.
emit_comb_sequence_once(d, v) == eval_combinational(d, v)

\* the comb and the async-reset stream, once for each packet of either
emit_comb_sequence(d, v) ==
    Iterate(LAMBDA u : eval_combinational(d, u), Limit(Len(schedule_assignments(d)) + async_packets(d)), v)

\* the tick kernel: capture, write the memories, store
shader_tick_body(d, v) == tick_from_evaluated_no_post_eval(d, v, Clocks)

\* three kernels in a row
shader_tick(d, v) == emit_comb_sequence(d, shader_tick_body(d, emit_comb_sequence(d, v)))

\* one kernel with a loop
shader_tick_many(d, v, n) ==
    Iterate(LAMBDA u : emit_comb_sequence(d, shader_tick_body(d, emit_comb_sequence(d, u))), n, v)
------------------------------------------------------------------------------
(* An engine beside the meaning, driven by the same calls.                 *)

VARIABLES engine,
          design,
          meant,   \* the values the design means
          held,    \* the values the engine holds
          fresh    \* the engine has evaluated everything since the last set

tickVars == <<engine, design, meant, held, fresh>>

Zero == [s \in Signals |-> 0]

\* What the engine does when an input is set.
EvalOf(e, d, v) ==
    CASE e = "scalar" -> scalar_eval_combinational(d, v)
      [] e = "packed" -> eval_combinational(d, v)
      [] OTHER        -> v

TickOf(e, d, v, active) ==
    CASE e = "scalar"           -> scalar_tick_clocked(d, v, active)
      [] e = "packed"           -> tick_clocked(d, v, active)
      [] e = "bit parallel"     -> bitparallel_tick(d, v)
      [] e = "bit parallel aot" -> bitparallel_aot_tick(d, v)
      [] e = "bit slice"        -> bitslice_tick(d, v)
      [] e = "shader"           -> shader_tick(d, v)

Evaluates(e) == e \in {"scalar", "packed"}

\* Inputs set on the GPU simulator mean nothing until its caller evaluates.
SetMeaning(e, d, v) == IF e = "shader" THEN v ELSE Settle(d, v)

TickInit ==
    /\ engine \in Engines
    /\ design \in DesignsOf(engine)
    /\ meant = SetMeaning(engine, design, Zero)
    /\ held = EvalOf(engine, design, Zero)
    /\ fresh = Evaluates(engine)

\* set one input and, where the engine does, evaluate
Set ==
    \E i \in Inputs, b \in 0..1 :
       /\ meant' = SetMeaning(engine, design, [meant EXCEPT ![i] = b])
       /\ held' = EvalOf(engine, design, [held EXCEPT ![i] = b])
       /\ fresh' = Evaluates(engine)
       /\ UNCHANGED <<engine, design>>

\* a step in which the given clocks rise; the bit-level engines have one clock
Tick ==
    \E active \in IF Evaluates(engine) THEN SUBSET Clocks \ {{}} ELSE {Clocks} :
       /\ meant' = TickMeaning(design, meant, active)
       /\ held' = TickOf(engine, design, held, active)
       /\ fresh' = TRUE
       /\ UNCHANGED <<engine, design>>

\* n steps of every clock in one call
TickMany ==
    /\ engine \in {"packed", "shader"}
    /\ \E n \in 2..3 :
          /\ meant' = Iterate(LAMBDA v : TickMeaning(design, v, Clocks), n, meant)
          /\ held' = IF engine = "packed" THEN tick_many(design, held, n) ELSE shader_tick_many(design, held, n)
    /\ fresh' = TRUE
    /\ UNCHANGED <<engine, design>>

\* eval_combinational of the GPU simulator, which setting an input leaves to the caller
Eval ==
    /\ engine = "shader"
    /\ meant' = Settle(design, meant)
    /\ held' = emit_comb_sequence(design, held)
    /\ fresh' = TRUE
    /\ UNCHANGED <<engine, design>>

TickNext == Set \/ Tick \/ TickMany \/ Eval

(***************************************************************************)
(* Once an engine has evaluated, every signal has the value the design     *)
(* means: passes, packets, levels and streams never let an assignment read *)
(* a wire before it is stored, registers and memories are captured from    *)
(* one state, and the evaluations that comb fusion leaves out were         *)
(* redundant.                                                              *)
(***************************************************************************)
EnginesAgree == fresh => held = meant
------------------------------------------------------------------------------
(***************************************************************************)
(* The compiled simulators of rrtl-sim-ir on the designs of TickEngines:   *)
(* JitSimulator (jit.rs) with its deferred settle, its activity mode and   *)
(* its double-buffered tick, the vector and bit-parallel JITs, the AOT     *)
(* simulator (aot.rs) and the GPU kernels (gpu_codegen.rs).  What a caller *)
(* sees is what get_signal returns, which may settle first.                *)
(***************************************************************************)

CONSTANT CompiledEngines   \* those of "jit", "jit activity", "jit buffers", "vector jit",
                           \* "bit parallel jit", "aot" and "kernel" a run looks at

VARIABLES dirty,  \* settles put off: "full", and for the AOT backend "ports"
          cones,  \* activity mode: [seen, of], the reads of each cone when it last ran
          back    \* the double-buffered tick: the buffer written next

jitVars == <<dirty, cones, back>>
------------------------------------------------------------------------------
(* Streams, as every backend emits them.                                   *)

\* packets of the comb stream; a packet's stores follow its instructions
emit_comb(d, v) == execute_machine_block(schedule_assignments(d), v)

\* the async-reset stream keeps a register whose reset is not asserted
emit_post_settle(d, v) == emit_comb(d, AsyncReset(d, v))

\* resets of either kind over the next value
emit_capture(d, v) == [s \in Regs |-> NextValue(d, s, v)]

\* Mutant: only registers are gated by their clock.
emit_memwrites_ungated(d, v, active) == [v EXCEPT ![Mem] = Written(d.writes, v, @)]

\* A memory is written if its clock ticks; all ports are evaluated first.
emit_memwrites(d, v, active) ==
    IF mem_clock(d) \cap active = {} THEN v ELSE [v EXCEPT ![Mem] = Written(d.writes, v, @)]

\* a register whose clock does not tick stores the value it had
Commit(d, caps, v, active) == [s \in {s \in Regs : d.clock[s] \in active} |-> caps[s]] @@ v

ClockEdge(d, v, active) == Commit(d, emit_capture(d, v), emit_memwrites(d, v, active), active)
------------------------------------------------------------------------------
(* JitSimulator and AotSimulator.                                          *)

is_stable(s) == packed_signal_kind(s) \in {"Reg", "Input"}

\* Mutant: an output that inverts a register is refreshed as if it copied it.
trivial_output_aliases_any(d) ==
    {a \in ToSet(Flat(d)) : packed_signal_kind(a.dst) = "Output" /\ a.e.op # "and" /\ is_stable(a.e.a)}

\* outputs that only copy a register or an input are refreshed at the commit
trivial_output_aliases(d) ==
    {a \in ToSet(Flat(d)) : packed_signal_kind(a.dst) = "Output" /\ a.e.op = "copy" /\ is_stable(a.e.a)}

Aliased(d) == {a.dst : a \in trivial_output_aliases(d)}

RefreshAliases(d, v) ==
    [s \in Aliased(d) |-> v[(CHOOSE a \in trivial_output_aliases(d) : a.dst = s).e.a]] @@ v

needs_settle(d) ==
    ({Flat(d)[k].dst : k \in DOMAIN Flat(d)} \cup {s \in Regs : d.reset[s].kind = "async"}) \ Aliased(d)

emit_tick_body(d, v, post_settle, active) ==
    IF post_settle
    THEN emit_post_settle(d, ClockEdge(d, emit_post_settle(d, v), active))
    ELSE RefreshAliases(d, ClockEdge(d, emit_post_settle(d, v), active))

\* The AOT tick keeps wires in locals: u has them, the state v does not.  A
\* register's reset is read from the state.
AotCapture(d, v, u) ==
    [s \in Regs |-> IF reset_asserted(d.reset[s], v) THEN d.reset[s].value ELSE Value(d.next[s], u)]

AotEdge(d, v, u, active) ==
    RefreshAliases(d, Commit(d, AotCapture(d, v, u), [v EXCEPT ![Mem] = emit_memwrites(d, u, active)[Mem]], active))

generate_c_tick(d, v, active) == AotEdge(d, AsyncReset(d, v), emit_comb(d, AsyncReset(d, v)), active)

\* settle_obs stores the output ports only, of the settled values
settle_obs(d, v, settled) ==
    [s \in {s \in needs_settle(d) : packed_signal_kind(s) = "Output"} |-> settled[s]] @@ AsyncReset(d, v)
------------------------------------------------------------------------------
(* Activity mode: a cone, the assignment of a wire or the next value of a  *)
(* register, runs when a signal it reads differs from what it read when it *)
(* last ran.  A cone that reads the memory always runs.                    *)

reads_mem(e) == Mem \in expr_signal_deps(e)

\* Mutant: a register's cone watches only its next value, not its reset.
op_guard_reads_next(d, s) == expr_signal_deps(d.next[s])

op_guard_reads(d, s) ==
    expr_signal_deps(d.next[s]) \cup (IF d.reset[s].kind = "none" THEN {} ELSE {d.reset[s].sig})

Snapshot(reads, v) == [r \in reads |-> v[r]]

\* x: [v, of]
RunCone(a, x, force) ==
    IF reads_mem(a.e) THEN [x EXCEPT !.v = Assign(a, @)]
    ELSE IF force \/ x.of[a.dst] # Snapshot(expr_signal_deps(a.e), x.v)
    THEN [v |-> Assign(a, x.v), of |-> [x.of EXCEPT ![a.dst] = Snapshot(expr_signal_deps(a.e), x.v)]]
    ELSE x

\* the assignments in the order of their packets
Scheduled(d) == FlattenSeq([p \in DOMAIN schedule_assignments(d) |-> SetToSeq(schedule_assignments(d)[p])])

emit_settle(d, x, force) ==
    FoldLeft(LAMBDA y, a : RunCone(a, y, force), [x EXCEPT !.v = AsyncReset(d, @)], Scheduled(d))

RegCone(d, s) == op_guard_reads(d, s)

\* the registers whose cones run, x settled
Active(d, x, force) ==
    {s \in Regs : reads_mem(d.next[s]) \/ force \/ x.of[s] # Snapshot(RegCone(d, s), x.v)}

\* a skipped register keeps its value
ActivityCapture(d, x, run) == [s \in Regs |-> IF s \in run THEN NextValue(d, s, x.v) ELSE x.v[s]]

\* ports are evaluated and stored one after the other
MemWritesInTurn(d, v) ==
    FoldLeft(LAMBDA u, w : IF u[w.en] = 1 THEN [u EXCEPT ![Mem] = u[w.data]] ELSE u, v, d.writes)

ActivityEdge(d, x, run) ==
    [v  |-> ActivityCapture(d, x, run) @@ MemWritesInTurn(d, x.v),
     of |-> [s \in {s \in run : ~reads_mem(d.next[s])} |-> Snapshot(RegCone(d, s), x.v)] @@ x.of]

ActivityStep(d, x, force) == emit_settle(d, ActivityEdge(d, x, Active(d, x, force)), force)

\* the first tick runs every cone
emit_activity_tick(d, v, cs) == ActivityStep(d, emit_settle(d, [v |-> v, of |-> cs.of], ~cs.seen), ~cs.seen)
------------------------------------------------------------------------------
(* Ticks that leave nothing to settle.                                     *)

\* the vector JIT has no reset stream and writes its memories port by port
emit_vec_tick(d, v) ==
    LET edge(u) == emit_capture(d, u) @@ MemWritesInTurn(d, u)
    IN  emit_comb(d, edge(emit_comb(d, v)))

emit_bp_tick(d, v) == emit_comb(d, Commit(d, emit_capture(d, emit_comb(d, v)), emit_comb(d, v), Clocks))

emit_kernel(d, v) == emit_post_settle(d, ClockEdge(d, emit_post_settle(d, v), Clocks))

\* The program of a partition: its registers, and all the wires.
Owning(d, regs) == [d EXCEPT !.next = [s \in regs |-> d.next[s]]]

\* registers are read from cur, everything else from nxt, and written to nxt
View(cur, nxt) == [s \in Signals |-> IF s \in Regs THEN cur[s] ELSE nxt[s]]

WiresOf(d) == {Flat(d)[k].dst : k \in DOMAIN Flat(d)}

\* (of a design without memories or asynchronous resets)
tick_db(d, cur, nxt) ==
    LET u == emit_comb(d, View(cur, nxt))
    IN  [s \in DOMAIN d.next |-> NextValue(d, s, u)] @@ [s \in WiresOf(d) |-> u[s]] @@ nxt
------------------------------------------------------------------------------
(* Calls.                                                                  *)

NoCones == [seen |-> FALSE, of |-> [s \in Signals |-> [r \in {} |-> 0]]]

JitInit ==
    /\ engine \in CompiledEngines
    /\ design \in DesignsOf(engine)
    /\ meant = Zero
    /\ held = Zero
    /\ fresh = FALSE
    /\ dirty = {}
    /\ cones = NoCones
    /\ back = Zero

\* set_signal stores and marks nothing: inputs count when the design is next
\* settled, by a tick or by a read that settles
set_signal_compiled ==
    /\ engine # "jit buffers"
    /\ \E i \in Inputs, b \in 0..1 :
          /\ meant' = [meant EXCEPT ![i] = b]
          /\ held' = [held EXCEPT ![i] = b]
    /\ fresh' = FALSE
    /\ UNCHANGED <<engine, design, dirty, cones, back>>

\* tick and tick_many(n)
tick_many_compiled ==
    \E n \in 1..2 :
       /\ meant' = Iterate(LAMBDA v : TickMeaning(design, v, Clocks), n, meant)
       /\ \/ /\ engine = "jit" /\ dirty' = {"full"} /\ cones' = cones
             /\ held' = Iterate(LAMBDA v : emit_tick_body(design, v, FALSE, Clocks), n, held)
          \/ /\ engine = "aot" /\ dirty' = {"full", "ports"} /\ cones' = cones
             /\ held' = Iterate(LAMBDA v : generate_c_tick(design, v, Clocks), n, held)
          \/ /\ engine = "vector jit" /\ UNCHANGED <<dirty, cones>>
             /\ held' = Iterate(LAMBDA v : emit_vec_tick(design, v), n, held)
          \/ /\ engine = "bit parallel jit" /\ UNCHANGED <<dirty, cones>>
             /\ held' = Iterate(LAMBDA v : emit_bp_tick(design, v), n, held)
          \/ /\ engine = "kernel" /\ UNCHANGED <<dirty, cones>>
             /\ held' = Iterate(LAMBDA v : emit_kernel(design, v), n, held)
          \/ /\ engine = "jit activity" /\ n = 1 /\ dirty' = dirty
             /\ \E x \in {emit_activity_tick(design, held, cones)} :
                   held' = x.v /\ cones' = [seen |-> TRUE, of |-> x.of]
       /\ fresh' = TRUE
       /\ UNCHANGED <<engine, design, back>>

\* some of the clocks; not for activity mode, whose cones it does not update
tick_clocked_compiled ==
    \E active \in SUBSET Clocks \ {{}, Clocks} :
       /\ meant' = TickMeaning(design, meant, active)
       /\ \/ /\ engine = "jit" /\ dirty' = {"full"}
             /\ held' = emit_tick_body(design, held, FALSE, active)
          \/ /\ engine = "aot" /\ dirty' = {"full", "ports"}
             /\ held' = generate_c_tick(design, held, active)
       /\ fresh' = TRUE
       /\ UNCHANGED <<engine, design, cones, back>>

\* one cycle of a trace: every input, a tick, and all outputs settled
run_trace ==
    \E in \in [Inputs -> 0..1] :
       /\ meant' = TickMeaning(design, in @@ meant, Clocks)
       /\ \/ /\ engine = "jit" /\ dirty' = {} /\ cones' = cones
             /\ held' = emit_tick_body(design, in @@ held, TRUE, Clocks)
          \/ /\ engine = "jit activity" /\ dirty' = dirty
             /\ \E x \in {emit_activity_tick(design, in @@ held, cones)} :
                   held' = x.v /\ cones' = [seen |-> TRUE, of |-> x.of]
       /\ fresh' = TRUE
       /\ UNCHANGED <<engine, design, back>>

\* One cycle of partitions over two shared buffers, in either order: inputs
\* into the buffer written, then the swap.
RunPartitions ==
    /\ engine = "jit buffers"
    /\ \E in \in [Inputs -> 0..1], first \in {{"r"}, Regs \ {"r"}} :
          /\ meant' = TickMeaning(design, in @@ meant, Clocks)
          /\ held' = tick_db(Owning(design, Regs \ first), held,
                             tick_db(Owning(design, first), held, in @@ back))
    /\ back' = held
    /\ fresh' = TRUE
    /\ UNCHANGED <<engine, design, dirty, cones>>

\* Mutant: reading a port counts as settling everything.
Observed_all(s, settled) ==
    LET level == IF engine = "aot" /\ packed_signal_kind(s) = "Output" THEN "ports" ELSE "full"
    IN  IF s \notin needs_settle(design) \/ level \notin dirty THEN [v |-> held, dirty |-> dirty]
        ELSE IF level = "ports" THEN [v |-> settle_obs(design, held, settled), dirty |-> {}]
        ELSE [v |-> settled, dirty |-> {}]

\* get_signal: the state after reading s, where settled is the state that a
\* full settle would reach; an AOT output port takes the small
\* settle, which leaves the wires alone.
Observed(s, settled) ==
    LET level == IF engine = "aot" /\ packed_signal_kind(s) = "Output" THEN "ports" ELSE "full"
    IN  IF s \notin needs_settle(design) \/ level \notin dirty THEN [v |-> held, dirty |-> dirty]
        ELSE IF level = "ports" THEN [v |-> settle_obs(design, held, settled), dirty |-> dirty \ {"ports"}]
        ELSE [v |-> settled, dirty |-> {}]

get_signal ==
    /\ dirty # {}
    /\ \E s \in Signals \ {Mem}, settled \in {emit_post_settle(design, held)} :
       \E x \in {Observed(s, settled)} : held' = x.v /\ dirty' = x.dirty
    /\ meant' = IF dirty' = dirty THEN meant ELSE Settle(design, meant)
    /\ UNCHANGED <<engine, design, fresh, cones, back>>

CompiledNext ==
    set_signal_compiled \/ tick_many_compiled \/ tick_clocked_compiled \/ run_trace \/ RunPartitions \/ get_signal

\* Outputs of instances that copy their input port: the port is of kind Input
\* though the instance's parent drives it, so the refresh reads it unsettled.
FeedThrough == {a.dst : a \in {a \in trivial_output_aliases(design) : a.e.a \in InputPorts}}

(***************************************************************************)
(* After a tick, whatever was set, read or left unsettled before it, every *)
(* signal reads as the design means: what is put off is done before it     *)
(* shows, a skipped cone would have computed what it kept, and partitions  *)
(* that share two buffers see each other's registers of the last cycle.    *)
(* With two buffers only registers are observed.                           *)
(***************************************************************************)
CompiledAgree ==
    fresh => \A settled \in {emit_post_settle(design, held)}, s \in Signals \ FeedThrough :
                IF engine = "jit buffers" THEN s \in Regs => held[s] = meant[s]
                ELSE Observed(s, settled).v[s] = meant[s]
==============================================================================
