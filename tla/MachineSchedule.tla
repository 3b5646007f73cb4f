--------------------------- MODULE MachineSchedule ---------------------------
(***************************************************************************)
(* From packets of packed operations to machine packets: expressions are   *)
(* numbered into instructions with sharing, instructions are put into      *)
(* packets by level, and the optimizer packs them again under a width, a   *)
(* memory-read limit and a liveness priority.  analyze_machine_block is    *)
(* the verifier both results must pass.                                    *)
(*                                                                         *)
(* An expression is [op, args] with args a sequence of expressions; a      *)
(* signal is [op |-> "sig", s, args |-> <<>>]; "mem" reads a word of the   *)
(* memory.  An operation assigns an expression to a signal.                *)
(***************************************************************************)
EXTENDS Integers, Sequences, SequencesExt, FiniteSets, FiniteSetsExt, TLC

CONSTANTS Signals,
          Programs,       \* sequences of packets, a packet a sequence of [dst, e]
          Widths,         \* max_packet_width, NoCap among them
          ReadCaps,       \* max_memory_reads_per_packet
          States          \* signal values to run on

NoCap == 1000

\* the memory holds at each address the other bit
ReadMemory(addr) == 1 - addr

OpValue(op, args) ==
    CASE op = "not" -> 1 - args[1]
      [] op = "and" -> args[1] * args[2]
      [] op = "mem" -> ReadMemory(args[1])

RECURSIVE Meaning(_, _)
Meaning(e, v) == IF e.op = "sig" THEN v[e.s]
                 ELSE OpValue(e.op, [k \in DOMAIN e.args |-> Meaning(e.args[k], v)])

\* a packet's operations read the state before it
RunOps(ops, v) == FoldLeft(LAMBDA u, o : [u EXCEPT ![o.dst] = Meaning(o.e, v)], v, ops)
------------------------------------------------------------------------------
(* Lowering.  instrs[k] = [dst, op, s, deps]: the value id dst is op of    *)
(* the values deps.                                                        *)

\* Mutant: shared by operator, not by expression.
memo_key_of_op(e) == [op |-> e.op, args |-> <<>>]

memo_key(e) == e

\* st = [next, memo, instrs]; the operands first, left to right
RECURSIVE lower_expr(_, _)
lower_expr(st, e) ==
    IF memo_key(e) \in DOMAIN st.memo THEN st
    ELSE LET below == FoldLeft(lower_expr, st, e.args)
             instr == [dst |-> below.next, op |-> e.op, s |-> IF e.op = "sig" THEN e.s ELSE "",
                       deps |-> [k \in DOMAIN e.args |-> below.memo[memo_key(e.args[k])]]]
         IN  [next |-> below.next + 1,
              memo |-> (memo_key(e) :> below.next) @@ below.memo,
              instrs |-> Append(below.instrs, instr)]

ByValue(instrs, value) == {k \in DOMAIN instrs : instrs[k].dst = value}

instr_value_deps(instr) == ToSet(instr.deps)

\* the instructions of the region that instrs[k] reads
DepsOf(instrs, k) == UNION {ByValue(instrs, value) : value \in instr_value_deps(instrs[k])}

machine_instr_level(instrs) ==
    LET level[k \in DOMAIN instrs] ==
            IF DepsOf(instrs, k) = {} THEN 0 ELSE Max({level[j] + 1 : j \in DepsOf(instrs, k)})
    IN  level

Positions(n) == [k \in 1..n |-> k]

schedule_machine_instrs(instrs) ==
    LET level == machine_instr_level(instrs)
        depth == IF instrs = <<>> THEN 0 ELSE 1 + Max({level[k] : k \in DOMAIN instrs})
        at(l) == SelectSeq(Positions(Len(instrs)), LAMBDA k : level[k] = l)
    IN  [l \in 1..depth |-> [instrs |-> [j \in DOMAIN at(l - 1) |-> instrs[at(l - 1)[j]]], effects |-> <<>>]]

WithEffects(packets, effects) == [packets EXCEPT ![Len(packets)].effects = effects]

\* a memo for each packet, value ids for the whole block
lower_packets_to_block(program) ==
    LET packet(st, ops) ==
            LET lowered == FoldLeft(LAMBDA l, o : lower_expr(l, o.e),
                                    [next |-> st.next, memo |-> <<>>, instrs |-> <<>>], ops)
                effects == [k \in DOMAIN ops |-> [dst |-> ops[k].dst, value |-> lowered.memo[memo_key(ops[k].e)]]]
            IN  [next |-> lowered.next,
                 packets |-> st.packets \o WithEffects(schedule_machine_instrs(lowered.instrs), effects)]
    IN  FoldLeft(packet, [next |-> 0, packets |-> <<>>], program).packets
------------------------------------------------------------------------------
(* The verifier.                                                           *)

DefinedBefore(block, p) == {i.dst : i \in UNION {ToSet(block[q].instrs) : q \in 1..(p - 1)}}

\* no value defined twice, none used before its packet; effects may use their own packet's
analyze_machine_block(block) ==
    /\ \A p, q \in DOMAIN block : \A j \in DOMAIN block[p].instrs, k \in DOMAIN block[q].instrs :
          block[p].instrs[j].dst = block[q].instrs[k].dst => <<p, j>> = <<q, k>>
    /\ \A p \in DOMAIN block :
          /\ \A i \in ToSet(block[p].instrs) : instr_value_deps(i) \subseteq DefinedBefore(block, p)
          /\ \A f \in ToSet(block[p].effects) : f.value \in DefinedBefore(block, p + 1)
------------------------------------------------------------------------------
(* The optimizer.  options = [width, reads, liveness].                     *)

is_memory_read(instr) == instr.op = "mem"

\* Mutant: one read more.
memory_read_allowed_late(instr, reads, cap) == ~is_memory_read(instr) \/ reads <= cap

memory_read_allowed(instr, reads, cap) == ~is_memory_read(instr) \/ reads < cap

\* per instruction: operands used here for the last time, and the latest last use
schedule_priorities(instrs, effects) ==
    LET uses(j) == {k \in DOMAIN instrs : j \in DepsOf(instrs, k)}
                   \cup (IF \E f \in ToSet(effects) : f.value = instrs[j].dst THEN {Len(instrs) + 1} ELSE {})
        last(j) == Max(uses(j))
        operands(k) == {d \in DOMAIN instrs[k].deps : ByValue(instrs, instrs[k].deps[d]) # {}}
        operand(k, d) == CHOOSE j \in ByValue(instrs, instrs[k].deps[d]) : TRUE
    IN  [k \in DOMAIN instrs |->
            [final |-> Cardinality({d \in operands(k) : last(operand(k, d)) = k}),
             latest |-> IF operands(k) = {} THEN NoCap ELSE Max({last(operand(k, d)) : d \in operands(k)})]]

\* k is the better choice: more final uses, then an earlier latest use, then its place
Better(prio, k, j) ==
    \/ prio[k].final > prio[j].final
    \/ prio[k].final = prio[j].final /\ prio[k].latest < prio[j].latest
    \/ prio[k].final = prio[j].final /\ prio[k].latest = prio[j].latest /\ k < j

\* the position in ready, 0 when nothing is eligible
select_ready_position(ready, instrs, prio, reads, options) ==
    LET eligible == {p \in DOMAIN ready : memory_read_allowed(instrs[ready[p]], reads, options.reads)}
    IN  CASE eligible = {}      -> 0
          [] eligible # {} /\ ~options.liveness -> Min(eligible)
          [] OTHER -> CHOOSE p \in eligible : \A q \in eligible \ {p} : Better(prio, ready[p], ready[q])

\* fill one packet: st = [ready, picked]
RECURSIVE FillPacket(_, _, _, _)
FillPacket(st, instrs, prio, options) ==
    LET reads == Cardinality({k \in ToSet(st.picked) : is_memory_read(instrs[k])})
        at == select_ready_position(st.ready, instrs, prio, reads, options)
    IN  IF Len(st.picked) >= options.width \/ at = 0 THEN st
        ELSE FillPacket([ready |-> RemoveAt(st.ready, at), picked |-> Append(st.picked, st.ready[at])],
                        instrs, prio, options)

\* Mutant: an instruction is released when half its operands are scheduled.
Released_early(instrs, done, k) == DepsOf(instrs, k) = {} \/ DepsOf(instrs, k) \cap done # {}

Released(instrs, done, k) == DepsOf(instrs, k) \subseteq done

\* packets until nothing is left; the newly ready are queued in order, after those left over
RECURSIVE SchedulePackets(_, _, _, _, _)
SchedulePackets(ready, done, instrs, prio, options) ==
    LET filled == FillPacket([ready |-> ready, picked |-> <<>>], instrs, prio, options)
        now == done \cup ToSet(filled.picked)
        freed == SelectSeq(Positions(Len(instrs)),
                           LAMBDA k : k \notin now \cup ToSet(filled.ready) /\ Released(instrs, now, k))
    IN  IF filled.picked = <<>> THEN <<>>
        ELSE <<[instrs |-> [j \in DOMAIN filled.picked |-> instrs[filled.picked[j]]], effects |-> <<>>]>>
             \o SchedulePackets(filled.ready \o freed, now, instrs, prio, options)

\* no cycle reaches this point, so everything is scheduled
schedule_machine_region(instrs, effects, options) ==
    LET ready == SelectSeq(Positions(Len(instrs)), LAMBDA k : DepsOf(instrs, k) = {})
        packets == SchedulePackets(ready, {}, instrs, schedule_priorities(instrs, effects), options)
    IN  IF instrs = <<>> THEN <<[instrs |-> <<>>, effects |-> effects]>> ELSE WithEffects(packets, effects)

\* a region ends at the packet that has effects
optimize_machine_block(block, options) ==
    LET packet(st, p) ==
            LET region == st.region \o p.instrs
            IN  IF p.effects = <<>> THEN [st EXCEPT !.region = region]
                ELSE [region |-> <<>>, out |-> st.out \o schedule_machine_region(region, p.effects, options)]
        st == FoldLeft(packet, [region |-> <<>>, out |-> <<>>], block)
    IN  IF options.width = NoCap /\ options.reads = NoCap /\ ~options.liveness THEN block
        ELSE st.out \o (IF st.region = <<>> THEN <<>> ELSE schedule_machine_region(st.region, <<>>, options))
------------------------------------------------------------------------------
(* Running a block: a packet's instructions in order, then its effects.    *)

RunPacket(st, p) ==
    LET values == FoldLeft(LAMBDA vals, i :
                              (i.dst :> IF i.op = "sig" THEN st.v[i.s]
                                        ELSE OpValue(i.op, [d \in DOMAIN i.deps |-> vals[i.deps[d]]])) @@ vals,
                           st.values, p.instrs)
    IN  [values |-> values, v |-> FoldLeft(LAMBDA u, f : [u EXCEPT ![f.dst] = values[f.value]], st.v, p.effects)]

RunBlock(block, v) == FoldLeft(RunPacket, [values |-> <<>>, v |-> v], block).v

VARIABLES program, options, block, phase

vars == <<program, options, block, phase>>

ScheduleInit ==
    /\ program \in Programs
    /\ options \in [width : Widths, reads : ReadCaps, liveness : BOOLEAN]
    /\ block = <<>>
    /\ phase = "packed"

lower_to_machine_program ==
    /\ phase = "packed"
    /\ block' = lower_packets_to_block(program)
    /\ phase' = "lowered"
    /\ UNCHANGED <<program, options>>

optimize_machine_program ==
    /\ phase = "lowered" /\ analyze_machine_block(block)
    /\ block' = optimize_machine_block(block, options)
    /\ phase' = "optimized"
    /\ UNCHANGED <<program, options>>

ScheduleNext == lower_to_machine_program \/ optimize_machine_program

ScheduleSpec == ScheduleInit /\ [][ScheduleNext]_vars
------------------------------------------------------------------------------
(***************************************************************************)
(* A lowered or optimized block stores what the packed operations mean,    *)
(* from every state: sharing and packing change no value.  The verifier    *)
(* accepts both, so the optimizer never fails on a program of its own, and *)
(* no optimized packet is wider than max_packet_width or reads memory more *)
(* often than max_memory_reads_per_packet.                                 *)
(***************************************************************************)
ScheduleSound ==
    /\ phase # "packed" =>
         /\ analyze_machine_block(block)
         /\ \A v \in States : RunBlock(block, v) = FoldLeft(LAMBDA u, ops : RunOps(ops, u), v, program)
    /\ phase = "optimized" =>
         \A p \in ToSet(block) :
           /\ Len(p.instrs) <= options.width
           /\ Cardinality({k \in DOMAIN p.instrs : is_memory_read(p.instrs[k])}) <= options.reads
==============================================================================
