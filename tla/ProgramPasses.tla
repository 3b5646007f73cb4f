---------------------------- MODULE ProgramPasses ----------------------------
(***************************************************************************)
(* The passes that rewrite a machine block of rrtl-sim-ir: the specializer *)
(* (specialize.rs), its freezing of profiled signals, the rebalancing of   *)
(* priority mux chains, the reuse of value slots, the tabulation of decode *)
(* flags (tabulate.rs), and the range analysis that narrows values         *)
(* (value_range.rs).                                                       *)
(*                                                                         *)
(* A block is a sequence of packets; a packet runs its instructions in     *)
(* order and then its effects.  An instruction is a record: dst, the value *)
(* id it defines; op and w; args, the ids it reads; p, its parameter (the  *)
(* literal, the signal, the contents of the memory, the lsb, the           *)
(* signedness).  An effect stores a value in a signal, which later packets *)
(* see, or captures the next value of a register, which they do not.       *)
(* Widths are those of a u128: a wider literal is not folded.              *)
(***************************************************************************)
EXTENDS MachineInstr, FiniteSetsExt, TLC

CONSTANTS SignalWidth,  \* signal -> width
          Programs,     \* blocks the lowering may hand to a pass
          MinChain,     \* REBALANCE_MIN_CHAIN
          KeyMaxes,     \* key_max of a tabulation
          Frozen,       \* frozen signals and their values, one function per profile
          States,       \* values of the signals a block is run on
          MaxPasses     \* passes run one after the other

VARIABLES source,   \* the block as it was lowered
          current,  \* the block as the passes left it
          applied,  \* the passes, in order
          holds     \* values the signals are assumed to keep

passVars == <<source, current, applied, holds>>

In(dst, op, w, arg, p) == [dst |-> dst, op |-> op, w |-> w, args |-> arg, p |-> p]
Store(s, v) == [kind |-> "store", s |-> s, value |-> v]
Capture(s, v) == [kind |-> "capture", s |-> s, value |-> v]
Packet(is, es) == [instrs |-> is, effects |-> es]

AllInstrs(b) == FlattenSeq([k \in DOMAIN b |-> b[k].instrs])
AllEffects(b) == FlattenSeq([k \in DOMAIN b |-> b[k].effects])
Ids(b) == {AllInstrs(b)[k].dst : k \in DOMAIN AllInstrs(b)}
Fresh(b) == 1 + Max(Ids(b))
Def(b) == [v \in Ids(b) |-> CHOOSE i \in ToSet(AllInstrs(b)) : i.dst = v]
------------------------------------------------------------------------------
(* What a block computes.                                                  *)

\* Value slots hold a value and its width.
RunInstr(slots, i, signals) ==
    LET x == [k \in DOMAIN i.args |-> slots[i.args[k]].v]
        aw == [k \in DOMAIN i.args |-> slots[i.args[k]].w]
        v == CASE i.op = "lit" -> i.p
               [] i.op = "signal" -> signals[i.p]
               [] i.op = "rom" -> i.p[x[1]]
               [] OTHER -> Reference(I(i.op, i.w, aw, i.p), x)
    IN (i.dst :> [v |-> v, w |-> i.w]) @@ slots

RunEffect(acc, e) ==
    IF e.kind = "store" THEN [acc EXCEPT !.signals[e.s] = acc.slots[e.value].v]
    ELSE [acc EXCEPT !.next = (e.s :> acc.slots[e.value].v) @@ @]

RunPacket(acc, pk) ==
    LET ran == FoldLeft(LAMBDA slots, i : RunInstr(slots, i, acc.signals), acc.slots, pk.instrs)
    IN FoldLeft(RunEffect, [acc EXCEPT !.slots = ran], pk.effects)

RunBlock(b, signals) == FoldLeft(RunPacket, [slots |-> <<>>, signals |-> signals, next |-> <<>>], b)

\* what can be seen of a run
Outcome(b, signals) == LET r == RunBlock(b, signals) IN [signals |-> r.signals, next |-> r.next]

------------------------------------------------------------------------------
(* The specializer: constants and copies forwards, dead code backwards,    *)
(* then the remaining ids renumbered.                                      *)

None == [is |-> "none"]
Const(v) == [is |-> "const", v |-> v]
Copy(id) == [is |-> "copy", id |-> id]

RECURSIVE canon(_, _)
canon(repl, id) == IF id \in DOMAIN repl /\ repl[id].is = "copy" THEN canon(repl, repl[id].id) ELSE id

const_of(repl, id) == IF canon(repl, id) \in DOMAIN repl THEN repl[canon(repl, id)] ELSE None

\* Constant arithmetic, masked to the result's width; a signed operand is
\* extended from its own.
fold_constants(i, x, aw) ==
    Fit(CASE i.op = "not" -> 2^i.w - 1 - x[1]
          [] i.op = "and" -> x[1] & x[2]
          [] i.op = "or"  -> x[1] | x[2]
          [] i.op = "xor" -> x[1] ^^ x[2]
          [] i.op = "add" -> x[1] + x[2]
          [] i.op = "sub" -> x[1] - x[2]
          [] i.op = "mul" -> x[1] * x[2]
          [] i.op = "eq"  -> Flag(x[1] = x[2])
          [] i.op = "ne"  -> Flag(x[1] # x[2])
          [] i.op = "lt"  -> Flag(IF i.p = 1 THEN Signed(x[1], aw[1]) < Signed(x[2], aw[2]) ELSE x[1] < x[2])
          [] i.op = "slice" -> x[1] \div 2^i.p
          [] i.op = "sext" -> Signed(x[1], aw[1])
          [] i.op \in {"zext", "trunc", "cast"} -> x[1], i.w)

\* an identity of x op c, for a constant operand c and the other one
absorbs(i, c) == \/ i.op \in {"and", "mul"} /\ c = 0
                 \/ i.op = "or" /\ c = 2^i.w - 1

\* mutant: subtraction taken as commutative
neutral_either_side(i, c, k) == \/ i.op = "and" /\ c = 2^i.w - 1
                                \/ i.op \in {"or", "xor", "add", "sub"} /\ c = 0
                                \/ i.op = "mul" /\ c = 1

neutral(i, c, k) == \/ i.op = "and" /\ c = 2^i.w - 1
                    \/ i.op \in {"or", "xor", "add"} /\ c = 0
                    \/ i.op = "sub" /\ c = 0 /\ k = 2
                    \/ i.op = "mul" /\ c = 1

try_fold(i, repl, widthOf) ==
    LET c(k) == const_of(repl, i.args[k])
        isConst(k) == c(k).is = "const"
        known == \A k \in DOMAIN i.args : isConst(k)
        same(j, k) == canon(repl, i.args[j]) = canon(repl, i.args[k])
        away == {k \in 1..2 : isConst(k) /\ neutral(i, c(k).v, k)}
        sinks == {k \in 1..2 : isConst(k) /\ absorbs(i, c(k).v)}
    IN IF i.op \in {"lit", "signal", "memread", "rom", "concat"} THEN None
       ELSE IF i.op = "mux"
       THEN IF isConst(1) THEN Copy(i.args[IF c(1).v % 2 = 1 THEN 2 ELSE 3])
            ELSE IF same(2, 3) THEN Copy(i.args[2]) ELSE None
       ELSE IF known
       THEN Const(fold_constants(i, [k \in DOMAIN i.args |-> c(k).v],
                                    [k \in DOMAIN i.args |-> widthOf[i.args[k]]]))
       ELSE IF Len(i.args) # 2 THEN None
       ELSE IF away # {} THEN Copy(i.args[3 - CHOOSE k \in away : TRUE])
       ELSE IF sinks # {} THEN Const(c(CHOOSE k \in sinks : TRUE).v)
       ELSE IF ~same(1, 2) THEN None
       ELSE CASE i.op \in {"sub", "ne", "lt"} -> Const(0)
              [] i.op = "eq" -> Const(1)
              [] OTHER -> None

\* One instruction of the forward pass: acc has the replacements, the widths
\* and the instructions so far.
forward_instr(acc, instr) ==
    LET i == [instr EXCEPT !.args = [k \in DOMAIN @ |-> canon(acc.repl, @[k])]]
        r == IF i.op = "lit" THEN Const(i.p) ELSE try_fold(i, acc.repl, acc.widthOf)
        out == IF r.is = "const" THEN In(i.dst, "lit", i.w, <<>>, r.v) ELSE i
    IN [repl |-> IF r = None THEN acc.repl ELSE (i.dst :> r) @@ acc.repl,
        widthOf |-> (i.dst :> i.w) @@ acc.widthOf,
        out |-> Append(acc.out, out)]

forward_packet(acc, pk) ==
    LET f == FoldLeft(forward_instr, [repl |-> acc.repl, widthOf |-> acc.widthOf, out |-> <<>>], pk.instrs)
        effects == [k \in DOMAIN pk.effects |-> [pk.effects[k] EXCEPT !.value = canon(f.repl, @)]]
    IN [repl |-> f.repl, widthOf |-> f.widthOf, block |-> Append(acc.block, Packet(f.out, effects))]

\* Values an effect needs, found from the last instruction to the first.
live_values(b) ==
    FoldRight(LAMBDA i, live : IF i.dst \in live THEN live \cup ToSet(i.args) ELSE live,
              AllInstrs(b), {AllEffects(b)[k].value : k \in DOMAIN AllEffects(b)})

Keep(b, ids) == [k \in DOMAIN b |-> [b[k] EXCEPT !.instrs = SelectSeq(@, LAMBDA i : i.dst \in ids)]]

Renumber(b, remap) ==
    [k \in DOMAIN b |->
       Packet([n \in DOMAIN b[k].instrs |->
                 [b[k].instrs[n] EXCEPT !.dst = remap[@], !.args = [a \in DOMAIN @ |-> remap[@[a]]]]],
              [n \in DOMAIN b[k].effects |-> [b[k].effects[n] EXCEPT !.value = remap[@]]])]

compact(b) ==
    LET order == AllInstrs(b)
    IN Renumber(b, [v \in Ids(b) |-> (CHOOSE k \in DOMAIN order : order[k].dst = v) - 1])

specialize_block(b) ==
    LET f == FoldLeft(forward_packet, [repl |-> <<>>, widthOf |-> <<>>, block |-> <<>>], b).block
    IN compact(Keep(f, live_values(f)))

\* Reads of frozen signals become literals.
freeze_signals_program(b, frozen) ==
    specialize_block(
      [k \in DOMAIN b |->
         [b[k] EXCEPT !.instrs =
            [n \in DOMAIN @ |->
               IF @[n].op = "signal" /\ @[n].p \in DOMAIN frozen
               THEN In(@[n].dst, "lit", @[n].w, <<>>, Fit(frozen[@[n].p], @[n].w))
               ELSE @[n]]]])
------------------------------------------------------------------------------
(* Priority mux chains become balanced trees of (hit, value) pairs.        *)

Uses(b, v) ==
    LET is == AllInstrs(b)
        es == AllEffects(b)
    IN Cardinality({<<k, a>> \in (DOMAIN is) \X (1..3) : a \in DOMAIN is[k].args /\ is[k].args[a] = v})
       + Cardinality({k \in DOMAIN es : es[k].value = v})

ElseUses(b, v) == Cardinality({i \in ToSet(AllInstrs(b)) : i.op = "mux" /\ i.args[3] = v})

is_link(b, v) == v \in Ids(b) /\ Def(b)[v].op = "mux" /\ Uses(b, v) = 1 /\ ElseUses(b, v) = 1

\* The muxes of the chain from v down its else spine.
RECURSIVE Spine(_, _)
Spine(b, v) == LET below == Def(b)[v].args[3]
               IN <<v>> \o (IF is_link(b, below) THEN Spine(b, below) ELSE <<>>)

Heads(b) == {v \in Ids(b) : /\ Def(b)[v].op = "mux" /\ ~is_link(b, v) /\ is_link(b, Def(b)[v].args[3])
                            /\ Len(Spine(b, v)) >= MinChain}

\* One level of the tree: neighbours are joined, an odd pair carries up.
RECURSIVE combine(_, _, _, _)
combine(level, id, w, tree) ==
    IF Len(level) = 1 THEN [tree |-> tree, root |-> level[1], next |-> id]
    ELSE LET pairs == Len(level) \div 2
             join(n) == LET l == level[2 * n - 1]
                            r == level[2 * n]
                        IN << In(id + 2 * n - 2, "or", 1, <<l[1], r[1]>>, 0),
                              In(id + 2 * n - 1, "mux", w, <<l[1], l[2], r[2]>>, 0) >>
             up == [n \in 1..pairs |-> <<id + 2 * n - 2, id + 2 * n - 1>>]
         IN combine(IF Len(level) % 2 = 1 THEN Append(up, level[Len(level)]) ELSE up,
                    id + 2 * pairs, w, tree \o FlattenSeq([n \in 1..pairs |-> join(n)]))

\* The head's tree, and the head choosing between it and the chain's base.
rebuild_head(b, head, id) ==
    LET spine == Spine(b, head)
        level == [n \in DOMAIN spine |-> <<Def(b)[spine[n]].args[1], Def(b)[spine[n]].args[2]>>]
        c == combine(level, id, Def(b)[head].w, <<>>)
        base == Def(b)[spine[Len(spine)]].args[3]
    IN [instrs |-> Append(c.tree, In(head, "mux", Def(b)[head].w, <<c.root[1], c.root[2], base>>, 0)),
        dead |-> {spine[n] : n \in 2..Len(spine)}, next |-> c.next]

RECURSIVE rebuild_heads(_, _, _)
rebuild_heads(b, heads, id) ==
    IF heads = {} THEN <<>>
    ELSE LET head == CHOOSE h \in heads : TRUE
             r == rebuild_head(b, head, id)
         IN (head :> r) @@ rebuild_heads(b, heads \ {head}, r.next)

rebalance_block(b) ==
    LET trees == rebuild_heads(b, Heads(b), Fresh(b))
        dead == UNION {trees[h].dead : h \in DOMAIN trees}
        splice(i) == IF i.dst \in dead THEN <<>> ELSE IF i.dst \in DOMAIN trees THEN trees[i.dst].instrs ELSE <<i>>
    IN specialize_block(
         [k \in DOMAIN b |-> [b[k] EXCEPT !.instrs = FlattenSeq([n \in DOMAIN @ |-> splice(@[n])])]])
------------------------------------------------------------------------------
(* Value slots are reused once their value is dead.  A slot is held to the *)
(* end of the packet that last reads it, whose effects run last.           *)

last_use(b, v) ==
    Max({k \in DOMAIN b : \/ \E i \in ToSet(b[k].instrs) : i.dst = v \/ v \in ToSet(i.args)
                           \/ \E e \in ToSet(b[k].effects) : e.value = v})

\* slots of values still needed in packet k
held(b, remap, k) == {remap[v] : v \in {u \in DOMAIN remap : last_use(b, u) >= k}}

assign_slot(b, remap, k, v) ==
    LET used == held(b, remap, k)
    IN (v :> CHOOSE s \in 0..Cardinality(used) : s \notin used) @@ remap

allocate_block_slots(b) ==
    Renumber(b, FoldLeft(LAMBDA remap, k : FoldLeft(LAMBDA m, i : assign_slot(b, m, k, i.dst), remap, b[k].instrs),
                         <<>>, [k \in DOMAIN b |-> k]))
------------------------------------------------------------------------------
(* Range analysis: the low bits of each value that can be nonzero.         *)

BitLen(v) == CHOOSE n \in 0..16 : v < 2^n /\ (n = 0 \/ v >= 2^(n - 1))
Smaller(a, b) == IF a < b THEN a ELSE b
Larger(a, b) == IF a > b THEN a ELSE b

maxbits(i, m, aw) ==
    Smaller(i.w,
      CASE i.op = "lit" -> BitLen(i.p)
        [] i.op = "and" -> Smaller(m[1], m[2])
        [] i.op \in {"or", "xor"} -> Larger(m[1], m[2])
        [] i.op = "mux" -> Larger(m[2], m[3])
        [] i.op = "add" -> Larger(m[1], m[2]) + 1
        [] i.op = "mul" -> m[1] + m[2]
        [] i.op \in {"eq", "ne", "lt"} -> 1
        [] i.op = "slice" -> Larger(m[1] - i.p, 0)
        [] i.op \in {"zext", "cast", "trunc"} -> m[1]
        [] i.op = "sext" -> IF m[1] < aw[1] THEN m[1] ELSE i.w
        [] OTHER -> i.w)

block_maxbits(b) ==
    FoldLeft(LAMBDA m, i : (i.dst :> maxbits(i, [k \in DOMAIN i.args |-> m[i.args[k]]],
                                               [k \in DOMAIN i.args |-> Def(b)[i.args[k]].w])) @@ m,
             <<>>, AllInstrs(b))
------------------------------------------------------------------------------
(* Decode flags: registers that hold their value or load a function of one *)
(* key signal.  The functions of a group are read from one table.          *)

Bits(i) == {i.p + n : n \in 0..(i.w - 1)}

\* (signal, bit) pairs the cone of v reads; a memory read has no finite support.
RECURSIVE cone_support(_, _)
cone_support(def, v) ==
    LET i == def[v]
        inner == def[i.args[1]]
    IN CASE i.op = "lit" -> {}
         [] i.op = "signal" -> {<<i.p, n>> : n \in 0..(i.w - 1)}
         [] i.op \in {"memread", "rom"} -> {<<"memory", 0>>}
         [] i.op = "slice" /\ inner.op = "signal" -> {<<inner.p, n>> : n \in Bits(i)}
         [] OTHER -> UNION {cone_support(def, a) : a \in ToSet(i.args)}

\* The value of a cone for a value of its key, as the table's evaluator has
\* it: a signed comparison does not extend its operands.
RECURSIVE eval_cone(_, _, _, _)
eval_cone(def, v, keySignal, key) ==
    LET i == def[v]
        x == [k \in DOMAIN i.args |-> eval_cone(def, i.args[k], keySignal, key)]
        aw == [k \in DOMAIN i.args |-> def[i.args[k]].w]
    IN CASE i.op = "lit" -> i.p
         [] i.op = "signal" -> IF i.p = keySignal THEN key ELSE 0
         [] i.op = "lt" -> Flag(x[1] < x[2])
         [] i.op = "mux" -> IF x[1] # 0 THEN x[2] ELSE x[3]
         [] OTHER -> Reference(I(i.op, i.w, aw, i.p), x)

\* the flags of a block: capture effects of a hold mux over a one-signal cone
decode_flags(b) ==
    LET def == Def(b)
        flag(e) == LET m == def[e.value]
                   IN [reg |-> e.s, mux |-> e.value, then |-> m.args[2], w |-> def[m.args[2]].w,
                       support |-> cone_support(def, m.args[2])]
        holdsItself(e) == LET m == def[e.value] IN m.op = "mux" /\ def[m.args[3]].op = "signal" /\ def[m.args[3]].p = e.s
        oneSignal(f) == Cardinality({s[1] : s \in f.support}) = 1 /\ <<"memory", 0>> \notin f.support
        candidates == SelectSeq(AllEffects(b), LAMBDA e : e.kind = "capture" /\ holdsItself(e))
    IN SelectSeq([k \in DOMAIN candidates |-> flag(candidates[k])], oneSignal)

key_of(f) == CHOOSE s \in {x[1] : x \in f.support} : TRUE
joint_bits(fs) == UNION {fs[k].support : k \in DOMAIN fs}

\* While the key is too wide, drop the flag with the most bits of its own.
RECURSIVE fit_key(_, _)
fit_key(fs, keyMax) ==
    LET unique(k) == Cardinality(fs[k].support \ UNION {fs[j].support : j \in DOMAIN fs \ {k}})
        worst == CHOOSE k \in DOMAIN fs : /\ \A j \in DOMAIN fs : unique(j) <= unique(k)
                                          /\ \A j \in 1..(k - 1) : unique(j) < unique(k)
    IN IF Cardinality(joint_bits(fs)) <= keyMax \/ Len(fs) <= 2 \/ unique(worst) = 0 THEN fs
       ELSE fit_key(Remove(fs, fs[worst]), keyMax)

\* A group with the most flags; among equals, any (a hash map's order).
Groups(fs) == {SelectSeq(fs, LAMBDA f : key_of(f) = s) : s \in {key_of(fs[k]) : k \in DOMAIN fs}}
LargestGroups(fs) == {g \in Groups(fs) : \A h \in Groups(fs) : Len(h) <= Len(g)}

Offset(fs, j) == MapThenSumSet(LAMBDA k : fs[k].w, 1..(j - 1))

\* Key bits from low to high.
SortedBits(fs) == SetToSortSeq({x[2] : x \in joint_bits(fs)}, <)

\* The row of the table at an address, whose bit n is key bit bits[n + 1].
rom_row(b, fs, bits, addr) ==
    LET key == MapThenSumSet(LAMBDA n : BitOf(addr, n - 1) * 2^bits[n], DOMAIN bits)
        v == [j \in DOMAIN fs |-> eval_cone(Def(b), fs[j].then, key_of(fs[1]), key)]
    IN MapThenSumSet(LAMBDA j : v[j] * 2^Offset(fs, j), DOMAIN fs)

\* The packet that packs the address, reads the row and slices it.
prelude(b, fs, bits) ==
    LET id == Fresh(b)
        n == Len(bits)
        key == key_of(fs[1])
        width == Offset(fs, Len(fs) + 1)
        rom == [a \in 0..(2^n - 1) |-> rom_row(b, fs, bits, a)]
        \* a two-operand concatenation at a time, high bits first
        addr == [k \in 2..n |-> In(id + n + k - 1, "concat", k,
                                   <<id + k, IF k = 2 THEN id + 1 ELSE id + n + k - 2>>, 0)]
        addrId == IF n = 1 THEN id + 1 ELSE id + 2 * n - 1
    IN << In(id, "signal", SignalWidth[key], <<>>, key) >>
       \o [k \in 1..n |-> In(id + k, "slice", 1, <<id>>, bits[k])]
       \o [k \in 1..(n - 1) |-> addr[k + 1]]
       \o << In(id + 2 * n, "rom", width, <<addrId>>, rom) >>
       \o [j \in DOMAIN fs |-> In(id + 2 * n + j, "slice", fs[j].w, <<id + 2 * n>>, Offset(fs, j))]

\* The block with the group's flags read from the table.
rewrite_flags(b, fs) ==
    LET bits == SortedBits(fs)
        first == Fresh(b) + 2 * Len(bits)
        slot(m) == first + CHOOSE j \in DOMAIN fs : fs[j].mux = m
        muxes == {fs[j].mux : j \in DOMAIN fs}
        load(i) == IF i.dst \in muxes THEN [i EXCEPT !.args[2] = slot(i.dst)] ELSE i
        rewritten == [k \in DOMAIN b |-> [b[k] EXCEPT !.instrs = [n \in DOMAIN @ |-> load(@[n])]]]
    IN specialize_block(<<Packet(prelude(b, fs, bits), <<>>)>> \o rewritten)

\* The results of tabulating with a key of at most keyMax bits: the block
\* itself when no group of two flags fits.
tabulate_decode_program(b, keyMax) ==
    LET flags == decode_flags(b)
        outcome(g) == LET fs == fit_key(g, keyMax)
                      IN IF Len(fs) < 2 \/ Cardinality(joint_bits(fs)) > keyMax THEN b ELSE rewrite_flags(b, fs)
    IN IF flags = <<>> THEN {b} ELSE {outcome(g) : g \in LargestGroups(flags)}
------------------------------------------------------------------------------
PassesInit == source \in Programs /\ current = source /\ applied = <<>> /\ holds = <<>>

\* Slot allocation gives up single assignment: it comes last.
MayRun == Len(applied) < MaxPasses /\ "slots" \notin ToSet(applied)

Ran(pass, b) == MayRun /\ current' = b /\ applied' = Append(applied, pass) /\ UNCHANGED source

Specialize == Ran("specialize", specialize_block(current)) /\ UNCHANGED holds
Rebalance == Ran("rebalance", rebalance_block(current)) /\ UNCHANGED holds
AllocateSlots == Ran("slots", allocate_block_slots(current)) /\ UNCHANGED holds
Tabulate == MayRun /\ \E k \in KeyMaxes : \E b \in tabulate_decode_program(current, k) :
                          Ran("tabulate", b) /\ UNCHANGED holds
Freeze == \E f \in Frozen : /\ holds = <<>>
                            /\ Ran("freeze", freeze_signals_program(current, f))
                            /\ holds' = f

PassesNext == Specialize \/ Rebalance \/ AllocateSlots \/ Tabulate \/ Freeze

\* A signed comparison in a decode cone is the one the table gets wrong.
TabulatesSigned ==
    /\ "tabulate" \in ToSet(applied)
    /\ \E i \in ToSet(AllInstrs(source)) : i.op = "lt" /\ i.p = 1

(***************************************************************************)
(* Whatever passes a block went through, it stores and captures what the   *)
(* lowered block did, in every state in which the frozen signals have the  *)
(* profiled values; and no value of the block has a nonzero bit above the  *)
(* range found for it.                                                     *)
(***************************************************************************)
PassesSound ==
    \A signals \in States :
      (\A s \in DOMAIN holds : signals[s] = holds[s]) =>
        /\ ~TabulatesSigned => Outcome(current, signals) = Outcome(source, signals)
        /\ applied = <<>> => LET m == block_maxbits(current)
                                 slots == RunBlock(current, signals).slots
                             IN \A v \in Ids(current) : slots[v].v < 2^m[v]
==============================================================================
