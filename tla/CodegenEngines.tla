--------------------------- MODULE CodegenEngines ---------------------------
(***************************************************************************)
(* One instruction of the machine IR as the code generators emit it: the   *)
(* Cranelift JIT (jit.rs), its expression trees and vectors, the C of the  *)
(* AOT backend (aot.rs) and the GPU kernels (gpu_codegen.rs).              *)
(*                                                                         *)
(* The JIT masks lazily.  An emitted value is a pair: v, a number of the   *)
(* machine type the value lives in, and clean, what the generator believes *)
(* about it: a clean value has nothing above its width.  An operand with   *)
(* anything above its width, and believed dirty, stands for whatever       *)
(* instructions came before, so one instruction at a time covers whole     *)
(* programs.                                                               *)
(***************************************************************************)
EXTENDS MachineInstr

CONSTANTS WordBits,  \* bits of the small machine type, 64 in the code
          WideBits,  \* bits of the large one, 128 in the code
          ElemBits   \* bits of a vector element: 8, 16 or 32

MaxOf(x, y) == IF x > y THEN x ELSE y

\* Operands of width aw a generator may meet in a type of ty bits, meaning a.
Emitted(a, aw, ty) ==
    {[v |-> a, clean |-> TRUE]}
    \cup {[v |-> a + 2^aw * g, clean |-> FALSE] : g \in {0, 1, 2^(ty - aw) - 1} \ {2^(ty - aw)}}

\* an integer operation of the machine on T-bit values
Machine(op, x, T) ==
    CASE op = "not" -> 2^T - 1 - x[1]
      [] op = "and" -> x[1] & x[2]
      [] op = "or"  -> x[1] | x[2]
      [] op = "xor" -> x[1] ^^ x[2]
      [] op = "add" -> Fit(x[1] + x[2], T)
      [] op = "sub" -> Fit(x[1] - x[2], T)
      [] op = "mul" -> Fit(x[1] * x[2], T)

Compare(i, x, y) == Flag(CASE i.op = "eq" -> x = y [] i.op = "ne" -> x # y [] i.op = "lt" -> x < y)

\* the address is clamped to the memory, and what it read dropped if it was out
Loaded(addr, w) ==
    LET entry == IF addr < MemDepth THEN addr ELSE MemDepth - 1
    IN  IF addr < MemDepth THEN MemWord(entry, w) ELSE 0
-----------------------------------------------------------------------------
(* The JIT, instruction by instruction.                                    *)

val_ty(w) == IF w <= WordBits THEN WordBits ELSE WideBits

\* zero-extended into a larger type, cut by a smaller one
promote(v, from, to) == IF val_ty(from) <= val_ty(to) THEN v ELSE Fit(v, val_ty(to))

mask_to(v, w) == Fit(v, w)

sign_extend_bits(v, from, bits) ==
    IF from >= bits THEN v ELSE Fit(Signed(Fit(v, from), from), bits)

sign_extend_to(v, from, to) == sign_extend_bits(promote(v, from, to), from, val_ty(to))

\* Mutant: a dirty operand as wide as the result is trusted by every reader.
operand_lazier(o, ow, tw, strict) ==
    promote(IF ~o.clean /\ ow < tw THEN mask_to(o.v, ow) ELSE o.v, ow, tw)

\* masked only where what is above the width could get into the result
operand(o, ow, tw, strict) ==
    promote(IF ~o.clean /\ (strict \/ ow < tw) THEN mask_to(o.v, ow) ELSE o.v, ow, tw)

clean_to(o, ow, tw) == o.clean /\ ow <= tw

Emit(v, clean) == [v |-> v, clean |-> clean]

Concatenated(i, o, T) ==
    Fit(mask_to(o[1].v, i.aw[1]) * 2^i.aw[2], T) | mask_to(o[2].v, i.aw[2])

\* Mutant: a slice of a clean value is clean wherever it ends.
emit_slice_clean(i, o) ==
    Emit(promote(o[1].v \div 2^i.p, i.aw[1], i.w), o[1].clean)

\* the shift leaves the bits above the slice in place
emit_slice(i, o) ==
    Emit(promote(o[1].v \div 2^i.p, i.aw[1], i.w), o[1].clean /\ i.p + i.w >= i.aw[1])

emit_compare(i, o) ==
    LET cw == MaxOf(i.aw[1], i.aw[2])
    IN  IF i.op = "lt" /\ i.p = 1
        THEN Emit(Compare(i, Signed(sign_extend_to(o[1].v, i.aw[1], cw), val_ty(cw)),
                             Signed(sign_extend_to(o[2].v, i.aw[2], cw), val_ty(cw))), TRUE)
        ELSE Emit(Compare(i, operand(o[1], i.aw[1], cw, TRUE), operand(o[2], i.aw[2], cw, TRUE)), TRUE)

emit_mux(i, o) ==
    Emit(IF o[1].v % 2 = 1 THEN operand(o[2], i.aw[2], i.w, FALSE) ELSE operand(o[3], i.aw[3], i.w, FALSE),
         clean_to(o[2], i.aw[2], i.w) /\ clean_to(o[3], i.aw[3], i.w))

emit_instr(i, o) ==
    CASE i.op \in {"not", "add", "sub", "mul"} ->
             Emit(Machine(i.op, [k \in DOMAIN o |-> operand(o[k], i.aw[k], i.w, FALSE)], val_ty(i.w)), FALSE)
      [] i.op \in {"and", "or", "xor"} ->
             Emit(Machine(i.op, [k \in DOMAIN o |-> operand(o[k], i.aw[k], i.w, FALSE)], val_ty(i.w)),
                  \A k \in DOMAIN o : clean_to(o[k], i.aw[k], i.w))
      [] i.op \in {"eq", "ne", "lt"} -> emit_compare(i, o)
      [] i.op = "mux"     -> emit_mux(i, o)
      [] i.op = "slice"   -> emit_slice(i, o)
      [] i.op = "zext"    -> Emit(operand(o[1], i.aw[1], i.w, TRUE), TRUE)
      [] i.op = "trunc"   -> Emit(operand(o[1], i.aw[1], i.w, FALSE), FALSE)
      [] i.op = "cast"    -> Emit(operand(o[1], i.aw[1], i.w, FALSE), clean_to(o[1], i.aw[1], i.w))
      [] i.op = "sext"    -> Emit(sign_extend_to(o[1].v, i.aw[1], i.w), FALSE)
      [] i.op = "concat"  -> Emit(Concatenated(i, o, val_ty(i.w)), TRUE)
      [] i.op = "memread" -> Emit(Loaded(operand(o[1], i.aw[1], i.aw[1], TRUE), i.w), TRUE)

\* what reaches the state of a signal
store_value(e, w, dst) ==
    IF e.clean /\ w <= dst THEN promote(e.v, w, dst) ELSE mask_to(promote(e.v, w, dst), dst)

JitEval(i, o) == store_value(emit_instr(i, o), i.w, i.w)

\* signals up to the large type; a wider value in between is not refused
JitAccepts(i) == \A k \in DOMAIN i.aw : i.aw[k] <= WideBits /\ i.w <= WideBits
-----------------------------------------------------------------------------
(* The JIT's expression trees (activity mode) mask every result, so        *)
(* operands fit.  An address is taken as a word.                           *)

Operand(i, a, k, tw) == promote(a[k], i.aw[k], tw)

TreeCompare(i, a) ==
    LET cw == MaxOf(i.aw[1], i.aw[2])
    IN  IF i.op = "lt" /\ i.p = 1
        THEN Compare(i, Signed(sign_extend_to(a[1], i.aw[1], cw), val_ty(cw)),
                        Signed(sign_extend_to(a[2], i.aw[2], cw), val_ty(cw)))
        ELSE Compare(i, Operand(i, a, 1, cw), Operand(i, a, 2, cw))

TreeShape(i, a) ==
    CASE i.op \in BinOps \cup {"not"} ->
             Machine(i.op, [k \in DOMAIN a |-> Operand(i, a, k, i.w)], val_ty(i.w))
      [] i.op \in {"eq", "ne", "lt"} -> TreeCompare(i, a)
      [] i.op = "mux"     -> IF a[1] % 2 = 1 THEN Operand(i, a, 2, i.w) ELSE Operand(i, a, 3, i.w)
      [] i.op = "slice"   -> promote(a[1] \div 2^i.p, i.aw[1], i.w)
      [] i.op \in {"zext", "trunc", "cast"} -> Operand(i, a, 1, i.w)
      [] i.op = "sext"    -> sign_extend_to(a[1], i.aw[1], i.w)
      [] i.op = "concat"  -> Concatenated(i, [k \in DOMAIN a |-> Emit(a[k], TRUE)], val_ty(i.w))
      [] i.op = "memread" -> Loaded(promote(a[1], i.aw[1], WordBits), i.w)

emit_expr(i, a) == mask_to(TreeShape(i, a), i.w)
-----------------------------------------------------------------------------
(* The vector JIT: every value is one element of a vector, the element     *)
(* type chosen by the widest signal of the design.                         *)

\* the smallest element for the widest signal; wider designs are refused
for_max_width(maxw) ==
    CHOOSE bits \in ElemBits : bits >= maxw /\ \A b \in ElemBits : b >= maxw => bits <= b

vmask_to(v, w, bits) == IF w >= bits THEN v ELSE Fit(v, w)

vsign_extend(v, w, bits) == sign_extend_bits(v, w, bits)

varith(o, ew, w, bits) ==
    Emit(IF ~o.clean /\ ew < w THEN vmask_to(o.v, ew, bits) ELSE o.v,
         w >= bits \/ ew < w \/ (ew = w /\ o.clean))

vstrict(o, ew, bits) == IF o.clean THEN o.v ELSE vmask_to(o.v, ew, bits)

vec_compare(i, o, bits) ==
    IF i.op = "lt" /\ i.p = 1
    THEN Compare(i, Signed(vsign_extend(o[1].v, i.aw[1], bits), bits),
                    Signed(vsign_extend(o[2].v, i.aw[2], bits), bits))
    ELSE Compare(i, vstrict(o[1], i.aw[1], bits), vstrict(o[2], i.aw[2], bits))

\* x: the operands as arithmetic takes them
vec_arith(i, x, bits) ==
    Emit(Machine(i.op, [k \in DOMAIN x |-> x[k].v], bits),
         \/ i.w >= bits
         \/ i.op = "and" /\ \E k \in DOMAIN x : x[k].clean
         \/ i.op \in {"or", "xor"} /\ \A k \in DOMAIN x : x[k].clean)

\* the condition is compared with zero as a whole
vec_mux(i, o, t, e, bits) ==
    Emit(IF vstrict(o[1], i.aw[1], bits) # 0 THEN t.v ELSE e.v, i.w >= bits \/ (t.clean /\ e.clean))

vec_slice(i, o, bits) ==
    Emit(o[1].v \div 2^i.p, i.w >= bits \/ (o[1].clean /\ i.p + i.w >= i.aw[1]))

vec_concat(i, o, bits) ==
    Fit(vmask_to(o[1].v, i.aw[1], bits) * 2^i.aw[2], bits) | vmask_to(o[2].v, i.aw[2], bits)

emit_vec_expr(i, o, bits) ==
    CASE i.op \in BinOps \cup {"not"} ->
             vec_arith(i, [k \in DOMAIN o |-> varith(o[k], i.aw[k], i.w, bits)], bits)
      [] i.op \in {"eq", "ne", "lt"} -> Emit(vec_compare(i, o, bits), TRUE)
      [] i.op = "mux"     -> vec_mux(i, o, varith(o[2], i.aw[2], i.w, bits), varith(o[3], i.aw[3], i.w, bits), bits)
      [] i.op = "slice"   -> vec_slice(i, o, bits)
      [] i.op = "zext"    -> Emit(vstrict(o[1], i.aw[1], bits), TRUE)
      [] i.op = "trunc"   -> Emit(o[1].v, i.w >= bits)
      [] i.op = "cast"    -> o[1]
      [] i.op = "sext"    -> Emit(vsign_extend(o[1].v, i.aw[1], bits), i.w >= bits)
      [] i.op = "concat"  -> Emit(vec_concat(i, o, bits), TRUE)
      [] i.op = "memread" -> Emit(Loaded(vstrict(o[1], i.aw[1], bits), i.w), TRUE)

vstore_value(e, ew, dst, bits) ==
    CASE ew > dst              -> vmask_to(e.v, dst, bits)
      [] ew <= dst /\ ~e.clean -> vmask_to(e.v, ew, bits)
      [] OTHER                 -> e.v

VecEval(i, o, bits) == vstore_value(emit_vec_expr(i, o, bits), i.w, i.w, bits)

\* The elements fit the signals; an expression wider than every signal is
\* computed in them all the same, and is left out.
VecBits(i) == {for_max_width(maxw) : maxw \in {b \in ElemBits : i.w <= b /\ \A k \in DOMAIN i.aw : i.aw[k] <= b}}
-----------------------------------------------------------------------------
(* Gate-level designs, a lane in each bit of a vector.  The bits above the *)
(* first stand for the other lanes.                                        *)

emit_bp_instr(i, o) ==
    IF i.op = "mux"
    THEN (o[1].v & o[2].v) | (Machine("not", <<o[1].v>>, WordBits) & o[3].v)
    ELSE Machine(i.op, [k \in DOMAIN o |-> o[k].v], WordBits)

BpAccepts(i) ==
    i.op \in {"not", "and", "or", "xor", "mux"} /\ i.w = 1 /\ \A k \in DOMAIN i.aw : i.aw[k] = 1
-----------------------------------------------------------------------------
(* The C of the AOT backend and the kernels of the GPU backend: operands   *)
(* fit, every result is computed in a C type and masked.                   *)

\* Mutant: a shift counted in the operand's width.
sext_c_narrow(v, f, bits) == Signed(Fit(v * 2^(bits - f), bits), bits) \div 2^f

sext_c(v, f, bits) == Signed(Fit(v * 2^(bits - f), bits), bits) \div 2^(bits - f)

\* T: the type of the result; the comparison happens in the wider operand's
instr_rhs(i, a, T) ==
    CASE i.op \in BinOps \cup {"not"} -> Machine(i.op, [k \in DOMAIN a |-> Fit(a[k], T)], T)
      [] i.op \in {"eq", "ne"} -> Compare(i, a[1], a[2])
      [] i.op = "lt" ->
             LET cw == val_ty(MaxOf(i.aw[1], i.aw[2]))
             IN  IF i.p = 1 THEN Compare(i, sext_c(a[1], i.aw[1], cw), sext_c(a[2], i.aw[2], cw))
                 ELSE Compare(i, a[1], a[2])
      [] i.op = "mux"     -> Fit(IF a[1] % 2 = 1 THEN a[2] ELSE a[3], T)
      [] i.op = "slice"   -> Fit(a[1] \div 2^i.p, T)
      [] i.op \in {"zext", "trunc", "cast"} -> Fit(a[1], T)
      [] i.op = "sext"    -> Fit(sext_c(a[1], i.aw[1], T), T)
      [] i.op = "concat"  -> Fit(Fit(a[1], i.aw[1]) * 2^i.aw[2], T) | Fit(a[2], i.aw[2])
      [] i.op = "memread" -> IF a[1] < MemDepth THEN MemWord(a[1], i.w) ELSE 0

AotEval(i, a) == Fit(instr_rhs(i, a, val_ty(i.w)), i.w)

AotAccepts(i) == JitAccepts(i)

\* one type, of a word; wider designs are refused
KernelEval(i, a) == Fit(instr_rhs(i, a, WordBits), i.w)

KernelAccepts(i) == i.w <= WordBits /\ \A k \in DOMAIN i.aw : i.aw[k] <= WordBits
=============================================================================
