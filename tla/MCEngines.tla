------------------------------ MODULE MCEngines ------------------------------
(***************************************************************************)
(* What is computed between two ticks, in two parts of one instance: one   *)
(* instruction on every engine, or one expression on the scalar simulator. *)
(*                                                                         *)
(* LimbBits is 2 for 32, and the word sizes of the single-lane engine are  *)
(* in the code's proportions: a word one limb, a usize two, the widest     *)
(* value four.                                                             *)
(***************************************************************************)
EXTENDS LimbEngine, TLC

VARIABLES part,                              \* what this behaviour is about
          instr, args, engine, result,       \* result is -1 until the engine ran
          expr, ops

instrVars == <<instr, args, engine, result>>
exprVars == <<expr, ops>>
vars == <<part, instr, args, engine, result, expr, ops>>

\* A word is four bits, so that a width can fill it; the kernels' word is eight.
J == INSTANCE CodegenEngines WITH WordBits <- 4, WideBits <- 8, ElemBits <- {2, 4, 8}

G == INSTANCE CodegenEngines WITH WordBits <- 8, WideBits <- 16, ElemBits <- {8}
------------------------------------------------------------------------------
(* Expressions: leaves of both signednesses, and a literal that does not   *)
(* fit its type.                                                           *)

ExprLeaves ==
    {[op |-> "signal", name |-> n] : n \in {"a", "b", "s", "t", "c"}}
    \cup {[op |-> "lit", value |-> -1, ty |-> [width |-> 2, signed |-> TRUE]],
          [op |-> "lit", value |-> 2, ty |-> [width |-> 2, signed |-> FALSE]],
          [op |-> "lit", value |-> 2, ty |-> [width |-> 2, signed |-> TRUE]]}

E == INSTANCE CoreExpr WITH MaxOps <- 2, Widths <- {1, 2, 3}, Leaves <- ExprLeaves, MemWords <- <<2, 1>>
------------------------------------------------------------------------------
IdleInstr == instr = I("not", 1, <<1>>, 0) /\ args = <<0>> /\ engine = "" /\ result = -1
IdleExpr == expr = [op |-> "signal", name |-> "a"] /\ ops = 0

EnginesInit ==
    \/ /\ part = "instr"
       /\ instr \in Instrs /\ args \in Operands(instr) /\ engine = "" /\ result = -1
       /\ IdleExpr
    \/ part = "expr" /\ E!Init /\ IdleInstr

Engines == {"limb", "simd", "simd remainder", "single lane", "bit slice", "jit", "jit tree",
            "vector jit", "bit parallel jit", "aot", "kernel", "shader"}

Accepts(e) ==
    CASE e = "single lane" -> validate_single_lane_widths(instr)
      [] e = "bit slice" -> instr.op \in BitSliceOps
      [] e \in {"jit", "jit tree", "aot"} -> J!JitAccepts(instr)
      [] e = "vector jit" -> J!VecBits(instr) # {}
      [] e = "bit parallel jit" -> J!BpAccepts(instr)
      [] e = "kernel" -> G!KernelAccepts(instr)
      [] OTHER -> TRUE

\* What operand k may have become in a type of ty bits.
Operand(k, ty) == J!Emitted(args[k], instr.aw[k], ty)

\* The operands as code before the instruction may have left them, in types of
\* t[k] bits.
Inputs(t) ==
    CASE Len(args) = 1 -> {<<x>> : x \in Operand(1, t[1])}
      [] Len(args) = 2 -> {<<x, y>> : x \in Operand(1, t[1]), y \in Operand(2, t[2])}
      [] Len(args) = 3 -> {<<x, y, z>> : x \in Operand(1, t[1]), y \in Operand(2, t[2]), z \in Operand(3, t[3])}

Types == [k \in DOMAIN args |-> J!val_ty(instr.aw[k])]

Values(e) ==
    CASE e = "limb" -> {LimbEval(instr, args)}
      [] e = "simd" -> {SimdEval(instr, args, TRUE)}
      [] e = "simd remainder" -> {SimdEval(instr, args, FALSE)}
      [] e = "single lane" -> {eval_compiled_single_lane_op(instr, args)}
      [] e = "bit slice" -> {BitSliceEval(instr, args)}
      [] e = "jit" -> {J!JitEval(instr, o) : o \in Inputs(Types)}
      [] e = "jit tree" -> {J!emit_expr(instr, args)}
      [] e = "vector jit" ->
             UNION {{J!VecEval(instr, o, b) : o \in Inputs([k \in DOMAIN args |-> b])} : b \in J!VecBits(instr)}
      [] e = "bit parallel jit" -> {Fit(J!emit_bp_instr(instr, o), 1) : o \in Inputs(Types)}
      [] e = "aot" -> {J!AotEval(instr, args)}
      [] e = "kernel" -> {G!KernelEval(instr, args)}
      [] e = "shader" -> {ShaderEval(instr, args)}

\* Engine e runs the instruction.
Execute(e) ==
    /\ part = "instr" /\ result = -1 /\ Accepts(e)
    /\ engine' = e
    /\ result' \in Values(e)
    /\ UNCHANGED <<part, instr, args, expr, ops>>

GrowExpression == part = "expr" /\ E!Next /\ UNCHANGED <<part, instr, args, engine, result>>

EnginesNext == (\E e \in Engines : Execute(e)) \/ GrowExpression

EnginesSpec == EnginesInit /\ [][EnginesNext]_vars
------------------------------------------------------------------------------
\* The single-lane engine and the JIT's trees cut an address to a word before
\* they check it.
WideAddress == engine \in {"single lane", "jit tree"} /\ instr.op = "memread" /\ args[1] >= 2^UsizeBits

\* A shader's comparison and product of values wider than a limb.
LowestLimbOnly == engine = "shader" /\ ShaderWide(instr)

(***************************************************************************)
(* Every engine computes what an instruction means: the limb engine with   *)
(* its carries and partial top limbs, the SIMD engine by whichever path a  *)
(* lane takes, the single-lane engine's word and wide operations, and the  *)
(* bit planes.  Only a memory address wider than a usize is read           *)
(* differently, by the single-lane engine, and only the shader compares    *)
(* and multiplies values of several limbs differently.                     *)
(***************************************************************************)
EnginesExact == result # -1 /\ ~WideAddress /\ ~LowestLimbOnly => result = Reference(instr, args)

(***************************************************************************)
(* The value the scalar simulator stores for an accepted expression is the *)
(* one its type describes, as long as no operator that reads a whole word  *)
(* is applied to a result that may exceed its width (eval_expr masks where *)
(* a value is stored).                                                     *)
(***************************************************************************)
ExpressionsExact == part = "expr" => E!ExactUnlessSpillRead
==============================================================================
