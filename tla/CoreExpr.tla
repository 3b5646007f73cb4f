------------------------------ MODULE CoreExpr ------------------------------
(***************************************************************************)
(* Expressions of rrtl-core: the typing rules a design is validated with   *)
(* (expr_type) and what the scalar simulator, the reference of every other *)
(* engine, computes for them (eval_expr).  The simulator works on u128     *)
(* words and masks a value where it is stored, not where it is computed;   *)
(* Meaning is the value of the bit vector the type describes.              *)
(*                                                                         *)
(* A behaviour builds one expression, operator by operator.  A word has    *)
(* OracleBits bits here, more than any expression of the instance needs.     *)
(***************************************************************************)
EXTENDS Integers, Sequences, FiniteSets, Bitwise

CONSTANTS MaxOps,     \* bound: operators in an expression
          Widths,     \* widths named by zext, sext, trunc and slice
          Leaves,     \* the leaf expressions of the instance
          MemWords    \* the words of the one memory (width 2, address 1 bit)

VARIABLES expr, ops

vars == <<expr, ops>>

OracleBits == 12

Word == 2 ^ OracleBits

None == [width |-> 0, signed |-> FALSE]

uint(w) == [width |-> w, signed |-> FALSE]

sint(w) == [width |-> w, signed |-> TRUE]

\* The signals of the instance.
SignalType == [a |-> uint(2), b |-> uint(2), s |-> sint(2), t |-> sint(2), c |-> uint(1)]

Envs == [a : 0..3, b : {1, 3}, s : 0..3, t : {0, 3}, c : 0..1]

MemType == uint(2)

MemAddrWidth == 1

-----------------------------------------------------------------------------
(* Typing: each result is the type (None if there is none) and whether a   *)
(* diagnostic was reported anywhere below.                                 *)

Typed(ty, ok) == [ty |-> ty, ok |-> ok]

fits_type(v, ty) ==
    /\ ty.width > 0
    /\ \/ ty.width >= 128
       \/ IF ty.signed THEN v >= -(2 ^ (ty.width - 1)) /\ v <= 2 ^ (ty.width - 1) - 1
          ELSE v >= 0 /\ v < 2 ^ ty.width

\* same_type and same_numeric_type differ only in the code they report.
same_type(l, r) ==
    IF l.ty # None /\ r.ty # None /\ l.ty = r.ty THEN Typed(l.ty, l.ok /\ r.ok)
    ELSE Typed(None, FALSE)

validate_extend_width(in, width) ==
    in.ok /\ width > 0 /\ (in.ty # None => width >= in.ty.width)

RECURSIVE expr_type(_)
expr_type(e) ==
    CASE e.op = "lit" -> IF e.ty.width = 0 THEN Typed(None, FALSE)
                         ELSE Typed(e.ty, fits_type(e.value, e.ty))
      [] e.op = "signal" -> Typed(SignalType[e.name], TRUE)
      [] e.op = "not" -> expr_type(e.x)
      [] e.op \in {"and", "or", "xor", "add", "sub", "mul"} ->
            same_type(expr_type(e.x), expr_type(e.y))
      [] e.op \in {"eq", "ne", "lt"} ->
            Typed(uint(1), same_type(expr_type(e.x), expr_type(e.y)).ok)
      [] e.op = "mux" ->
            LET branches == same_type(expr_type(e.x), expr_type(e.y))
            IN Typed(branches.ty, branches.ok /\ expr_type(e.cond) = Typed(uint(1), TRUE))
      [] e.op = "slice" ->
            LET in == expr_type(e.x)
            IN IF e.width = 0 THEN Typed(None, FALSE)
               ELSE Typed(uint(e.width), in.ok /\ (in.ty # None => e.lsb + e.width <= in.ty.width))
      [] e.op = "zext" -> Typed(uint(e.width), validate_extend_width(expr_type(e.x), e.width))
      [] e.op = "sext" -> Typed(sint(e.width), validate_extend_width(expr_type(e.x), e.width))
      [] e.op = "trunc" ->
            LET in == expr_type(e.x)
            IN IF e.width = 0 \/ in.ty = None THEN Typed(None, FALSE)
               ELSE Typed([in.ty EXCEPT !.width = e.width], in.ok /\ e.width <= in.ty.width)
      [] e.op = "cast" ->
            LET in == expr_type(e.x)
            IN IF in.ty = None THEN in ELSE Typed([in.ty EXCEPT !.signed = e.signed], in.ok)
      [] e.op = "concat" ->
            LET x == expr_type(e.x) y == expr_type(e.y)
            IN Typed(uint(x.ty.width + y.ty.width), x.ok /\ y.ok)
      [] e.op = "memread" ->
            Typed(MemType, expr_type(e.x) = Typed(uint(MemAddrWidth), TRUE))

-----------------------------------------------------------------------------
(* The scalar simulator.                                                   *)

mask(v, width) == v % (2 ^ width)

encode_value(v, ty) == mask(v, ty.width)

signed_value(v, width) ==
    LET m == mask(v, width)
    IN IF width = 0 THEN 0 ELSE IF m < 2 ^ (width - 1) THEN m ELSE m - 2 ^ width

Bool(b) == IF b THEN 1 ELSE 0

\* Mutant: every comparison is unsigned.
CompareLt_unsigned(l, r, ty) == Bool(l < r)

\* Lt looks at the type of its left operand.
CompareLt(l, r, ty) ==
    IF ty.signed THEN Bool(signed_value(l, ty.width) < signed_value(r, ty.width)) ELSE Bool(l < r)

RECURSIVE eval_expr(_, _)
eval_expr(e, env) ==
    CASE e.op = "lit" -> encode_value(e.value, e.ty)
      [] e.op = "signal" -> env[e.name]
      [] e.op = "not" -> Word - 1 - eval_expr(e.x, env)
      [] e.op = "and" -> eval_expr(e.x, env) & eval_expr(e.y, env)
      [] e.op = "or" -> eval_expr(e.x, env) | eval_expr(e.y, env)
      [] e.op = "xor" -> eval_expr(e.x, env) ^^ eval_expr(e.y, env)
      [] e.op = "add" -> (eval_expr(e.x, env) + eval_expr(e.y, env)) % Word
      [] e.op = "sub" -> (eval_expr(e.x, env) - eval_expr(e.y, env)) % Word
      [] e.op = "mul" -> (eval_expr(e.x, env) * eval_expr(e.y, env)) % Word
      [] e.op = "eq" -> Bool(eval_expr(e.x, env) = eval_expr(e.y, env))
      [] e.op = "ne" -> Bool(eval_expr(e.x, env) # eval_expr(e.y, env))
      [] e.op = "lt" -> CompareLt(eval_expr(e.x, env), eval_expr(e.y, env), expr_type(e.x).ty)
      [] e.op = "mux" -> IF eval_expr(e.cond, env) # 0 THEN eval_expr(e.x, env) ELSE eval_expr(e.y, env)
      [] e.op = "slice" -> mask(eval_expr(e.x, env) \div (2 ^ e.lsb), e.width)
      [] e.op \in {"zext", "trunc"} -> mask(eval_expr(e.x, env), e.width)
      [] e.op = "sext" ->
            encode_value(signed_value(eval_expr(e.x, env), expr_type(e.x).ty.width), sint(e.width))
      [] e.op = "cast" -> eval_expr(e.x, env)
      [] e.op = "concat" -> eval_expr(e.y, env)
                            | ((eval_expr(e.x, env) * (2 ^ expr_type(e.y).ty.width)) % Word)
      [] e.op = "memread" ->
            LET at == eval_expr(e.x, env) IN IF at < Len(MemWords) THEN MemWords[at + 1] ELSE 0

-----------------------------------------------------------------------------
(* What the expression means: at every node, the bits its type has.        *)

RECURSIVE Meaning(_, _)
Meaning(e, env) ==
    LET ty == expr_type(e).ty
        x == Meaning(e.x, env)
        y == Meaning(e.y, env)
        xt == expr_type(e.x).ty
    IN mask(CASE e.op = "lit" -> e.value
              [] e.op = "signal" -> env[e.name]
              [] e.op = "not" -> -1 - x
              [] e.op = "and" -> x & y
              [] e.op = "or" -> x | y
              [] e.op = "xor" -> x ^^ y
              [] e.op = "add" -> x + y
              [] e.op = "sub" -> x - y
              [] e.op = "mul" -> x * y
              [] e.op = "eq" -> Bool(x = y)
              [] e.op = "ne" -> Bool(x # y)
              [] e.op = "lt" -> IF xt.signed THEN Bool(signed_value(x, xt.width) < signed_value(y, xt.width))
                                ELSE Bool(x < y)
              [] e.op = "mux" -> IF Meaning(e.cond, env) # 0 THEN x ELSE y
              [] e.op = "slice" -> x \div (2 ^ e.lsb)
              [] e.op \in {"zext", "trunc", "cast"} -> x
              [] e.op = "sext" -> signed_value(x, xt.width)
              [] e.op = "concat" -> x * (2 ^ expr_type(e.y).ty.width) + y
              [] e.op = "memread" -> IF x < Len(MemWords) THEN MemWords[x + 1] ELSE 0,
            ty.width)

-----------------------------------------------------------------------------
(* Building an expression.                                                 *)

Init == expr \in Leaves /\ ops = 0

Grow(e) == ops < MaxOps /\ expr' = e /\ ops' = ops + 1

Unary ==
    \/ Grow([op |-> "not", x |-> expr])
    \/ \E k \in {"zext", "sext", "trunc"} : \E w \in Widths : Grow([op |-> k, x |-> expr, width |-> w])
    \/ \E sg \in BOOLEAN : Grow([op |-> "cast", x |-> expr, signed |-> sg])
    \/ \E w \in Widths : \E l \in 0..2 : Grow([op |-> "slice", x |-> expr, lsb |-> l, width |-> w])
    \/ Grow([op |-> "memread", x |-> expr])

Binary ==
    \E k \in {"and", "or", "xor", "add", "sub", "mul", "eq", "ne", "lt", "concat"} :
    \E l \in Leaves : \/ Grow([op |-> k, x |-> expr, y |-> l])
                      \/ Grow([op |-> k, x |-> l, y |-> expr])

MuxOf ==
    \E l \in Leaves : \E m \in Leaves :
        \/ Grow([op |-> "mux", cond |-> expr, x |-> l, y |-> m])
        \/ Grow([op |-> "mux", cond |-> l, x |-> expr, y |-> m])

\* Only expressions the validator accepts are grown further.
Next == expr_type(expr).ok /\ (Unary \/ Binary \/ MuxOf)

Spec == Init /\ [][Next]_vars

-----------------------------------------------------------------------------
\* Whether the word computed for an expression may have bits above its width.
RECURSIVE Spills(_)
Spills(e) ==
    CASE e.op \in {"not", "add", "sub", "mul"} -> TRUE
      [] e.op \in {"and", "or", "xor", "mux"} -> Spills(e.x) \/ Spills(e.y)
      [] e.op = "cast" -> Spills(e.x)
      [] e.op = "concat" -> Spills(e.x) \/ Spills(e.y)
      [] OTHER -> FALSE

\* Whether an operator that reads the whole word is applied to such a word.
RECURSIVE ReadsSpill(_)
ReadsSpill(e) ==
    CASE e.op \in {"lit", "signal"} -> FALSE
      [] e.op \in {"eq", "ne"} -> Spills(e.x) \/ Spills(e.y) \/ ReadsSpill(e.x) \/ ReadsSpill(e.y)
      [] e.op = "lt" -> (~expr_type(e.x).ty.signed /\ (Spills(e.x) \/ Spills(e.y)))
                        \/ ReadsSpill(e.x) \/ ReadsSpill(e.y)
      [] e.op = "concat" -> Spills(e.y) \/ ReadsSpill(e.x) \/ ReadsSpill(e.y)
      [] e.op \in {"zext", "memread"} -> Spills(e.x) \/ ReadsSpill(e.x)
      [] e.op = "mux" -> Spills(e.cond) \/ ReadsSpill(e.cond) \/ ReadsSpill(e.x) \/ ReadsSpill(e.y)
      [] e.op \in {"not", "sext", "trunc", "slice", "cast"} -> ReadsSpill(e.x)
      [] OTHER -> ReadsSpill(e.x) \/ ReadsSpill(e.y)

Exact(e) == \A env \in Envs : mask(eval_expr(e, env), expr_type(e).ty.width) = Meaning(e, env)

\* The value the scalar simulator stores for an accepted expression is the one
\* its bit-vector type describes, as long as no operator that reads a whole word
\* (a comparison, an extension, a mux condition, an address, the low part of a
\* concatenation) is applied to a result that may exceed its width.
ExactUnlessSpillRead == expr_type(expr).ok /\ ~ReadsSpill(expr) => Exact(expr)
=============================================================================
