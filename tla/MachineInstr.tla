---------------------------- MODULE MachineInstr -----------------------------
(***************************************************************************)
(* One instruction of the packed machine IR (PackedInstrKind of            *)
(* rrtl-sim-ir) applied to operands, and what it must compute.  Every      *)
(* execution engine reads operands that fit their widths, and the operand  *)
(* widths of an instruction are those expr_type of rrtl-core accepts, so   *)
(* an engine that computes Reference for every such instruction and        *)
(* operand computes the design.                                            *)
(*                                                                         *)
(* An instruction is a record: op; w, the width of the result; aw, the     *)
(* widths of the operands; p, its parameter (lsb of a slice, signedness of *)
(* a comparison, literal, else 0).                                         *)
(***************************************************************************)
EXTENDS Integers, Sequences, FiniteSets, SequencesExt, Bitwise

CONSTANTS Widths,    \* widths of signals
          MemDepth,  \* words of the memory a MemRead looks at
          AddrWidth  \* width of its address, which may exceed the depth

Fit(v, w) == v % 2^w
Signed(v, w) == IF v >= 2^(w - 1) THEN v - 2^w ELSE v
BitOf(v, i) == (v \div 2^i) % 2
Flag(b) == IF b THEN 1 ELSE 0

I(op, w, aw, p) == [op |-> op, w |-> w, aw |-> aw, p |-> p]

BinOps == {"and", "or", "xor", "add", "sub", "mul"}
CmpOps == {"eq", "ne"}

MaxWidth == CHOOSE w \in Widths : \A v \in Widths : v <= w
\* contents of a memory of w-bit words
MemWord(addr, w) == (2^(w - 1) + 5 * addr + 1) % 2^w

\* the instructions expr_type accepts, over signals of the given widths
Instrs ==
    {I("not", w, <<w>>, 0) : w \in Widths}
    \cup {I(op, w, <<w, w>>, 0) : op \in BinOps, w \in Widths}
    \cup {I(op, 1, <<w, w>>, 0) : op \in CmpOps, w \in Widths}
    \cup {I("lt", 1, <<w, w>>, s) : w \in Widths, s \in 0..1}
    \cup {I("mux", w, <<1, w, w>>, 0) : w \in Widths}
    \cup UNION {{I("slice", w, <<a>>, lsb) : lsb \in 0..(a - w)} :
                  <<a, w>> \in {x \in Widths \X Widths : x[2] <= x[1]}}
    \cup UNION {{I(op, w, <<a>>, 0) : op \in {"zext", "sext"}} :
                  <<a, w>> \in {x \in Widths \X Widths : x[2] >= x[1]}}
    \cup {I("trunc", x[2], <<x[1]>>, 0) : x \in {x \in Widths \X Widths : x[2] <= x[1]}}
    \cup {I("cast", w, <<w>>, 0) : w \in Widths}
    \cup {I("concat", x[1] + x[2], <<x[1], x[2]>>, 0) : x \in Widths \X Widths}
    \cup {I("memread", w, <<AddrWidth>>, 0) : w \in Widths}

\* operands that fit their widths
Operands(i) == {a \in [DOMAIN i.aw -> 0..(2^MaxWidth - 1)] :
                  \A k \in DOMAIN i.aw : a[k] < 2^i.aw[k]}

(***************************************************************************)
(* What an instruction computes, in integer arithmetic.                    *)
(***************************************************************************)
Reference(i, a) ==
    CASE i.op = "not"  -> 2^i.w - 1 - a[1]
      [] i.op = "and"  -> a[1] & a[2]
      [] i.op = "or"   -> a[1] | a[2]
      [] i.op = "xor"  -> a[1] ^^ a[2]
      [] i.op = "add"  -> Fit(a[1] + a[2], i.w)
      [] i.op = "sub"  -> Fit(a[1] - a[2], i.w)
      [] i.op = "mul"  -> Fit(a[1] * a[2], i.w)
      [] i.op = "eq"   -> Flag(a[1] = a[2])
      [] i.op = "ne"   -> Flag(a[1] # a[2])
      [] i.op = "lt"   -> IF i.p = 1 THEN Flag(Signed(a[1], i.aw[1]) < Signed(a[2], i.aw[2]))
                                     ELSE Flag(a[1] < a[2])
      [] i.op = "mux"  -> IF a[1] = 1 THEN a[2] ELSE a[3]
      [] i.op = "slice" -> Fit(a[1] \div 2^i.p, i.w)
      [] i.op \in {"zext", "trunc", "cast"} -> Fit(a[1], i.w)
      [] i.op = "sext" -> Fit(Signed(a[1], i.aw[1]), i.w)
      [] i.op = "concat" -> a[1] * 2^i.aw[2] + a[2]
      [] i.op = "memread" -> IF a[1] < MemDepth THEN MemWord(a[1], i.w) ELSE 0
==============================================================================
