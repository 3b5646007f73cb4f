----------------------------- MODULE MCOptimizers -----------------------------
(***************************************************************************)
(* What rewrites a program before it runs, in three parts of one instance: *)
(* the lowering and the packet optimizer, the passes over a lowered block, *)
(* and the linear engine beside the general one.                           *)
(***************************************************************************)
EXTENDS MachineInstr, TLC

VARIABLES part,                              \* "schedule", "passes" or "hybrid"
          program, options, block, phase,
          source, current, applied, holds,
          design, original, held, exact, lin, gen, ticks, misled

scheduleVars == <<program, options, block, phase>>
passVars == <<source, current, applied, holds>>
hybridVars == <<design, original, held, exact, lin, gen, ticks, misled>>
------------------------------------------------------------------------------
(* Programs: two operations in one packet, or a packet whose results the   *)
(* next one reads.                                                         *)

Sig(s) == [op |-> "sig", s |-> s, args |-> <<>>]
Un(op, e) == [op |-> op, s |-> "", args |-> <<e>>]
Conj(e, f) == [op |-> "and", s |-> "", args |-> <<e, f>>]

Leaves == {Sig(s) : s \in {"x", "y"}}
Once == {Un(op, e) : op \in {"not", "mem"}, e \in Leaves} \cup {Conj(Sig("x"), Sig("y"))}
Nested == {Un("mem", Conj(Sig("x"), Un("not", Sig("y")))), Un("not", Un("mem", Sig("a")))}
Twice == Nested \cup {Conj(e, f) : e \in Once, f \in Once}

Ops(dst, es) == {[dst |-> dst, e |-> e] : e \in es}

SmallPrograms ==
    {<< <<o, p>> >> : o \in Ops("a", Twice), p \in Ops("b", Nested \cup {Conj(e, e) : e \in Once})}
    \cup {<< <<o>>, <<p, q>> >> :
            o \in Ops("a", Once \cup Leaves),
            p \in Ops("b", {Conj(Un("mem", Sig("a")), Un("mem", Sig("y"))), Sig("a")}),
            q \in Ops("c", {Conj(Un("mem", Sig("a")), Sig("x")), Un("not", Sig("a"))})}

Sigs == {"x", "y", "a", "b", "c"}

SomeStates == {v \in [Sigs -> 0..1] : v["b"] = 0 /\ v["c"] = 1}

P == INSTANCE MachineSchedule
       WITH Signals <- Sigs, Programs <- SmallPrograms, Widths <- {2, 1000}, ReadCaps <- {1, 1000},
            States <- SomeStates
------------------------------------------------------------------------------
(* Blocks handed to the passes.                                            *)

O(dst, op, w, arg, p) == [dst |-> dst, op |-> op, w |-> w, args |-> arg, p |-> p]
Eff(kind, s, v) == [kind |-> kind, s |-> s, value |-> v]
Pk(is, es) == [instrs |-> is, effects |-> es]

\* two packets of arithmetic on a signal and a literal
Arithmetic ==
    {<< Pk(<<O(0, "signal", 2, <<>>, "x"), O(1, "lit", 2, <<>>, c), O(2, a, 2, q, 0)>>, <<>>),
        Pk(<<O(3, b, 2, <<2, r>>, 0), O(4, "sext", 3, <<2>>, 0), O(5, "sext", 3, <<1>>, 0),
             O(6, t, 1, <<4, 5>>, 1), O(7, "mux", 2, <<6, 3, 0>>, 0)>>,
           <<Eff("store", "x", 3), Eff("capture", "x", 7)>>) >> :
       c \in {0, 1, 3}, a \in BinOps, q \in {<<0, 0>>, <<0, 1>>, <<1, 0>>, <<1, 1>>},
       b \in {"sub"}, r \in {0, 1}, t \in {"lt"}}

\* a chain of four muxes, one of whose links may have a second reader
Chains ==
    {<< Pk(<<O(0, "signal", 2, <<>>, "x"), O(1, "slice", 1, <<0>>, 0), O(2, "slice", 1, <<0>>, 1),
             O(3, "signal", 1, <<>>, "y")>>, <<>>),
        Pk(<<O(4, "lit", 2, <<>>, 1), O(5, "lit", 2, <<>>, 2), O(6, "not", 2, <<0>>, 0),
             O(7, "mux", 2, <<c[1], 4, 0>>, 0), O(8, "mux", 2, <<c[2], 5, 7>>, 0)>>,
           <<Eff("store", "y", 1)>>),
        Pk(<<O(9, "mux", 2, <<c[3], 6, 8>>, 0), O(10, "mux", 2, <<c[4], u, 9>>, 0)>>,
           <<Eff("capture", "x", 10)>>) >> :
       c \in {d \in [1..4 -> 1..3] : Cardinality({d[k] : k \in 1..4}) = 3}, u \in {4, 7, 8}}

\* flags that load a function of x, or of x and y, when y
Loads(id) == {O(id, "slice", 1, <<0>>, 1), O(id, "eq", 1, <<0, 2>>, 0), O(id, "and", 1, <<3, 1>>, 0),
              O(id, "not", 1, <<3>>, 0), O(id, "lt", 1, <<0, 2>>, 1)}

Decoders ==
    {<< Pk(<<O(0, "signal", 2, <<>>, "x"), O(1, "signal", 1, <<>>, "y"), O(2, "lit", 2, <<>>, 2),
             O(3, "slice", 1, <<0>>, 0), l, m>>, <<>>),
        Pk(<<O(6, "signal", 1, <<>>, "f"), O(7, "signal", 1, <<>>, "g"), O(8, "signal", 1, <<>>, "h"),
             O(9, "mux", 1, <<1, 4, 6>>, 0), O(10, "mux", 1, <<1, 5, 7>>, 0), O(11, "mux", 1, <<1, n, 8>>, 0)>>,
           <<Eff("capture", "f", 9), Eff("capture", "g", 10), Eff("capture", "h", 11)>>) >> :
       l \in Loads(4), m \in Loads(5), n \in {1, 3}}

BlockWidth == ("x" :> 2) @@ ("y" :> 1) @@ ("f" :> 1) @@ ("g" :> 1) @@ ("h" :> 1)

BlockStates ==
    {("x" :> x) @@ ("y" :> y) @@ ("f" :> b) @@ ("g" :> b) @@ ("h" :> b) : x \in 0..3, y \in 0..1, b \in 0..1}

PP == INSTANCE ProgramPasses
        WITH SignalWidth <- BlockWidth, Programs <- Arithmetic \cup Chains \cup Decoders, MinChain <- 3,
             KeyMaxes <- {1, 2}, Frozen <- {("y" :> 1), ("x" :> 2)}, States <- BlockStates, MaxPasses <- 2
------------------------------------------------------------------------------
(* Designs with registers a (2 bits), b (1) and n (2), an output o and the *)
(* inputs d, rst and v (5 bits).  The word of a leap has 4 bits: a and n   *)
(* fill it, a and b have room for the constant and not for the inputs, b   *)
(* has room for both, and v does not fit it.                               *)

T(op, w, arg, p) == [op |-> op, w |-> w, args |-> arg, p |-> p]
Sg(s, w) == T("signal", w, <<>>, s)
Lt(v, w) == T("lit", w, <<>>, v)
TA == Sg("a", 2)
TN == Sg("n", 2)
TD == Sg("d", 1)
Rot(e) == T("concat", 2, <<T("slice", 1, <<e>>, 0), T("slice", 1, <<e>>, 1)>>, 0)
NextA == {T("xor", 2, <<Rot(TA), T("sext", 2, <<TD>>, 0)>>, 0),
          T("not", 2, <<T("or", 2, <<TA, Lt(1, 2)>>, 0)>>, 0),
          T("mul", 2, <<T("zext", 2, <<TD>>, 0), Lt(2, 2)>>, 0),
          T("xor", 2, <<Sg("o", 2), T("and", 2, <<Lt(3, 2), TN>>, 0)>>, 0)}
TV(n) == T("slice", 1, <<Sg("v", 5)>>, n)
NextB == {T("xor", 1, <<Sg("b", 1), TD>>, 0), T("and", 1, <<Sg("b", 1), TD>>, 0),
          T("xor", 1, <<Sg("b", 1), T("xor", 1, <<TV(0), TV(4)>>, 0)>>, 0)}
NextN == {T("add", 2, <<TN, TA>>, 0), T("mul", 2, <<TN, Lt(3, 2)>>, 0),
          T("xor", 2, <<Rot(TN), T("sext", 2, <<TD>>, 0)>>, 0),
          T("mux", 2, <<T("or", 1, <<T("eq", 1, <<TN, Lt(0, 2)>>, 0), T("eq", 1, <<TN, Lt(1, 2)>>, 0)>>, 0), Lt(2, 2),
                       T("mux", 2, <<T("eq", 1, <<Lt(2, 2), TN>>, 0), Lt(3, 2), Lt(1, 2)>>, 0)>>, 0),
          T("mux", 2, <<TD, T("memread", 2, <<TN>>, 0), TN>>, 0)}
OutO == {T("cast", 2, <<TA>>, 0), T("xor", 2, <<TA, Rot(TN)>>, 0)}
\* no reset
NoR == [signal |-> "", low |-> FALSE, value |-> 0]
RstA == {NoR, [signal |-> "rst", low |-> FALSE, value |-> 1], [signal |-> "b", low |-> TRUE, value |-> 2]}
SomeDesigns ==
    {[wire |-> [o |-> x.o], next |-> [a |-> x.a, b |-> x.b, n |-> x.n], reset |-> [a |-> x.r, b |-> NoR, n |-> NoR]] :
        x \in {y \in [o : OutO, a : NextA, b : NextB, n : NextN, r : RstA] :
                 /\ y.r # NoR => y.b.op = "xor"
                 /\ y.b.args[2] # TD => y.n.op = "add" /\ y.o.op = "cast"}}

HY == INSTANCE LinearHybrid
        WITH Inputs <- {"d", "rst", "v"}, Wires <- {"o"}, Regs <- {"a", "b", "n"},
             SignalWidth <- [a |-> 2, b |-> 1, n |-> 2, d |-> 1, rst |-> 1, v |-> 5, o |-> 2],
             InputValues <- [d |-> 0..1, rst |-> 0..1, v |-> {0, 1, 16}], Designs <- SomeDesigns,
             WordBits <- 4, JitWidth <- 4, MinReduceWidth <- 1, MaxTerms <- 1, MaxLeap <- 3, MaxTicks <- 3
------------------------------------------------------------------------------
IdleSchedule == program = <<>> /\ options = <<>> /\ block = <<>> /\ phase = "packed"
IdlePasses == source = <<>> /\ current = <<>> /\ applied = <<>> /\ holds = <<>>
IdleHybrid == /\ design = <<>> /\ original = <<>> /\ held = <<>> /\ exact = <<>>
              /\ lin = <<>> /\ gen = <<>> /\ ticks = 0 /\ misled = FALSE

OptimizersInit ==
    \/ part = "schedule" /\ P!ScheduleInit /\ IdlePasses /\ IdleHybrid
    \/ part = "passes" /\ PP!PassesInit /\ IdleSchedule /\ IdleHybrid
    \/ part = "hybrid" /\ HY!HybridInit /\ IdleSchedule /\ IdlePasses

Compile == part = "schedule" /\ P!ScheduleNext /\ UNCHANGED <<part, passVars, hybridVars>>

Rewrite == part = "passes" /\ PP!PassesNext /\ UNCHANGED <<part, scheduleVars, hybridVars>>

Simulate == part = "hybrid" /\ HY!HybridNext /\ UNCHANGED <<part, scheduleVars, passVars>>

OptimizersNext == Compile \/ Rewrite \/ Simulate

OptimizersSpec == OptimizersInit /\ [][OptimizersNext]_<<part, scheduleVars, passVars, hybridVars>>
------------------------------------------------------------------------------
(***************************************************************************)
(* Lowering and the packet optimizer keep what a program stores, pass the  *)
(* verifier and keep the limits of a packet; and the passes over a lowered *)
(* block (folding, freezing, mux rebalancing, tabulation, slot reuse), one *)
(* after the other, keep what it stores and captures wherever the frozen   *)
(* signals hold their values.                                              *)
(***************************************************************************)
PacketsSound ==
    /\ part = "schedule" => P!ScheduleSound
    /\ part = "passes" => PP!PassesSound

(***************************************************************************)
(* HybridSimulator shows what the program means: every register and output *)
(* after any mix of ticks, changed inputs and leaps, coupled or not, with  *)
(* or without strength reduction, except after a leap that was over a      *)
(* reset; over a non-zero input where the state fills more than half a     *)
(* word or the inputs more than one; or over a constant where the state    *)
(* fills the word.                                                         *)
(***************************************************************************)
HybridExact == part = "hybrid" => HY!HybridExact
==============================================================================
