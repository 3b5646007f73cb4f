---------------------------- MODULE MCSimulators -----------------------------
(* Model-checking instance of the simulators: families of small designs,   *)
(* for each engine those it is meant for.                                  *)
EXTENDS PartitionedSimulator

E(op, a, b) == [op |-> op, a |-> a, b |-> b]

A(dst, op, a, b) == [dst |-> dst, e |-> E(op, a, b)]

R(sig, kind, low, value) == [sig |-> sig, kind |-> kind, low |-> low, value |-> value]

D(assign, child, next, reset, clockQ, writes) ==
    [assign |-> assign, child |-> child, next |-> next, reset |-> reset,
     clock |-> [s \in Regs |-> IF s = "q" THEN clockQ ELSE "c1"], writes |-> writes]

Holds(s) == E("copy", s, s)

RegPair(r, q) == [s \in Regs |-> CASE s = "r" -> r [] s = "q" -> q [] OTHER -> Holds(s)]

ResetPair(r, q) == [s \in Regs |-> CASE s = "r" -> r [] s = "q" -> q [] OTHER -> NoReset]

Port(clk) == [clk |-> clk, en |-> "x", data |-> "r"]

PortQ(clk) == [clk |-> clk, en |-> "b", data |-> "q"]

\* two wires, one reading the other, declared in either order
TwoLevels == UNION {{<<wa, wb>>, <<wb, wa>>} :
                      wa \in {A("a", "not", "x", "x"), A("a", "copy", "r", "r"), A("a", "and", "r", "x")},
                      wb \in {A("b", "copy", "a", "a"), A("b", "and", "a", "q")}}

OneLevel == {<<A("a", "and", "r", "x"), A("b", "not", "q", "q")>>,
             <<A("b", "copy", "x", "x"), A("a", "not", "r", "r")>>}

Nexts == {RegPair(E("copy", "b", "b"), E("copy", "r", "r")),
          RegPair(E("not", "r", "r"), E("and", "b", "m")),
          RegPair(E("not", "q", "q"), E("copy", "a", "a")),
          RegPair(E("not", "q", "q"), E("copy", "b", "b"))}

SyncResets == {ResetPair(R("rst", "sync", FALSE, 1), NoReset), ResetPair(NoReset, R("rst", "sync", TRUE, 1))}

AsyncResets == {ResetPair(R("rst", "async", FALSE, 0), NoReset),
                ResetPair(R("rst", "async", TRUE, 1), NoReset)}

DerivedResets == {ResetPair(R("q", "async", FALSE, 0), NoReset), ResetPair(R("a", "async", FALSE, 1), NoReset)}

EngineFamily(assigns, resets, clocksQ, writes) ==
    {D(a, NoChild, n, r, c, w) : a \in assigns, n \in Nexts, r \in resets, c \in clocksQ, w \in writes}

\* an instance between the wires: one path through it, or two in a row
OnePath == [assign |-> <<A("co1", "not", "ci1", "ci1")>>,
            ins |-> << <<"ci1", "x">> >>, outs |-> << <<"a", "co1">> >>]

TwoPaths == [assign |-> <<A("co2", "copy", "ci2", "ci2"), A("co1", "not", "ci1", "ci1")>>,
             ins |-> << <<"ci1", "x">>, <<"ci2", "a">> >>, outs |-> << <<"a", "co1">>, <<"b", "co2">> >>]

Hierarchy(child, assigns) ==
    {D(a, child, n, ResetPair(NoReset, NoReset), "c1", <<>>) : a \in assigns, n \in Nexts}

SyncDesigns == EngineFamily(TwoLevels, SyncResets, {"c1", "c2"},
                      {<<>>, <<Port("c1")>>, <<Port("c2"), PortQ("c2")>>})

GateDesigns == EngineFamily(TwoLevels, SyncResets, {"c1"}, {<<>>})

GateOneLevel == EngineFamily(OneLevel, SyncResets, {"c1"}, {<<>>})

AsyncDesigns == EngineFamily(TwoLevels, AsyncResets, {"c1"}, {<<>>})

DerivedDesigns == EngineFamily({<<A("b", "copy", "r", "r"), A("a", "not", "x", "x")>>}, DerivedResets, {"c1"}, {<<>>})

TwoClockMemory == EngineFamily(OneLevel, {ResetPair(NoReset, NoReset)}, {"c2"}, {<<Port("c1"), PortQ("c2")>>})

ThroughInstance == Hierarchy(OnePath, {<<A("b", "and", "a", "r")>>, <<A("b", "copy", "a", "a")>>})

TwiceThroughInstance == Hierarchy(TwoPaths, {<<>>})

\* For PartitionedSimulator: Top holds x, rst, p, a, t, b, m; Top.u1 holds ci1,
\* co1, w1, r; Top.u1.u2 holds ci2, co2, q.
U1 == <<"Top", "u1">>

U2 == <<"Top", "u1", "u2">>

SignalOrder == <<"x", "rst", "a", "t", "b", "p", "ci1", "co1", "w1", "r", "ci2", "co2", "q", "m">>

SignalPath == [s \in Signals |-> CASE s \in {"ci1", "co1", "w1", "r"} -> U1
                                   [] s \in {"ci2", "co2", "q"}       -> U2
                                   [] OTHER                           -> Top]

W(dst, e) == [dst |-> dst, e |-> e]

C(dst, src) == W(dst, E("copy", src, src))

Sync(sig) == [sig |-> sig, kind |-> "sync", low |-> FALSE, value |-> 1]

\* declared with every reader before what it reads
Design(a, ci1, co1, ci2, co2, b, p, r, q, rst, writes) ==
    [assign |-> <<W("b", b), C("t", "co1"), W("co1", co1), C("w1", "co2"), W("co2", co2),
                  C("ci2", ci2), C("ci1", ci1), W("a", a)>>,
     child |-> NoChild,
     next |-> [s \in Regs |-> CASE s = "p" -> p [] s = "r" -> r [] s = "q" -> q],
     reset |-> [s \in Regs |-> IF s = "p" THEN rst ELSE NoReset],
     clock |-> [s \in Regs |-> "c1"],
     writes |-> writes]

Write(en, data) == <<[clk |-> "c1", en |-> en, data |-> data]>>

Family(ci1s, co1s, ci2s, ps, rsts, writes) ==
    {Design(a, ci1, co1, ci2, co2, b, p, r, q, rst, w) :
        a \in {E("and", "x", "p")},
        ci1 \in ci1s, co1 \in co1s, ci2 \in ci2s,
        co2 \in {E("copy", "q", "q"), E("not", "ci2", "ci2")},
        b \in {E("and", "t", "a")},
        p \in ps,
        r \in {E("copy", "ci1", "ci1"), E("not", "w1", "w1")},
        q \in {E("copy", "ci2", "ci2")},
        rst \in rsts, w \in writes}

CopyR == {E("copy", "r", "r")}

Through == {E("and", "ci1", "w1")}

PNext == {E("copy", "t", "t"), E("not", "p", "p")}

NoMemory == Family({"p", "a"}, CopyR \cup Through, {"ci1", "r"}, PNext, {NoReset}, {<<>>})

WireReset == Family({"p"}, CopyR, {"r"}, {E("copy", "t", "t")}, {Sync("a"), Sync("b")}, {<<>>})

WithMemory == Family({"x", "p"}, Through, {"ci1"}, {E("copy", "m", "m")}, {NoReset}, {Write("x", "p")})

PartitionDesigns == NoMemory \cup WireReset \cup WithMemory

Calls == {"eval", "tick"}

ByInstance == [how |-> "paths", groups |-> <<{Top}, {U1}>>, calls |-> Calls]

Cones(calls) == {[how |-> "cones", n |-> n, calls |-> calls] : n \in 2..3}

Observing ==
    {[how |-> "observe", signals |-> o, calls |-> Calls] : o \in {{"b"}, {"p"}, {"t", "m"}}}

\* Between two tick_activity calls nothing but inputs is touched.
MCStrategies == {ByInstance} \cup Cones(Calls) \cup Observing \cup Cones({"activity"})

\* For the compiled simulators: a chain of wires in either order of declaration,
\* and outputs that copy or invert a register, an input or a wire.
Chains == {<<A("b", "and", "a", "q"), A("a", "not", "x", "x")>>,
           <<A("a", "and", "r", "x"), A("b", "copy", "a", "a")>>}

Aliases == {<<A("a", "not", "x", "x"), b>> : b \in {A("b", "copy", "r", "r"), A("b", "not", "r", "r"),
                                                    A("b", "copy", "x", "x")}}

ResetR == {ResetPair(R("rst", "sync", FALSE, 1), NoReset)}

TwoClocks == EngineFamily(Chains, ResetR, {"c2"}, {<<Port("c1")>>, <<Port("c2"), PortQ("c2")>>})

Resetting == EngineFamily(Aliases, AsyncResets, {"c1"}, {<<>>})

OnePort == EngineFamily(Chains, ResetR, {"c1"}, {<<Port("c1")>>})

NoPort == EngineFamily(Chains, ResetR, {"c1"}, {<<>>})

\* What each engine is run on.  Left out, because the engines do not agree there:
\* asynchronous resets (all but the scalar simulator, the JIT, the AOT simulator
\* and the kernels), resets driven by wires (all but the scalar simulator),
\* memories written from two clocks (packed), wires that read wires (bit slice),
\* and paths twice through one instance (scalar).
MCDesignsOf(e) ==
    CASE e = "scalar"       -> SyncDesigns \cup AsyncDesigns \cup DerivedDesigns
                               \cup TwoClockMemory \cup ThroughInstance
      [] e = "packed"       -> SyncDesigns \cup ThroughInstance \cup TwiceThroughInstance
      [] e = "bit slice"    -> GateOneLevel
      [] e = "shader"       -> OnePort \cup Resetting \cup DerivedDesigns \cup TwiceThroughInstance
      [] e = "partitioned"  -> PartitionDesigns
      [] e \in {"jit", "aot"} -> TwoClocks \cup Resetting \cup TwiceThroughInstance
      [] e \in {"jit activity", "kernel"} -> OnePort \cup Resetting
      [] e = "vector jit"   -> OnePort
      [] e \in {"bit parallel jit", "jit buffers"} -> NoPort
      [] OTHER              -> GateDesigns

\* Asynchronous resets that are active high.
AsyncDesignsOf(e) == {d \in AsyncDesigns : ~d.reset["r"].low}

NoStrategies == {}

NotPartitioned == built = <<>> /\ snap = <<>>

NotCompiled == dirty = {} /\ cones = <<>> /\ back = <<>>

MCInit ==
    \/ TickInit /\ NotPartitioned /\ NotCompiled
    \/ PartitionInit /\ NotCompiled
    \/ JitInit /\ NotPartitioned

EngineStep == engine \in Engines /\ TickNext /\ UNCHANGED <<built, snap, jitVars>>

PartitionStep == engine = "partitioned" /\ PartitionNext /\ UNCHANGED jitVars

CompiledStep == engine \in CompiledEngines /\ CompiledNext /\ UNCHANGED <<built, snap>>

MCSpec == MCInit /\ [][EngineStep \/ PartitionStep \/ CompiledStep]_<<vars, jitVars>>

(* The scalar and packed simulators, the bit-level engines and the         *)
(* compiled simulators: what an engine shows after it has evaluated is     *)
(* what the design means.                                                  *)
SimulatorsAgree == /\ engine \in Engines => EnginesAgree
                   /\ engine \in CompiledEngines => CompiledAgree

(* PartitionedSimulator: "Results are bit-identical to running the whole   *)
(* program in a single PackedSimulator", in every group.                   *)
PartitionsAgree == engine = "partitioned" => PartitionedSound
==============================================================================
