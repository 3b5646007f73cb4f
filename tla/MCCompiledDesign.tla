-------------------------- MODULE MCCompiledDesign --------------------------
(***************************************************************************)
(* Instances of DesignBuilder and ReadyValid for TLC: what ModuleBuilder   *)
(* offers.  A behaviour builds a design, from one whose declarations have  *)
(* been made and by up to MaxCalls further calls, or is one of ReadyValid. *)
(***************************************************************************)
EXTENDS DesignBuilder, ReadyValid

H(m, i) == [m |-> m, id |-> i]

N(a) == <<a>>

Sig(m, i) == [op |-> "sig", s |-> H(m, i)]

Lit(v, ty) == [op |-> "lit", value |-> v, ty |-> ty]

Mux(c, x, y) == [op |-> "mux", cond |-> c, x |-> x, y |-> y]

Decl(name, kind, ty) == [name |-> name, ty |-> ty, kind |-> [k |-> kind]]

DeclReg(name, ty, clk, nxt) ==
    [name |-> name, ty |-> ty, kind |-> [k |-> "Reg", clock |-> clk, reset |-> None, next |-> nxt]]

Bit == uint(1)

\* Upper case and every other character an underscore.
MCSvIdent(name) == IF name = <<"idle">> THEN <<"IDLE">> ELSE name

As(m, dst, e) == [op |-> "assign", m |-> m, dst |-> dst, expr |-> e]

Inst(m, name, module, conns) ==
    [op |-> "instance", m |-> m, name |-> N(name), module |-> N(module), conns |-> conns]

C(p, s) == [port |-> N(p), signal |-> s]

-----------------------------------------------------------------------------
(* Hierarchy: Leaf (1), Mid (2), Top (3), Ext (4).                         *)

LeafModule(assigns) ==
    [EmptyModule(1, N("Leaf"), FALSE) EXCEPT
        !.signals = <<Decl(N("i"), "Input", Bit), Decl(N("k"), "Input", Bit), Decl(N("o"), "Output", Bit),
                      Decl(N("p"), "Output", Bit), DeclReg(N("r"), Bit, H(1, 2), Sig(1, 1))>>,
        !.assigns = assigns]

Assigned(dst, e) == [dst |-> dst, expr |-> e]

LeafBodies ==
    {<<Assigned(H(1, 3), Sig(1, 1)), Assigned(H(1, 4), Sig(1, 5))>>,
     <<Assigned(H(1, 3), Mux(Sig(1, 2), Sig(1, 1), Sig(1, 3))), Assigned(H(1, 4), Sig(1, 5))>>,
     <<Assigned(H(1, 3), Sig(1, 5)), Assigned(H(1, 4), Mux(Sig(1, 1), Sig(1, 4), Sig(1, 5)))>>}

MidModule(assigns) ==
    [EmptyModule(2, N("Mid"), FALSE) EXCEPT
        !.signals = <<Decl(N("i"), "Input", Bit), Decl(N("o"), "Output", Bit), Decl(N("w"), "Wire", Bit)>>,
        !.assigns = assigns]

TopModule ==
    [EmptyModule(3, N("Top"), FALSE) EXCEPT
        !.signals = <<Decl(N("x"), "Input", Bit), Decl(N("y"), "Output", Bit), Decl(N("w"), "Wire", Bit),
                      Decl(N("z"), "Wire", Bit)>>]

ExtModule ==
    [EmptyModule(4, N("Ext"), TRUE) EXCEPT
        !.signals = <<Decl(N("a"), "Input", Bit), Decl(N("b"), "Output", Bit)>>]

TreeDesigns == {<<LeafModule(body), MidModule(mid), TopModule, ExtModule>> :
                  body \in LeafBodies, mid \in {<<>>, <<Assigned(H(2, 2), Sig(2, 3))>>}}

TreeCalls ==
    {As(2, H(2, 3), Sig(2, 1)), As(2, H(2, 2), Mux(Sig(2, 1), Sig(2, 3), Sig(2, 2))), As(2, H(1, 3), Sig(2, 1)),
     Inst(2, "u", "Leaf", <<C("i", H(2, 1)), C("k", H(2, 3)), C("o", H(2, 3)), C("p", H(2, 2))>>),
     Inst(2, "v", "Leaf", <<C("i", H(2, 1)), C("k", H(2, 1)), C("o", H(2, 3)), C("p", H(2, 2))>>),
     Inst(2, "v", "Ext", <<C("a", H(2, 1)), C("b", H(2, 3))>>),
     Inst(2, "m", "Mid", <<C("i", H(2, 1)), C("o", H(2, 3))>>),
     Inst(2, "t", "Top", <<C("x", H(2, 1)), C("y", H(2, 3))>>),
     Inst(3, "a", "Mid", <<C("i", H(3, 3)), C("o", H(3, 4))>>),
     Inst(3, "b", "Mid", <<C("i", H(3, 4)), C("o", H(3, 3))>>),
     Inst(3, "b", "Leaf", <<C("i", H(3, 4)), C("k", H(3, 1)), C("o", H(3, 3)), C("p", H(3, 2))>>),
     Inst(3, "c", "Leaf", <<C("i", H(3, 1)), C("k", H(3, 1)), C("o", H(3, 3)), C("o", H(3, 1))>>),
     As(3, H(3, 2), Sig(3, 4)), As(3, H(3, 4), [op |-> "not", x |-> Sig(3, 3)])}

-----------------------------------------------------------------------------
(* Aggregates: Child (1) and Parent (2).                                   *)

Field(n, ty) == [name |-> N(n), ty |-> ty]

Nested(n, t, fs) == [name |-> N(n), bundle |-> [name |-> N(t), fields |-> fs]]

Req == [name |-> N("Req"), fields |-> <<Field("a", Bit), Nested("n", "In", <<Field("b", uint(2))>>)>>]

ReqMore == [name |-> N("More"), fields |-> <<Field("a", Bit), Nested("n", "In", <<Field("b", uint(2))>>),
                                            Field("c", Bit)>>]

ReqOther == [name |-> N("Req"), fields |-> <<Field("a", uint(2)), Field("b", uint(2))>>]

Link(dir) == [name |-> N("Link"),
              ports |-> <<[name |-> N("v"), dir |-> dir, ty |-> Bit],
                          [name |-> N("q"), dir |-> "Input", bundle |-> Req]>>]

AggregateDesigns == {<<EmptyModule(1, N("Child"), FALSE), EmptyModule(2, N("Parent"), FALSE)>>}

AddBundle(m, n, t, k) == [op |-> "bundle", m |-> m, name |-> N(n), type |-> t, kind |-> [k |-> k]]

AggregateCalls ==
    {AddBundle(1, "req", Req, "Input"), AddBundle(2, "bus", Req, "Wire"), AddBundle(2, "big", ReqMore, "Wire"),
     AddBundle(2, "old", ReqOther, "Wire"),
     [op |-> "declare", m |-> 2, name |-> <<"bus", "a">>, ty |-> Bit, kind |-> [k |-> "Input"]],
     [op |-> "assign_bundle", m |-> 2, enable |-> None], [op |-> "assign_bundle", m |-> 2, enable |-> Sig(2, 1)],
     [op |-> "interface", m |-> 1, name |-> N("l"), type |-> Link("Input")],
     [op |-> "interface", m |-> 2, name |-> N("l"), type |-> Link("Input")],
     [op |-> "interface", m |-> 2, name |-> N("l"), type |-> Link("Output")],
     [op |-> "instance_bundles", m |-> 2, name |-> N("u"), module |-> N("Child"), port |-> N("req")],
     [op |-> "instance_bundles", m |-> 2, name |-> N("u"), module |-> N("Gone"), port |-> N("req")],
     [op |-> "instance_interfaces", m |-> 2, name |-> N("u"), module |-> N("Child"), port |-> N("l")],
     [op |-> "module", name |-> N("Child"), ext |-> TRUE]}

-----------------------------------------------------------------------------
(* State: one module with a clock, a register and a memory, beside another *)
(* module whose handles must not be used in it.                            *)

Plain ==
    [EmptyModule(1, N("M"), FALSE) EXCEPT
        !.signals = <<Decl(N("clk"), "Input", Bit), Decl(N("rst"), "Input", Bit),
                      DeclReg(N("r"), sint(2), None, None),
                      [name |-> N("m"), ty |-> sint(2), kind |-> [k |-> "Mem", addr_width |-> 1, depth |-> 2]]>>]

Clocked == [Plain EXCEPT !.signals[3].kind = [@ EXCEPT !.clock = H(1, 1), !.next = Sig(1, 3)]]

Other == [EmptyModule(2, N("Other"), FALSE) EXCEPT !.signals = <<Decl(N("clk"), "Input", Bit)>>]

StateDesigns == {<<Plain, Other>>, <<Clocked, Other>>}

Phase(w, v) == [name |-> N("Phase"), ty |-> uint(w),
                variants |-> <<[name |-> N("idle"), value |-> 0], [name |-> N("run"), value |-> v]>>]

Prop(n, clk, en, cond) == [name |-> N(n), clock |-> clk, enable |-> en, cond |-> cond]

StateCalls ==
    {[op |-> "clock", m |-> 1, reg |-> H(1, 3), clock |-> H(1, 1)],
     [op |-> "clock", m |-> 1, reg |-> H(1, 3), clock |-> H(2, 1)],
     [op |-> "clock", m |-> 2, reg |-> H(1, 3), clock |-> H(1, 1)],
     [op |-> "next", m |-> 1, reg |-> H(1, 3), expr |-> [op |-> "mem", mem |-> H(1, 4), x |-> Sig(1, 2)]],
     [op |-> "next", m |-> 1, reg |-> H(1, 3), expr |-> Sig(1, 1)],
     [op |-> "reset", m |-> 1, reg |-> H(1, 3), signal |-> H(1, 2), value |-> -2, how |-> "sync"],
     [op |-> "reset", m |-> 1, reg |-> H(1, 3), signal |-> H(1, 2), value |-> -1, how |-> "async_low"],
     [op |-> "reset", m |-> 1, reg |-> H(1, 1), signal |-> H(1, 2), value |-> 0, how |-> "sync"],
     [op |-> "mem_write", m |-> 1, write |-> [mem |-> H(1, 4), clock |-> H(1, 1), enable |-> Sig(1, 2),
                                              addr |-> Sig(1, 2), data |-> Sig(1, 3)]],
     [op |-> "mem_write", m |-> 1, write |-> [mem |-> H(1, 4), clock |-> H(2, 1), enable |-> Sig(1, 2),
                                              addr |-> Sig(1, 3), data |-> Sig(1, 3)]],
     [op |-> "assert", m |-> 1, prop |-> Prop("p", None, Sig(1, 2), Sig(1, 1))],
     [op |-> "assert", m |-> 1, prop |-> Prop("p", H(2, 1), None, Sig(1, 1))],
     [op |-> "cover", m |-> 1, prop |-> Prop("p", H(1, 1), None, Sig(1, 3))],
     [op |-> "cover", m |-> 1, prop |-> Prop("q", H(1, 1), Sig(2, 1), Sig(1, 1))]}
    \cup {[op |-> "initial", m |-> 1, init |-> [signal |-> H(1, 3), value |-> v]] : v \in {-2, 1, 3}}
    \cup {[op |-> "initial", m |-> 1, init |-> [signal |-> H(1, 1), value |-> 0]]}
    \cup {[op |-> "mem_init", m |-> 1, init |-> [mem |-> H(1, 4), addr |-> a, value |-> v]]
             : a \in {0, 2}, v \in {-1, 1}}
    \cup {[op |-> "state_reg", m |-> 1, name |-> N(n), type |-> Phase(2, v), clock |-> H(1, 1), reset |-> H(1, 2),
            variant |-> N("idle"), how |-> "sync"] : n \in {"s"}, v \in {2, 4}}
    \cup {[op |-> "state_reg", m |-> 1, name |-> N("t"), type |-> Phase(1, 1), clock |-> H(1, 1),
            reset |-> H(1, 2), variant |-> N("none"), how |-> "async"],
          [op |-> "state_next", m |-> 1, default |-> N("idle"), trans |-> <<[cond |-> Sig(1, 2), variant |-> N("run")]>>],
          [op |-> "state_next", m |-> 1, default |-> N("halt"), trans |-> <<>>],
          [op |-> "state_next_hold", m |-> 1, trans |-> <<[cond |-> Sig(1, 2), variant |-> N("run")]>>],
          [op |-> "state_next_hold", m |-> 2, trans |-> <<[cond |-> Sig(1, 2), variant |-> N("gone")]>>]}

-----------------------------------------------------------------------------
MCDesigns == TreeDesigns \cup AggregateDesigns \cup StateDesigns

\* The calls made on a design depend on what it is about.
MCCalls(d) == CASE d[1].name = N("Leaf") -> TreeCalls
                [] d[1].name = N("Child") -> AggregateCalls
                [] d[1].name = N("M") -> StateCalls

\* Bundles are declared on both sides before they are connected.
MCMaxCalls(d) == IF d[1].name = N("Child") THEN 4 ELSE 3

-----------------------------------------------------------------------------
(* Endpoints: scalars of three types; bundles with fields missing, extra,  *)
(* retyped, nested and in another order.                                   *)

ScalarEnd(role, ty) == [role |-> role, kind |-> "scalar", leaves |-> <<Leaf(<<>>, ty)>>]
BundleEnd(role, leaves) == [role |-> role, kind |-> "bundle", leaves |-> leaves]

FieldA(ty) == Leaf(<<"a">>, ty)
FieldBC == Leaf(<<"b", "c">>, uint(3))
FieldD == Leaf(<<"d">>, sint(1))

MCEndpoints ==
    {ScalarEnd(r, t) : r \in {"Sink", "Source"}, t \in {uint(2), sint(2), uint(3)}}
    \cup {BundleEnd(r, l) : r \in {"Sink", "Source"},
            l \in {<<FieldA(uint(2)), FieldBC>>, <<FieldBC, FieldA(uint(2))>>,
                   <<FieldA(uint(2))>>, <<FieldA(sint(2)), FieldBC>>,
                   <<FieldA(uint(2)), FieldBC, FieldD>>}}

-----------------------------------------------------------------------------
(* Both in one specification: the other half stays as it is.               *)

NoDesign == ir = <<>> /\ refs = {} /\ calls = 0
NoChannel == part = "design" /\ RegFifo!FifoInit /\ RegFifo!StageInit /\ IdleHelper

DesignInit == (Init /\ NoChannel) \/ (RvInit /\ NoDesign)

DesignNext ==
    \/ part = "design" /\ Next /\ UNCHANGED readyValidVars
    \/ part # "design" /\ RvNext /\ UNCHANGED vars

DesignSpec == DesignInit /\ [][DesignNext]_<<vars, readyValidVars>>
=============================================================================
