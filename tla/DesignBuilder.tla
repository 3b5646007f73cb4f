---------------------------- MODULE DesignBuilder ----------------------------
(***************************************************************************)
(* Authoring a design: the calls of Design and ModuleBuilder in rrtl-core, *)
(* one action per call, on the IR that DesignValidation judges.  A call is *)
(* a record of the instance's Calls; the handles calls return (BundleRef,  *)
(* InterfaceRef, StateReg) are kept in `refs`, since a program may hold    *)
(* them and pass them to any later call, of another module too.  A builder *)
(* call never fails: what it cannot do it leaves undone and records in the *)
(* module's diagnostics, which validation reports.  The second part of the *)
(* module compiles the design and flattens it.                             *)
(***************************************************************************)
EXTENDS DesignValidation

CONSTANTS Calls(_),    \* the calls of the instance, given the design
          Designs,     \* the designs a behaviour starts from
          MaxCalls(_)  \* bound: calls made on a design

VARIABLES ir,          \* the design: its modules in order of creation
          refs,        \* aggregate handles returned so far
          calls        \* calls made

vars == <<ir, refs, calls>>

Init == ir \in Designs /\ refs = {} /\ calls = 0

-----------------------------------------------------------------------------
(* What a call does to the module it is made on.                           *)

SigExpr(s) == [op |-> "sig", s |-> s]

Diagnose(m, codes) == [m EXCEPT !.diags = @ \cup codes]

add_signal(m, name, ty, kind) ==
    [m EXCEPT !.signals = Append(@, [name |-> name, ty |-> ty, kind |-> kind])]

NewReg == [k |-> "Reg", clock |-> None, reset |-> None, next |-> None]

\* A register attribute: a foreign handle or another kind of signal is
\* diagnosed and nothing is set.
SetReg(m, r, field, value) ==
    IF ~HasSignal(m, r) THEN Diagnose(m, {"E_BUILDER_REG_HANDLE"})
    ELSE IF Kind(m, r) # "Reg" THEN Diagnose(m, {"E_BUILDER_REG_KIND"})
    ELSE [m EXCEPT !.signals[r.id].kind = [@ EXCEPT ![field] = value]]

clock(m, r, c) == SetReg(m, r, "clock", c)

next(m, r, e) == SetReg(m, r, "next", e)

\* A reset of another kind or polarity is diagnosed and replaces the old one.
set_reset(m, r, s, value, how) ==
    LET new == SetReg(m, r, "reset", [signal |-> s, value |-> value, how |-> how])
        old == IF Kind(m, r) = "Reg" THEN Info(m, r).kind.reset ELSE None
    IN IF old # None THEN Diagnose(new, Report(old.how # how, "E_BUILDER_RESET_KIND")) ELSE new

\* A state type whose name is taken is not compared with the one registered.
register_state_type(m, t) ==
    IF t.name \in Elems(Names(m.state_types)) THEN m ELSE [m EXCEPT !.state_types = Append(@, t)]

Register(m, field, t, code) ==
    LET same == {x \in Elems(m[field]) : x.name = t.name}
    IN IF same = {} THEN [m EXCEPT ![field] = Append(@, t)]
       ELSE Diagnose(m, Report(\E x \in same : x # t, code))

register_bundle_type(m, t) == Register(m, "bundle_types", t, "E_BUNDLE_TYPE_CONFLICT")

register_interface_type(m, t) == Register(m, "interface_types", t, "E_INTERFACE_TYPE_CONFLICT")

\* The name of a leaf's signal: the aggregate's name and the path, joined.
RECURSIVE JoinedName(_, _)
JoinedName(name, path) ==
    IF path = <<>> THEN name ELSE JoinedName(name \o Head(path), Tail(path))

\* One signal per leaf, in order, after the signals m has.
AddLeaves(m, name, t, kind) ==
    LET leaves == leaf_fields(t)
    IN [m EXCEPT !.signals = @ \o [i \in DOMAIN leaves |->
            [name |-> JoinedName(name, leaves[i].path), ty |-> leaves[i].ty, kind |-> kind]]]

\* Mutant: the metadata points one signal too low.
LeafFields_low(m, t) ==
    LET leaves == leaf_fields(t)
    IN [i \in DOMAIN leaves |-> [path |-> leaves[i].path, signal |-> Handle(m, Len(m.signals) + i - 1)]]

LeafFields(m, t) ==
    LET leaves == leaf_fields(t)
    IN [i \in DOMAIN leaves |-> [path |-> leaves[i].path, signal |-> Handle(m, Len(m.signals) + i)]]

RefFields(m, t) ==
    LET leaves == leaf_fields(t)
    IN [i \in DOMAIN leaves |-> [path |-> leaves[i].path, ty |-> leaves[i].ty,
                                 signal |-> Handle(m, Len(m.signals) + i)]]

add_bundle(m, name, t, kind) ==
    LET r == register_bundle_type(m, t)
    IN [AddLeaves(r, name, t, kind) EXCEPT !.bundle_signals =
           Append(@, [name |-> name, bundle_type |-> t, fields |-> LeafFields(r, t)])]

BundleRef(m, name, t) == [of |-> "bundle", m |-> m.id, name |-> name, fields |-> RefFields(m, t)]

\* The ports of an interface, in order: m is the module and ports the handles
\* of those before port i.
RECURSIVE AddPorts(_, _, _, _, _)
AddPorts(m, name, t, i, ports) ==
    IF i > Len(t.ports) THEN <<m, ports>>
    ELSE LET p == t.ports[i] pname == name \o p.name kind == [k |-> p.dir]
         IN IF IsNested(p)
            THEN LET r == register_bundle_type(m, p.bundle)
                 IN AddPorts(AddLeaves(r, pname, p.bundle, kind), name, t, i + 1,
                             Append(ports, [name |-> p.name, dir |-> p.dir,
                                            fields |-> RefFields(r, p.bundle)]))
            ELSE AddPorts(add_signal(m, pname, p.ty, kind), name, t, i + 1,
                          Append(ports, [name |-> p.name, dir |-> p.dir,
                                         signal |-> Handle(m, Len(m.signals) + 1)]))

\* The metadata keeps paths and signals; the handle also keeps the types.
PortMetadata(p) ==
    IF "signal" \in DOMAIN p THEN p
    ELSE [p EXCEPT !.fields = [i \in DOMAIN p.fields |-> [path |-> p.fields[i].path,
                                                         signal |-> p.fields[i].signal]]]

InterfacePorts(m, name, t) == AddPorts(register_interface_type(m, t), name, t, 1, <<>>)

add_interface(m, name, t) ==
    LET r == InterfacePorts(m, name, t)
    IN [r[1] EXCEPT !.interface_signals =
           Append(@, [name |-> name, interface_type |-> t,
                      ports |-> [i \in DOMAIN r[2] |-> PortMetadata(r[2][i])]])]

-----------------------------------------------------------------------------
(* Aggregates connected leaf for leaf.  An expansion is [out, codes]: what *)
(* would be added and what is wrong.                                       *)

FieldAt(fields, path) ==
    LET is == {i \in DOMAIN fields : fields[i].path = path}
    IN fields[CHOOSE i \in is : \A j \in is : j <= i]

\* want and have are sequences of [path, ty, ...]; Make(w, h) is the element
\* for a matching pair, and codes have the prefix p.
Expand(want, have, Make(_, _), p) ==
    LET Match(w) == w.path \in Elems(PathsOf(have)) /\ FieldAt(have, w.path).ty = w.ty
        good == SelectSeq(want, Match)
    IN [out |-> [i \in DOMAIN good |-> Make(good[i], FieldAt(have, good[i].path))],
        codes |-> Report(\E w \in Elems(want) : w.path \notin Elems(PathsOf(have)), p \o "_MISSING")
                  \cup Report(\E h \in Elems(have) : h.path \notin Elems(PathsOf(want)), p \o "_EXTRA")
                  \cup Report(\E w \in Elems(want) : w.path \in Elems(PathsOf(have))
                                                     /\ FieldAt(have, w.path).ty # w.ty, p \o "_TYPE")]

\* Mutant: a source leaf the destination lacks is passed over in silence.
expand_bundle_assignments_lax(dst, src, enable) ==
    LET shared == SelectSeq(dst, LAMBDA w : w.path \in Elems(PathsOf(src)))
    IN [out |-> [i \in DOMAIN shared |-> [dst |-> shared[i].signal,
                                          expr |-> SigExpr(FieldAt(src, shared[i].path).signal)]],
        codes |-> {}]

expand_bundle_assignments(dst, src, enable) ==
    Expand(dst, src,
           LAMBDA w, h : [dst |-> w.signal,
                          expr |-> IF enable = None THEN SigExpr(h.signal)
                                   ELSE [op |-> "mux", cond |-> enable, x |-> SigExpr(h.signal),
                                         y |-> SigExpr(w.signal)]],
           "E_BUNDLE_ASSIGN")

\* The leaves of a target's aggregate, with the types its signals have.
TargetOrder(t, fields) ==
    [i \in DOMAIN fields |-> [path |-> fields[i].path, ty |-> Info(t, fields[i].signal).ty,
                              port |-> Info(t, fields[i].signal).name]]

expand_bundle_connection(t, fields, have) ==
    Expand(TargetOrder(t, fields), have, LAMBDA w, h : [port |-> w.port, signal |-> h.signal],
           "E_BUNDLE_CONNECT")

expand_interface_bundle_connection(t, fields, have) ==
    Expand(TargetOrder(t, fields), have, LAMBDA w, h : [port |-> w.port, signal |-> h.signal],
           "E_INTERFACE_CONNECT")

\* Of two ports of one name in the parent's handle, the last is used.
PortOf(ports, name) ==
    LET is == {i \in DOMAIN ports : ports[i].name = name}
    IN ports[CHOOSE i \in is : \A j \in is : j <= i]

ExpandPort(m, t, want, got) ==
    IF got.dir # want.dir THEN [out |-> <<>>, codes |-> {"E_INTERFACE_CONNECT_DIRECTION"}]
    ELSE IF ("signal" \in DOMAIN want) # ("signal" \in DOMAIN got)
         THEN [out |-> <<>>, codes |-> {"E_INTERFACE_CONNECT_KIND"}]
    ELSE IF "fields" \in DOMAIN want THEN expand_interface_bundle_connection(t, want.fields, got.fields)
    ELSE LET ty == signal_type(m, got.signal) info == Info(t, want.signal)
         IN IF ty.ty \notin {None, info.ty} THEN [out |-> <<>>, codes |-> {"E_INTERFACE_CONNECT_TYPE"}]
            ELSE [out |-> <<[port |-> info.name, signal |-> got.signal]>>, codes |-> ty.codes]

RECURSIVE Concat(_)
Concat(rs) ==
    IF rs = <<>> THEN [out |-> <<>>, codes |-> {}]
    ELSE LET rest == Concat(Tail(rs))
         IN [out |-> Head(rs).out \o rest.out, codes |-> Head(rs).codes \cup rest.codes]

expand_interface_connection(m, t, want, have) ==
    LET common == SelectSeq(want, LAMBDA p : p.name \in Elems(Names(have)))
        body == Concat([i \in DOMAIN common |-> ExpandPort(m, t, common[i], PortOf(have, common[i].name))])
    IN [body EXCEPT !.codes = @
           \cup Report(\E p \in Elems(want) : p.name \notin Elems(Names(have)), "E_INTERFACE_CONNECT_MISSING")
           \cup Report(\E p \in Elems(have) : p.name \notin Elems(Names(want)), "E_INTERFACE_CONNECT_EXTRA")]

\* An instance made from aggregates: conns pairs a name the target declared in
\* `field` with a handle; one wrong leaf and the instance is not added.
AggregateInstance(d, m, name, module, field, conns, ExpandOne(_, _, _), p) ==
    IF find_module(d, module) = {} THEN Diagnose(m, {p \o "_INSTANCE_TARGET"})
    ELSE LET t == Target(d, module)
             Declared(n) == {i \in DOMAIN t[field] : t[field][i].name = n}
             First(n) == t[field][CHOOSE i \in Declared(n) : \A j \in Declared(n) : i <= j]
             all == Concat([i \in DOMAIN conns |->
                      IF Declared(conns[i].port) = {}
                      THEN [out |-> <<>>, codes |-> {p \o "_INSTANCE_PORT"}]
                      ELSE ExpandOne(t, First(conns[i].port), conns[i].ref)])
         IN IF all.codes # {} THEN Diagnose(m, all.codes)
            ELSE [m EXCEPT !.insts = Append(@, [name |-> name, module |-> module, conns |-> all.out])]

instance_bundles(d, m, name, module, conns) ==
    AggregateInstance(d, m, name, module, "bundle_signals", conns,
                      LAMBDA t, x, r : expand_bundle_connection(t, x.fields, r.fields), "E_BUNDLE")

instance_interfaces(d, m, name, module, conns) ==
    AggregateInstance(d, m, name, module, "interface_signals", conns,
                      LAMBDA t, x, r : expand_interface_connection(m, t, x.ports, r.ports), "E_INTERFACE")

-----------------------------------------------------------------------------
(* State machines.                                                         *)

StateLit(t, v) == [op |-> "lit", ty |-> t.ty, value |-> (CHOOSE x \in value_of(t, v) : TRUE).value]

RECURSIVE Transitions(_, _, _)
Transitions(t, trans, base) ==
    IF trans = <<>> THEN base
    ELSE [op |-> "mux", cond |-> Head(trans).cond, x |-> StateLit(t, Head(trans).variant),
          y |-> Transitions(t, Tail(trans), base)]

\* An unknown variant anywhere leaves the register's next as it was.
StateNextTo(m, r, trans, base) ==
    IF \E x \in Elems(trans) : value_of(r.state_type, x.variant) = {}
    THEN Diagnose(m, {"E_STATE_NEXT_VARIANT"})
    ELSE next(m, r.signal, Transitions(r.state_type, trans, base))

state_next_hold(m, r, trans) == StateNextTo(m, r, trans, SigExpr(r.signal))

state_next(m, r, default, trans) ==
    IF value_of(r.state_type, default) = {} THEN Diagnose(m, {"E_STATE_NEXT_VARIANT"})
    ELSE StateNextTo(m, r, trans, StateLit(r.state_type, default))

\* The four state_reg calls differ in the reset they set.
state_reg(m, name, t, clk, rst, variant, how) ==
    LET added == add_signal(register_state_type(m, t), name, t.ty, NewReg)
        s == Handle(m, Len(added.signals))
        clocked == clock(added, s, clk)
        reset == IF value_of(t, variant) = {} THEN Diagnose(clocked, {"E_STATE_RESET_VARIANT"})
                 ELSE set_reset(clocked, s, rst, (CHOOSE x \in value_of(t, variant) : TRUE).value, how)
    IN [reset EXCEPT !.state_signals = Append(@, [signal |-> s, state_type |-> t, reset_variant |-> variant])]

-----------------------------------------------------------------------------
(* The calls.  o.m is the module whose builder the call is made on.        *)

Made(o, op) == o.op = op /\ calls < MaxCalls(ir) /\ calls' = calls + 1

On(o, m) == ir' = [ir EXCEPT ![o.m] = m]

push_module(o) ==
    /\ Made(o, "module")
    /\ ir' = Append(ir, EmptyModule(Len(ir) + 1, o.name, o.ext))
    /\ UNCHANGED refs

Declare(o) ==
    /\ Made(o, "declare")
    /\ On(o, add_signal(ir[o.m], o.name, o.ty, o.kind))
    /\ UNCHANGED refs

assign(o) ==
    /\ Made(o, "assign")
    /\ On(o, [ir[o.m] EXCEPT !.assigns = Append(@, [dst |-> o.dst, expr |-> o.expr])])
    /\ UNCHANGED refs

SetRegister(o) ==
    /\ \/ Made(o, "clock") /\ On(o, clock(ir[o.m], o.reg, o.clock))
       \/ Made(o, "next") /\ On(o, next(ir[o.m], o.reg, o.expr))
       \/ Made(o, "reset") /\ On(o, set_reset(ir[o.m], o.reg, o.signal, o.value, o.how))
    /\ UNCHANGED refs

mem_write(o) ==
    /\ Made(o, "mem_write")
    /\ On(o, [ir[o.m] EXCEPT !.writes = Append(@, o.write)])
    /\ UNCHANGED refs

initial(o) ==
    /\ \/ Made(o, "initial") /\ On(o, [ir[o.m] EXCEPT !.reginit = Append(@, o.init)])
       \/ Made(o, "mem_init") /\ On(o, [ir[o.m] EXCEPT !.meminit = Append(@, o.init)])
    /\ UNCHANGED refs

\* assert, assert_msg, assert_when, ..., and the same for cover.
assert(o) ==
    /\ \/ Made(o, "assert") /\ On(o, [ir[o.m] EXCEPT !.asserts = Append(@, o.prop)])
       \/ Made(o, "cover") /\ On(o, [ir[o.m] EXCEPT !.covers = Append(@, o.prop)])
    /\ UNCHANGED refs

instance(o) ==
    /\ Made(o, "instance")
    /\ On(o, [ir[o.m] EXCEPT !.insts = Append(@, [name |-> o.name, module |-> o.module, conns |-> o.conns])])
    /\ UNCHANGED refs

StateReg(o) ==
    /\ Made(o, "state_reg")
    /\ On(o, state_reg(ir[o.m], o.name, o.type, o.clock, o.reset, o.variant, o.how))
    /\ refs' = refs \cup {[of |-> "state", m |-> o.m, state_type |-> o.type,
                           signal |-> Handle(ir[o.m], Len(ir[o.m].signals) + 1)]}

StateNext(o) ==
    /\ \E r \in {x \in refs : x.of = "state"} :
          \/ Made(o, "state_next") /\ On(o, state_next(ir[o.m], r, o.default, o.trans))
          \/ Made(o, "state_next_hold") /\ On(o, state_next_hold(ir[o.m], r, o.trans))
    /\ UNCHANGED refs

Bundle(o) ==
    /\ Made(o, "bundle")
    /\ On(o, add_bundle(ir[o.m], o.name, o.type, o.kind))
    /\ refs' = refs \cup {BundleRef(ir[o.m], o.name, o.type)}

Interface(o) ==
    /\ Made(o, "interface")
    /\ On(o, add_interface(ir[o.m], o.name, o.type))
    /\ refs' = refs \cup {[of |-> "interface", m |-> o.m, name |-> o.name,
                           ports |-> InterfacePorts(ir[o.m], o.name, o.type)[2]]}

\* assign_bundle and assign_bundle_when: every leaf or none.
AssignBundle(o) ==
    /\ Made(o, "assign_bundle")
    /\ \E dst, src \in {r \in refs : r.of = "bundle"} :
          LET x == expand_bundle_assignments(dst.fields, src.fields, o.enable)
          IN On(o, IF x.codes = {} THEN [ir[o.m] EXCEPT !.assigns = @ \o x.out]
                   ELSE Diagnose(ir[o.m], x.codes))
    /\ UNCHANGED refs

InstanceBundles(o) ==
    /\ Made(o, "instance_bundles")
    /\ \E r \in {x \in refs : x.of = "bundle"} :
          On(o, instance_bundles(ir, ir[o.m], o.name, o.module, <<[port |-> o.port, ref |-> r]>>))
    /\ UNCHANGED refs

InstanceInterfaces(o) ==
    /\ Made(o, "instance_interfaces")
    /\ \E r \in {x \in refs : x.of = "interface"} :
          On(o, instance_interfaces(ir, ir[o.m], o.name, o.module, <<[port |-> o.port, ref |-> r]>>))
    /\ UNCHANGED refs

Next ==
    \/ \E o \in Calls(ir) :
          \/ push_module(o) \/ Declare(o) \/ assign(o) \/ SetRegister(o) \/ mem_write(o)
          \/ initial(o) \/ assert(o) \/ instance(o) \/ StateReg(o) \/ StateNext(o)
          \/ Bundle(o) \/ Interface(o) \/ AssignBundle(o) \/ InstanceBundles(o)
          \/ InstanceInterfaces(o)
    \/ calls = MaxCalls(ir) /\ UNCHANGED vars

Spec == Init /\ [][Next]_vars

------------------------------------------------------------------------------
(***************************************************************************)
(* What an accepted design promises its consumers.  compile lowers each    *)
(* module, dropping silently whatever does not resolve; the scalar         *)
(* simulator builds its state tree (from_module); the flat netlist is the  *)
(* meaning of the hierarchy.  The properties relate validate_design, which *)
(* looks at one module at a time, to these.                                *)
(***************************************************************************)

Accepted == validate_design(ir) = {}

-----------------------------------------------------------------------------
(* compile.                                                                *)

compile_instance(d, m, x) ==
    LET t == Target(d, x.module)
        ok == SelectSeq(x.conns, LAMBDA c : PortNamed(t, c.port) # {} /\ HasSignal(m, c.signal))
    IN [name |-> x.name, module |-> x.module,
        conns |-> [i \in DOMAIN ok |-> [port |-> ok[i].port, signal |-> ok[i].signal,
                                        dir |-> Port(t, ok[i].port).kind.k, ty |-> Port(t, ok[i].port).ty]]]

Typed(m, e) == expr_type(m, e).ty # None

\* The parts of a module that survive lowering, or its diagnostics.
compile_module(d, m) ==
    LET regs == {i \in DOMAIN m.signals : m.signals[i].kind.k = "Reg"}
        insts == SelectSeq(m.insts, LAMBDA x : find_module(d, x.module) # {})
    IN [assigns |-> SelectSeq(m.assigns, LAMBDA a : Typed(m, a.expr)),
        regs |-> {i \in regs : /\ None \notin {m.signals[i].kind.clock, m.signals[i].kind.next}
                               /\ Typed(m, m.signals[i].kind.next)},
        writes |-> SelectSeq(m.writes, LAMBDA w : Typed(m, w.enable) /\ Typed(m, w.addr) /\ Typed(m, w.data)),
        props |-> SelectSeq(m.asserts \o m.covers,
                            LAMBDA x : Typed(m, x.cond) /\ (x.enable = None \/ Typed(m, x.enable))),
        insts |-> [i \in DOMAIN insts |-> compile_instance(d, m, insts[i])]]

-----------------------------------------------------------------------------
(* The simulator's initial state.                                          *)

encode_value(v, ty) == v % (2 ^ ty.width)

signed_value(v, ty) == IF ty.signed /\ v >= 2 ^ (ty.width - 1) THEN v - 2 ^ ty.width ELSE v

\* The first initial value of a register is taken, the last of a memory word.
InitialValue(m, i) ==
    LET xs == SelectSeq(m.reginit, LAMBDA x : x.signal = Handle(m, i))
    IN IF xs = <<>> THEN 0 ELSE encode_value(Head(xs).value, m.signals[i].ty)

InitialWord(m, i, addr) ==
    LET xs == SelectSeq(m.meminit, LAMBDA x : x.mem = Handle(m, i) /\ x.addr = addr)
    IN IF xs = <<>> THEN 0 ELSE encode_value(xs[Len(xs)].value, m.signals[i].ty)

InitialMemory(m, i) == [a \in 0..(m.signals[i].kind.depth - 1) |-> InitialWord(m, i, a)]

module_has_inout(m) == \E s \in Elems(m.signals) : s.kind.k = "Inout"

\* The codes construction of `name` and its children reports; depth bounds
\* the recursion where the hierarchy itself does not.
RECURSIVE from_module(_, _, _)
from_module(d, name, fuel) ==
    IF find_module(d, name) = {} THEN {"E_SIM_INSTANCE"}
    ELSE IF fuel = 0 THEN {"STACK_OVERFLOW"}
    ELSE LET m == Target(d, name)
         IN IF m.ext THEN {"E_SIM_EXTERN_MODULE"}
            ELSE IF module_has_inout(m) THEN {"E_SIM_INOUT"}
            ELSE UNION {from_module(d, x.module, fuel - 1) : x \in Elems(m.insts)}

-----------------------------------------------------------------------------
(* The flat netlist: a net is <<instance path, signal id>>.  A child's port *)
(* is the parent's net.  Edges go from a net to the nets it is computed     *)
(* from; a driver is <<net, where it is driven>>.                           *)

RECURSIVE Flat(_, _, _, _)
Flat(d, m, path, bound) ==
    LET Net(s) == IF m.signals[s.id].name \in DOMAIN bound /\ IsPort(m.signals[s.id])
                  THEN bound[m.signals[s.id].name] ELSE <<path, s.id>>
        kids == [i \in DOMAIN m.insts |->
                   LET x == m.insts[i] t == Target(d, x.module)
                       child == [p \in {c.port : c \in Elems(x.conns)} |->
                                   Net((CHOOSE c \in Elems(x.conns) : c.port = p).signal)]
                   IN IF t.ext
                      THEN [edges |-> {}, drivers |-> {<<child[s.name], <<path, "extern", i, s.name>>>> :
                                                s \in {y \in Elems(t.signals) : y.kind.k = "Output"}}]
                      ELSE Flat(d, t, Append(path, i), child)]
        Deps(a) == LET all == collect_expr_signal_deps(a.expr)
                   IN IF a.expr.op = "mux" /\ a.expr.y = SigExpr(a.dst)
                      THEN collect_expr_signal_deps(a.expr.cond) \cup collect_expr_signal_deps(a.expr.x)
                      ELSE all
    IN [edges |-> UNION {{Net(a.dst)} \X {Net(s) : s \in Deps(a)} : a \in Elems(m.assigns)}
                  \cup UNION {kids[i].edges : i \in DOMAIN kids},
        drivers |-> {<<Net(m.assigns[i].dst), <<path, "assign", i>>>> : i \in DOMAIN m.assigns}
                    \cup {<<<<path, i>>, <<path, "state", i>>>> :
                             i \in {j \in DOMAIN m.signals : m.signals[j].kind.k \in {"Reg", "Mem"}}}
                    \cup {<<<<path, i>>, <<path, "input", i>>>> :
                             i \in {j \in DOMAIN m.signals : m.signals[j].kind.k = "Input" /\ path = <<>>}}
                    \cup UNION {kids[i].drivers : i \in DOMAIN kids}]

FlatOf(m) == Flat(ir, m, <<>>, <<>>)

HasInout == \E i \in DOMAIN ir : module_has_inout(ir[i])

\* The design hangs together, whatever its graphs look like.
Linked == validate_design(ir) \ {"E_COMB_CYCLE", "E_MULTI_DRIVER"} = {}

-----------------------------------------------------------------------------
(* Properties.                                                             *)

\* validate_comb_cycles looks at one module and a summary of its children's
\* ports (module_comb_port_deps).  A design without inout ports has a loop in
\* its flat netlist exactly when some module was reported: no loop through any
\* depth of hierarchy is accepted, and a handshake between registered modules
\* is never taken for one (the promise of add_instance_comb_deps).
CycleReportedIffReal ==
    (Linked /\ ~HasInout) =>
        (("E_COMB_CYCLE" \in validate_design(ir)) <=>
            \E i \in DOMAIN ir : LET g == FlatOf(ir[i]).edges IN \E p \in g : p[1] \in After(g, p[1]))

\* E_MULTI_DRIVER counts assignments and instance outputs per module.  In an
\* accepted design without inout ports every net of the flat netlist has at most
\* one driver, whatever path of ports leads to it.
SingleDriver ==
    (Accepted /\ ~HasInout) =>
        \A i \in DOMAIN ir : LET D == FlatOf(ir[i]).drivers
                             IN \A p, q \in D : p[1] = q[1] => p[2] = q[2]

\* Construction of the simulator recurses over instances with no depth check of
\* its own: an accepted design never sends it down an endless hierarchy, and the
\* only designs it then refuses have external modules or inout ports.
AcceptedConstructs ==
    Accepted => \A i \in DOMAIN ir :
        from_module(ir, ir[i].name, Len(ir)) \subseteq {"E_SIM_EXTERN_MODULE", "E_SIM_INOUT"}

\* compile drops what does not resolve without saying so (filter_map): nothing of
\* an accepted design is dropped, and every connection keeps its port.
NothingDropped ==
    Accepted => \A i \in DOMAIN ir :
        LET m == ir[i] c == compile_module(ir, m)
        IN /\ Len(c.assigns) = Len(m.assigns)
           /\ c.regs = {j \in DOMAIN m.signals : m.signals[j].kind.k = "Reg"}
           /\ Len(c.writes) = Len(m.writes)
           /\ Len(c.props) = Len(m.asserts) + Len(m.covers)
           /\ Len(c.insts) = Len(m.insts)
           /\ \A j \in DOMAIN c.insts : Len(c.insts[j].conns) = Len(m.insts[j].conns)

\* A handle of another module passed to any call is caught: in an accepted design
\* every handle stored in a module is that module's own.
HandlesLocal ==
    Accepted => \A i \in DOMAIN ir :
        LET m == ir[i]
            props == Elems(m.asserts) \cup Elems(m.covers)
            regs == {s \in Elems(m.signals) : s.kind.k = "Reg"}
            exprs == {a.expr : a \in Elems(m.assigns)} \cup {r.kind.next : r \in regs}
                     \cup UNION {{w.enable, w.addr, w.data} : w \in Elems(m.writes)}
                     \cup {p.cond : p \in props} \cup ({p.enable : p \in props} \ {None})
            sigs == {a.dst : a \in Elems(m.assigns)} \cup UNION {{w.mem, w.clock} : w \in Elems(m.writes)}
                    \cup {r.kind.clock : r \in regs}
                    \cup {r.kind.reset.signal : r \in {x \in regs : x.kind.reset # None}}
                    \cup ({p.clock : p \in props} \ {None})
                    \cup {x.signal : x \in Elems(m.reginit)} \cup {x.mem : x \in Elems(m.meminit)}
                    \cup UNION {{c.signal : c \in Elems(x.conns)} : x \in Elems(m.insts)}
                    \cup UNION {collect_expr_signal_deps(e) : e \in exprs}
        IN \A s \in sigs : HasSignal(m, s)

\* The builder keeps the first `initial` of a register and the last `mem_init` of
\* a word, and masks both: in an accepted design the simulator starts every
\* register and word with the value the author gave, sign included.
InitialExact ==
    Accepted => \A i \in DOMAIN ir :
        LET m == ir[i]
        IN /\ \A x \in Elems(m.reginit) :
                 signed_value(InitialValue(m, x.signal.id), Info(m, x.signal).ty) = x.value
           /\ \A x \in Elems(m.meminit) :
                 /\ x.addr \in DOMAIN InitialMemory(m, x.mem.id)
                 /\ signed_value(InitialMemory(m, x.mem.id)[x.addr], Info(m, x.mem).ty) = x.value

\* Metadata of bundles and interfaces is written by one loop and signals by
\* another, with types registered on the way: validation never finds builder-made
\* metadata out of step with its signals unless the type itself repeats a name.
MetadataInStep ==
    \A i \in DOMAIN ir :
        LET codes == validate_bundle_types(ir[i]) \cup validate_interface_types(ir[i])
        IN codes \cap {"E_BUNDLE_FIELD_DUP", "E_INTERFACE_PORT_DUP"} = {} =>
              codes \cap {"E_BUNDLE_SIGNAL_FIELD", "E_BUNDLE_SIGNAL_FIELD_TYPE", "E_BUNDLE_SIGNAL_FIELD_DUP",
                          "E_BUNDLE_SIGNAL_FIELD_MISSING", "E_INTERFACE_SIGNAL_PORT",
                          "E_INTERFACE_SIGNAL_PORT_KIND", "E_INTERFACE_SIGNAL_PORT_TYPE",
                          "E_INTERFACE_SIGNAL_PORT_DUP", "E_INTERFACE_SIGNAL_PORT_MISSING",
                          "E_INTERFACE_SIGNAL_DIRECTION", "E_INTERFACE_SIGNAL_FIELD",
                          "E_INTERFACE_SIGNAL_FIELD_TYPE", "E_INTERFACE_SIGNAL_FIELD_DUP",
                          "E_INTERFACE_SIGNAL_FIELD_MISSING"} = {}

\* Aggregates are connected leaf for leaf (docs/authoring.md "exact-match bundle
\* instance connections"): a step that assigns a bundle or instantiates from one
\* either reports and adds nothing, or covers every leaf of the destination.
LeafForLeaf ==
    [][\A i \in DOMAIN ir :
          LET old == ir[i] new == ir'[i]
              added == {new.assigns[k] : k \in (Len(old.assigns) + 1)..Len(new.assigns)}
          IN /\ new.diags # old.diags => new.assigns = old.assigns /\ new.insts = old.insts
             /\ Cardinality(added) > 1 =>
                   \E dst, src \in {r \in refs : r.of = "bundle"} :
                      /\ {<<f.path, f.ty>> : f \in Elems(dst.fields)} = {<<f.path, f.ty>> : f \in Elems(src.fields)}
                      /\ \A f \in Elems(dst.fields) : \E a \in added :
                            a.dst = f.signal /\ FieldAt(src.fields, f.path).signal \in collect_expr_signal_deps(a.expr)
             /\ Len(new.insts) > Len(old.insts) /\ refs # {} =>
                   LET x == new.insts[Len(new.insts)] t == Target(ir, x.module)
                   IN \A b \in Elems(t.bundle_signals) :
                        LET ports == {Info(t, f.signal).name : f \in Elems(b.fields)}
                        IN ports \cap {c.port : c \in Elems(x.conns)} \in {{}, ports}]_vars

(***************************************************************************)
(* What validate_design judges one module at a time holds of the hierarchy: *)
(* loops are reported exactly when the flat netlist has one, an accepted    *)
(* net has one driver, and an accepted hierarchy is finite.                 *)
(***************************************************************************)
HierarchySound == AcceptedConstructs /\ CycleReportedIffReal /\ SingleDriver

(***************************************************************************)
(* An accepted design compiles whole: nothing of it is dropped, every       *)
(* handle is its own module's, registers and words start with the author's  *)
(* values, and the metadata the builder keeps agrees with its signals.      *)
(***************************************************************************)
CompiledWhole == NothingDropped /\ HandlesLocal /\ InitialExact /\ MetadataInStep

=============================================================================
