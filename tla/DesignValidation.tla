-------------------------- MODULE DesignValidation --------------------------
(***************************************************************************)
(* validate_design of rrtl-core: the checks every design passes before any *)
(* backend sees it.  Each validator yields the set of diagnostic codes it  *)
(* reports for a module; the wording of a diagnostic is left out.          *)
(*                                                                         *)
(* A name is the sequence of its parts between underscores, so that the    *)
(* builder's joining of names with "_" is concatenation and two different  *)
(* joins can produce one name, as they can in the code.  A signal handle   *)
(* is [m, id].  Of the expression forms (CoreExpr has them all) the ones   *)
(* kept are those whose operands the validators treat differently.         *)
(***************************************************************************)
EXTENDS Integers, Sequences, FiniteSets

CONSTANTS None,        \* an absent clock, reset, expression, type
          SvIdent(_)   \* sanitize_sv_ident on the names of the instance

uint(w) == [width |-> w, signed |-> FALSE]

sint(w) == [width |-> w, signed |-> TRUE]

Elems(s) == {s[i] : i \in DOMAIN s}

HasDup(s) == \E i, j \in DOMAIN s : i < j /\ s[i] = s[j]

Names(s) == [i \in DOMAIN s |-> s[i].name]

Report(bad, code) == IF bad THEN {code} ELSE {}

-----------------------------------------------------------------------------
(* The IR.                                                                 *)

EmptyModule(id, name, ext) ==
    [id |-> id, name |-> name, ext |-> ext, signals |-> <<>>, assigns |-> <<>>,
     writes |-> <<>>, reginit |-> <<>>, meminit |-> <<>>, asserts |-> <<>>,
     covers |-> <<>>, insts |-> <<>>, state_types |-> <<>>, state_signals |-> <<>>,
     bundle_types |-> <<>>, bundle_signals |-> <<>>, interface_types |-> <<>>,
     interface_signals |-> <<>>, diags |-> {}]

HasSignal(m, s) == s.m = m.id /\ s.id \in DOMAIN m.signals

Info(m, s) == m.signals[s.id]

Kind(m, s) == IF HasSignal(m, s) THEN Info(m, s).kind.k ELSE "none"

Handle(m, i) == [m |-> m.id, id |-> i]

IsPort(info) == info.kind.k \in {"Input", "Output", "Inout"}

find_module(d, name) == {i \in DOMAIN d : d[i].name = name /\ \A j \in 1..(i - 1) : d[j].name # name}

Target(d, name) == d[CHOOSE i \in find_module(d, name) : TRUE]

fits_type(v, ty) ==
    /\ ty.width > 0
    /\ \/ ty.width >= 128
       \/ IF ty.signed THEN v >= -(2 ^ (ty.width - 1)) /\ v < 2 ^ (ty.width - 1)
          ELSE v >= 0 /\ v < 2 ^ ty.width

signal_type(m, s) ==
    IF HasSignal(m, s) THEN [ty |-> Info(m, s).ty, codes |-> {}]
    ELSE [ty |-> None, codes |-> {"E_SIGNAL_SCOPE"}]

RECURSIVE expr_type(_, _)
expr_type(m, e) ==
    CASE e.op = "sig" -> signal_type(m, e.s)
      [] e.op = "lit" ->
            IF e.ty.width = 0 THEN [ty |-> None, codes |-> {"E_LIT_WIDTH_ZERO"}]
            ELSE [ty |-> e.ty, codes |-> Report(~fits_type(e.value, e.ty), "E_LIT_VALUE_WIDTH")]
      [] e.op = "not" -> expr_type(m, e.x)
      [] e.op = "mux" ->
            LET c == expr_type(m, e.cond) x == expr_type(m, e.x) y == expr_type(m, e.y)
                same == None \notin {x.ty, y.ty} /\ x.ty = y.ty
            IN [ty |-> IF same THEN x.ty ELSE None,
                codes |-> c.codes \cup x.codes \cup y.codes
                          \cup Report(c.ty \notin {None, uint(1)}, "E_MUX_COND_WIDTH")
                          \cup Report(None \notin {x.ty, y.ty} /\ ~same, "E_EXPR_TYPE")]
      [] e.op = "mem" ->
            IF Kind(m, e.mem) # "Mem" THEN [ty |-> None, codes |-> {"E_MEM_READ_TARGET"}]
            ELSE LET a == expr_type(m, e.x)
                 IN [ty |-> Info(m, e.mem).ty,
                     codes |-> a.codes \cup Report(a.ty \notin {None, uint(Info(m, e.mem).kind.addr_width)},
                                                   "E_MEM_ADDR_WIDTH")]

\* Mutant: an expression without a type is passed over.
Expect_silent(m, e, good, code) ==
    LET t == expr_type(m, e)
    IN Report(t.ty # None /\ t.ty \notin good, code)

\* The expression must have one of the types in `good`.
Expect(m, e, good, code) ==
    LET t == expr_type(m, e)
    IN t.codes \cup Report(t.ty # None /\ t.ty \notin good, code)

\* Mutant: a handle of another module is taken for a bit.
ExpectBit_anyscope(m, s, code) ==
    Report(HasSignal(m, s) /\ Info(m, s).ty.width # 1, code)

ExpectBit(m, s, code) ==
    LET t == signal_type(m, s)
    IN t.codes \cup Report(t.ty # None /\ t.ty.width # 1, code)

RECURSIVE collect_expr_signal_deps(_)
collect_expr_signal_deps(e) ==
    CASE e.op = "sig" -> {e.s}
      [] e.op = "lit" -> {}
      [] e.op \in {"not", "mem"} -> collect_expr_signal_deps(e.x)
      [] e.op = "mux" -> collect_expr_signal_deps(e.cond) \cup collect_expr_signal_deps(e.x)
                         \cup collect_expr_signal_deps(e.y)

\* A destination held by the outer mux's else branch is a latch, not a loop.
assignment_signal_deps(dst, e) ==
    IF e.op = "mux" /\ e.y = [op |-> "sig", s |-> dst]
    THEN collect_expr_signal_deps(e.cond) \cup collect_expr_signal_deps(e.x)
    ELSE collect_expr_signal_deps(e)

-----------------------------------------------------------------------------
(* Names, widths, external modules.                                        *)

\* The code pushes a diagnostic per module; a repeated name is found once.
validate_module_names(d) ==
    Report(\E i \in DOMAIN d : d[i].name = <<>>, "E_MODULE_NAME_EMPTY")
    \cup Report(HasDup(Names(d)), "E_MODULE_NAME_DUP")

RECURSIVE Reach(_, _, _)
\* The nodes reached from `todo` along g (a set of pairs), `seen` included.
Reach(g, todo, seen) ==
    IF todo \subseteq seen THEN seen
    ELSE Reach(g, {p[2] : p \in {q \in g : q[1] \in todo}}, seen \cup todo)

After(g, n) == Reach(g, {p[2] : p \in {q \in g : q[1] = n}}, {})

InstanceGraph(d) ==
    UNION {{<<d[i].name, x.module>> : x \in {y \in Elems(d[i].insts) : find_module(d, y.module) # {}}}
           : i \in {j \in DOMAIN d : ~d[j].ext}}

\* Mutant: only direct self-instantiation is looked for.
has_hierarchy_cycle_shallow(g, name) == <<name, name>> \in g

\* A module that reaches a cycle is never put in `visited`, so every module
\* above a cycle is reported, not only those on it.
has_hierarchy_cycle(g, name) == \E n \in {name} \cup After(g, name) : n \in After(g, n)

validate_hierarchy_cycles(d) ==
    LET g == InstanceGraph(d)
    IN {<<"E_HIERARCHY_CYCLE", d[i].name>> : i \in {j \in DOMAIN d : has_hierarchy_cycle(g, d[j].name)}}

validate_signal_names(m) ==
    Report(<<>> \in Elems(Names(m.signals)), "E_SIGNAL_NAME_EMPTY")
    \cup Report(HasDup(Names(m.signals)), "E_SIGNAL_NAME_DUP")

validate_signal_widths(m) ==
    LET mems == {s \in Elems(m.signals) : s.kind.k = "Mem"}
    IN Report(\E s \in Elems(m.signals) : s.ty.width = 0, "E_WIDTH_ZERO")
       \cup Report(\E s \in mems : 0 \in {s.kind.addr_width, s.ty.width, s.kind.depth}, "E_MEM_SHAPE")
       \cup Report(\E s \in mems : s.kind.depth > 2 ^ s.kind.addr_width, "E_MEM_DEPTH_WIDTH")

validate_external_module(m) ==
    Report(m.asserts # <<>>, "E_EXTERN_MODULE_ASSERTION")
    \cup Report(m.covers # <<>>, "E_EXTERN_MODULE_COVER")
    \cup Report(m.reginit # <<>> \/ m.meminit # <<>>, "E_EXTERN_MODULE_INITIAL")
    \cup Report(\E s \in Elems(m.signals) : ~IsPort(s), "E_EXTERN_MODULE_SIGNAL")
    \cup Report(\/ <<>> # m.assigns \/ <<>> # m.writes \/ <<>> # m.insts
                \/ <<>> # m.state_types \/ <<>> # m.state_signals
                \/ <<>> # m.bundle_types \/ <<>> # m.bundle_signals
                \/ <<>> # m.interface_types \/ <<>> # m.interface_signals, "E_EXTERN_MODULE_BODY")

-----------------------------------------------------------------------------
(* State, bundle and interface types, and the signals declared with them.  *)

\* A state type is [name, ty, variants], a variant [name, value].
value_of(t, variant) == {v \in Elems(t.variants) : v.name = variant}

StateTypeCodes(t) ==
    Report(t.name = <<>>, "E_STATE_TYPE_NAME")
    \cup Report(t.ty.width = 0, "E_STATE_TYPE_WIDTH")
    \cup Report(<<>> \in Elems(Names(t.variants)), "E_STATE_VARIANT_NAME")
    \cup Report(HasDup(Names(t.variants)), "E_STATE_VARIANT_DUP")
    \cup Report(HasDup([i \in DOMAIN t.variants |-> SvIdent(t.variants[i].name)]),
                "E_STATE_VARIANT_SV_NAME_DUP")
    \cup Report(HasDup([i \in DOMAIN t.variants |-> t.variants[i].value]), "E_STATE_ENCODING_DUP")
    \cup Report(\E v \in Elems(t.variants) : ~fits_type(v.value, t.ty), "E_STATE_ENCODING_RANGE")

StateSignalCodes(m, x) ==
    IF ~HasSignal(m, x.signal) THEN {"E_STATE_SIGNAL"}
    ELSE Report(Info(m, x.signal).ty # x.state_type.ty, "E_STATE_SIGNAL_TYPE")
         \cup Report(value_of(x.state_type, x.reset_variant) = {}, "E_STATE_RESET_VARIANT")

validate_state_types(m) ==
    Report(HasDup(Names(m.state_types)), "E_STATE_TYPE_DUP")
    \cup Report(HasDup([i \in DOMAIN m.state_types |-> SvIdent(m.state_types[i].name)]),
                "E_STATE_TYPE_SV_NAME_DUP")
    \cup UNION {StateTypeCodes(t) : t \in Elems(m.state_types)}
    \cup UNION {StateSignalCodes(m, x) : x \in Elems(m.state_signals)}

\* A bundle type is [name, fields]; a field [name, ty] or [name, bundle].
IsNested(f) == "bundle" \in DOMAIN f

RECURSIVE LeavesFrom(_, _, _)
LeavesFrom(fields, i, prefix) ==
    IF i > Len(fields) THEN <<>>
    ELSE LET f == fields[i] path == Append(prefix, f.name)
         IN (IF IsNested(f) THEN LeavesFrom(f.bundle.fields, 1, path)
             ELSE <<[path |-> path, ty |-> f.ty]>>)
            \o LeavesFrom(fields, i + 1, prefix)

leaf_fields(t) == LeavesFrom(t.fields, 1, <<>>)

PathsOf(s) == [i \in DOMAIN s |-> s[i].path]

RECURSIVE validate_bundle_type_fields(_)
validate_bundle_type_fields(t) ==
    Report(t.fields = <<>>, "E_BUNDLE_TYPE_EMPTY")
    \cup Report(<<>> \in Elems(Names(t.fields)), "E_BUNDLE_FIELD_NAME")
    \cup Report(HasDup(Names(t.fields)), "E_BUNDLE_FIELD_DUP")
    \cup UNION {IF IsNested(f)
                THEN Report(f.bundle.name = <<>>, "E_BUNDLE_TYPE_NAME")
                     \cup validate_bundle_type_fields(f.bundle)
                ELSE Report(f.ty.width = 0, "E_BUNDLE_FIELD_WIDTH") : f \in Elems(t.fields)}

\* The leaves recorded for a signal of bundle type t: codes with the prefix p.
FieldCodes(m, t, fields, p) ==
    LET leaves == leaf_fields(t)
        At(path) == {i \in DOMAIN leaves : leaves[i].path = path}
        Last(path) == leaves[CHOOSE i \in At(path) : \A j \in At(path) : j <= i]
    IN Report(HasDup(PathsOf(fields)), p \o "_FIELD_DUP")
       \cup UNION {IF At(f.path) = {} \/ ~HasSignal(m, f.signal) THEN {p \o "_FIELD"}
                   ELSE Report(Info(m, f.signal).ty # Last(f.path).ty, p \o "_FIELD_TYPE")
                   : f \in Elems(fields)}
       \cup Report(\E l \in Elems(leaves) : l.path \notin Elems(PathsOf(fields)), p \o "_FIELD_MISSING")

validate_bundle_types(m) ==
    Report(<<>> \in Elems(Names(m.bundle_types)), "E_BUNDLE_TYPE_NAME")
    \cup Report(HasDup(Names(m.bundle_types)), "E_BUNDLE_TYPE_DUP")
    \cup UNION {validate_bundle_type_fields(t) : t \in Elems(m.bundle_types)}
    \cup Report(<<>> \in Elems(Names(m.bundle_signals)), "E_BUNDLE_SIGNAL_NAME")
    \cup Report(HasDup(Names(m.bundle_signals)), "E_BUNDLE_SIGNAL_DUP")
    \cup UNION {FieldCodes(m, b.bundle_type, b.fields, "E_BUNDLE_SIGNAL") : b \in Elems(m.bundle_signals)}

\* An interface port is [name, dir, ty] or [name, dir, bundle]; a recorded
\* port of an interface signal is [name, dir, signal] or [name, dir, fields].
validate_interface_port(p) ==
    Report(p.name = <<>>, "E_INTERFACE_PORT_NAME")
    \cup (IF IsNested(p) THEN validate_bundle_type_fields(p.bundle)
          ELSE Report(p.ty.width = 0, "E_INTERFACE_PORT_WIDTH"))

InterfaceTypeCodes(t) ==
    Report(t.name = <<>>, "E_INTERFACE_TYPE_NAME")
    \cup Report(t.ports = <<>>, "E_INTERFACE_TYPE_EMPTY")
    \cup Report(HasDup(Names(t.ports)), "E_INTERFACE_PORT_DUP")
    \cup UNION {validate_interface_port(p) : p \in Elems(t.ports)}

\* `want` is the port of the type, `got` the one recorded for the signal.
validate_interface_signal_port(m, want, got) ==
    IF IsNested(want) # ("fields" \in DOMAIN got) THEN {"E_INTERFACE_SIGNAL_PORT_KIND"}
    ELSE IF IsNested(want) THEN FieldCodes(m, want.bundle, got.fields, "E_INTERFACE_SIGNAL")
    ELSE IF ~HasSignal(m, got.signal) THEN {"E_INTERFACE_SIGNAL_PORT"}
    ELSE Report(Info(m, got.signal).ty # want.ty, "E_INTERFACE_SIGNAL_PORT_TYPE")

\* Of two ports with one name the type's last is the expected one.
ExpectedPort(t, name) ==
    LET is == {i \in DOMAIN t.ports : t.ports[i].name = name}
    IN t.ports[CHOOSE i \in is : \A j \in is : j <= i]

InterfaceSignalCodes(m, x) ==
    LET t == x.interface_type
    IN Report(HasDup(Names(x.ports)), "E_INTERFACE_SIGNAL_PORT_DUP")
       \cup UNION {IF p.name \notin Elems(Names(t.ports)) THEN {"E_INTERFACE_SIGNAL_PORT"}
                   ELSE Report(p.dir # ExpectedPort(t, p.name).dir, "E_INTERFACE_SIGNAL_DIRECTION")
                        \cup validate_interface_signal_port(m, ExpectedPort(t, p.name), p)
                   : p \in Elems(x.ports)}
       \cup Report(\E p \in Elems(t.ports) : p.name \notin Elems(Names(x.ports)),
                   "E_INTERFACE_SIGNAL_PORT_MISSING")

validate_interface_types(m) ==
    Report(HasDup(Names(m.interface_types)), "E_INTERFACE_TYPE_DUP")
    \cup UNION {InterfaceTypeCodes(t) : t \in Elems(m.interface_types)}
    \cup Report(<<>> \in Elems(Names(m.interface_signals)), "E_INTERFACE_SIGNAL_NAME")
    \cup Report(HasDup(Names(m.interface_signals)), "E_INTERFACE_SIGNAL_DUP")
    \cup UNION {InterfaceSignalCodes(m, x) : x \in Elems(m.interface_signals)}

-----------------------------------------------------------------------------
(* Behaviour: assignments, memories, initial values, properties, registers.*)

validate_assignments(m) ==
    LET Bad == [Input |-> "E_ASSIGN_INPUT", Inout |-> "E_ASSIGN_INOUT", Reg |-> "E_ASSIGN_REG",
                Mem |-> "E_ASSIGN_MEM"]
    IN UNION {IF ~HasSignal(m, a.dst) THEN {"E_ASSIGN_DST"}
              ELSE {Bad[k] : k \in DOMAIN Bad \cap {Kind(m, a.dst)}}
                   \cup Expect(m, a.expr, {Info(m, a.dst).ty}, "E_ASSIGN_TYPE") : a \in Elems(m.assigns)}
       \cup Report(\E i, j \in DOMAIN m.assigns :
                      i < j /\ m.assigns[i].dst = m.assigns[j].dst /\ HasSignal(m, m.assigns[i].dst),
                   "E_MULTI_DRIVER")

validate_memory_writes(m) ==
    UNION {IF Kind(m, w.mem) # "Mem" THEN {"E_MEM_WRITE_TARGET"}
           ELSE LET mem == Info(m, w.mem)
                IN ExpectBit(m, w.clock, "E_MEM_CLOCK_WIDTH")
                   \cup Expect(m, w.enable, {uint(1), sint(1)}, "E_MEM_ENABLE_WIDTH")
                   \cup Expect(m, w.addr, {uint(mem.kind.addr_width)}, "E_MEM_ADDR_WIDTH")
                   \cup Expect(m, w.data, {mem.ty}, "E_MEM_DATA_WIDTH") : w \in Elems(m.writes)}

\* Mutant: an address equal to the depth is let through.
InitialMemCodes_pastend(m, x) ==
    IF Kind(m, x.mem) # "Mem" THEN {"E_INITIAL_MEM_TARGET"}
    ELSE Report(x.addr > Info(m, x.mem).kind.depth, "E_INITIAL_MEM_ADDR")
         \cup Report(~fits_type(x.value, Info(m, x.mem).ty), "E_INITIAL_MEM_VALUE")

InitialMemCodes(m, x) ==
    IF Kind(m, x.mem) # "Mem" THEN {"E_INITIAL_MEM_TARGET"}
    ELSE Report(x.addr >= Info(m, x.mem).kind.depth, "E_INITIAL_MEM_ADDR")
         \cup Report(~fits_type(x.value, Info(m, x.mem).ty), "E_INITIAL_MEM_VALUE")

validate_initial_values(m) ==
    UNION {IF ~HasSignal(m, x.signal) THEN {"E_INITIAL_REG_TARGET"}
           ELSE Report(Kind(m, x.signal) # "Reg", "E_INITIAL_REG_TARGET")
                \cup Report(~fits_type(x.value, Info(m, x.signal).ty), "E_INITIAL_REG_VALUE")
           : x \in Elems(m.reginit)}
    \cup Report(HasDup([i \in DOMAIN m.reginit |-> m.reginit[i].signal]), "E_INITIAL_REG_DUP")
    \cup UNION {InitialMemCodes(m, x) : x \in Elems(m.meminit)}
    \cup Report(HasDup([i \in DOMAIN m.meminit |-> <<m.meminit[i].mem, m.meminit[i].addr>>]),
                "E_INITIAL_MEM_DUP")

\* Assertions and cover points, p being E_ASSERT or E_COVER.
PropertyCodes(m, props, p) ==
    Report(<<>> \in Elems(Names(props)), p \o "_NAME_EMPTY")
    \cup Report(HasDup(Names(props)), p \o "_NAME_DUP")
    \cup UNION {Expect(m, x.cond, {uint(1)}, p \o "_CONDITION_TYPE")
                \cup (IF x.enable = None THEN {} ELSE Expect(m, x.enable, {uint(1)}, p \o "_ENABLE_TYPE"))
                \cup (IF x.clock = None THEN {} ELSE ExpectBit(m, x.clock, p \o "_CLOCK_WIDTH"))
                : x \in Elems(props)}

validate_assertions(m) == PropertyCodes(m, m.asserts, "E_ASSERT")

validate_cover_points(m) == PropertyCodes(m, m.covers, "E_COVER")

validate_registers(m) ==
    UNION {(IF r.kind.clock = None THEN {"E_REG_CLOCK_MISSING"}
            ELSE ExpectBit(m, r.kind.clock, "E_CLOCK_WIDTH"))
           \cup (IF r.kind.reset = None THEN {}
                 ELSE ExpectBit(m, r.kind.reset.signal, "E_RESET_WIDTH")
                      \cup Report(~fits_type(r.kind.reset.value, r.ty), "E_RESET_VALUE_WIDTH"))
           \cup (IF r.kind.next = None THEN {"E_REG_NEXT_MISSING"}
                 ELSE Expect(m, r.kind.next, {r.ty}, "E_REG_NEXT_TYPE"))
           : r \in {s \in Elems(m.signals) : s.kind.k = "Reg"}}

-----------------------------------------------------------------------------
(* Instances and combinational cycles.                                     *)

PortNamed(t, name) == {i \in DOMAIN t.signals : t.signals[i].name = name /\ IsPort(t.signals[i])}

Port(t, name) == t.signals[CHOOSE i \in PortNamed(t, name) : \A j \in PortNamed(t, name) : i <= j]

ConnectionCodes(m, t, c) ==
    IF PortNamed(t, c.port) = {} THEN {"E_INSTANCE_PORT"}
    ELSE LET port == Port(t, c.port) got == signal_type(m, c.signal)
         IN got.codes \cup Report(got.ty \notin {None, port.ty}, "E_INSTANCE_TYPE")
            \cup Report(port.kind.k = "Inout" /\ Kind(m, c.signal) \notin {"Inout", "Wire"},
                        "E_INSTANCE_INOUT_TARGET")
            \cup Report(port.kind.k = "Output" /\ Kind(m, c.signal) \in {"Input", "Inout", "Reg", "Mem"},
                        "E_INSTANCE_OUTPUT_TARGET")

\* Mutant: drivers are collected per signal, not counted.
OutputDrivers_set(d, m) ==
    UNION {LET t == Target(d, x.module)
           IN {<<0, 0, c.signal>> : c \in {y \in Elems(x.conns) : /\ PortNamed(t, y.port) # {}
                                                                 /\ Port(t, y.port).kind.k = "Output"}}
           : x \in {y \in Elems(m.insts) : find_module(d, y.module) # {}}}

\* The parent signals driven by instance outputs, one entry per connection.
OutputDrivers(d, m) ==
    UNION {LET t == Target(d, m.insts[i].module) conns == m.insts[i].conns
           IN {<<i, c, conns[c].signal>> :
                 c \in {x \in DOMAIN conns : /\ PortNamed(t, conns[x].port) # {}
                                              /\ Port(t, conns[x].port).kind.k = "Output"}}
           : i \in {x \in DOMAIN m.insts : find_module(d, m.insts[x].module) # {}}}

validate_instances(d, m) ==
    LET drv == OutputDrivers(d, m)
    IN Report(HasDup(Names(m.insts)), "E_INSTANCE_NAME_DUP")
       \cup UNION {IF find_module(d, x.module) = {} THEN {"E_INSTANCE_TARGET"}
                   ELSE LET t == Target(d, x.module) ports == [c \in DOMAIN x.conns |-> x.conns[c].port]
                        IN UNION {ConnectionCodes(m, t, c) : c \in Elems(x.conns)}
                           \cup Report(\E i, j \in DOMAIN ports :
                                          i < j /\ ports[i] = ports[j] /\ PortNamed(t, ports[i]) # {},
                                       "E_INSTANCE_PORT_DUP")
                           \cup Report(\E s \in Elems(t.signals) : IsPort(s) /\ s.name \notin Elems(ports),
                                       "E_INSTANCE_UNCONNECTED")
                   : x \in Elems(m.insts)}
       \cup Report(\/ \E a \in Elems(m.assigns) : \E p \in drv : p[3] = a.dst
                   \/ \E p, q \in drv : p # q /\ p[3] = q[3], "E_MULTI_DRIVER")

\* The edges an instance adds: parent output -> parent input, where the child's
\* output depends on that input.  A port connected twice keeps its last signal.
InstanceEdges(deps, x) ==
    LET Conn(name) == LET cs == {c \in DOMAIN x.conns : x.conns[c].port = name}
                      IN IF cs = {} THEN {}
                         ELSE {x.conns[CHOOSE c \in cs : \A k \in cs : k <= c].signal}
    IN UNION {Conn(p[1]) \X Conn(p[2]) : p \in deps}

\* Mutant: only the child's own assignments are followed.
module_comb_port_deps_flat(d, name, busy) ==
    IF find_module(d, name) = {} THEN {}
    ELSE LET t == Target(d, name)
             g == UNION {{a.dst} \X assignment_signal_deps(a.dst, a.expr) : a \in Elems(t.assigns)}
             Of(k) == {i \in DOMAIN t.signals : t.signals[i].kind.k = k}
         IN {<<t.signals[o].name, t.signals[i].name>> :
                o \in Of("Output"), i \in {x \in Of("Input") : \E y \in Of("Output") :
                                              Handle(t, x) \in After(g, Handle(t, y))}}

\* The pairs <<output port, input port>> of a module with a combinational
\* path; a module being computed contributes none (its cache entry is empty).
RECURSIVE module_comb_port_deps(_, _, _)
module_comb_port_deps(d, name, busy) ==
    IF name \in busy \/ find_module(d, name) = {} THEN {}
    ELSE LET t == Target(d, name)
             g == UNION {{a.dst} \X assignment_signal_deps(a.dst, a.expr) : a \in Elems(t.assigns)}
                  \cup UNION {InstanceEdges(module_comb_port_deps(d, x.module, busy \cup {name}), x)
                              : x \in Elems(t.insts)}
             Of(k) == {i \in DOMAIN t.signals : t.signals[i].kind.k = k}
         IN UNION {{<<t.signals[o].name, t.signals[i].name>> :
                       i \in {x \in Of("Input") : Handle(t, x) \in After(g, Handle(t, o))}}
                   : o \in Of("Output")}

validate_comb_cycles(d, m) ==
    LET g == UNION {{a.dst} \X assignment_signal_deps(a.dst, a.expr) : a \in Elems(m.assigns)}
             \cup UNION {InstanceEdges(module_comb_port_deps(d, x.module, {}), x) : x \in Elems(m.insts)}
    IN Report(\E p \in g : p[1] \in After(g, p[1]), "E_COMB_CYCLE")

validate_module(d, m) ==
    m.diags \cup validate_signal_names(m) \cup validate_signal_widths(m)
    \cup IF m.ext THEN validate_external_module(m)
         ELSE validate_state_types(m) \cup validate_bundle_types(m) \cup validate_interface_types(m)
              \cup validate_assignments(m) \cup validate_memory_writes(m) \cup validate_initial_values(m)
              \cup validate_assertions(m) \cup validate_cover_points(m) \cup validate_registers(m)
              \cup validate_instances(d, m) \cup validate_comb_cycles(d, m)

validate_design(d) ==
    validate_module_names(d) \cup {p[1] : p \in validate_hierarchy_cycles(d)}
    \cup UNION {validate_module(d, d[i]) : i \in DOMAIN d}

=============================================================================
