----------------------------- MODULE LinearHybrid ----------------------------
(***************************************************************************)
(* The linear side of rrtl-sim-ir: which cones are affine over GF(2)       *)
(* (linearize.rs), the matrices that jump many cycles at once (leap.rs),   *)
(* the bit-sliced XOR engine (linear_aot.rs), and the simulator that runs  *)
(* the linear registers on it and the rest on a general engine, exchanging *)
(* registers before each tick (hybrid.rs).  With them go two analyses of   *)
(* the same expressions, the support of a register (activity.rs) and the   *)
(* strength reduction of multiplications (specialize.rs).                  *)
(*                                                                         *)
(* An expression is a tree of records: op, w, args, p (the literal, the    *)
(* signal, the lsb, the signedness).  A design gives each wire an          *)
(* expression, each register its next value and its synchronous reset.     *)
(* Vectors over GF(2) are sets of bits, a bit is <<signal, position>>; the *)
(* inputs of a leap are packed into a word first and are positions of it.  *)
(*                                                                         *)
(* The build is a release build.  A debug build panics where a shift of    *)
(* leap.rs passes the word, and at the assertion of idle_operator.         *)
(***************************************************************************)
EXTENDS MachineInstr, FiniteSetsExt, TLC

CONSTANTS Inputs, Wires, Regs,  \* signals; a wire is an output
          SignalWidth,          \* signal -> width
          InputValues,          \* input -> values a caller drives
          Designs,
          WordBits,             \* bits of the word a leap packs its state in (128)
          JitWidth,             \* widest signal of the vector JIT (32)
          MinReduceWidth,       \* a wider multiplication is reduced (32)
          MaxTerms,             \* STRENGTH_MAX_TERMS
          MaxLeap, MaxTicks     \* cycles of one leap, of a run

VARIABLES design,    \* the program the simulator was built for
          original,  \* the program before strength reduction
          held,      \* input -> value the caller drives
          exact,     \* register -> value, by the reference
          lin,       \* signals the XOR engine tracks -> value
          gen,       \* signals of the general engine's slice -> value
          ticks,
          misled     \* a leap was taken where it does not hold

hybridVars == <<design, original, held, exact, lin, gen, ticks, misled>>

X(op, w, arg, p) == [op |-> op, w |-> w, args |-> arg, p |-> p]
Literal(v, w) == X("lit", w, <<>>, v)

NoReset == [signal |-> "", low |-> FALSE, value |-> 0]

BitsOf(s) == {<<s, n>> : n \in 0..(SignalWidth[s] - 1)}
ToBits(s, v) == {b \in BitsOf(s) : BitOf(v, b[2]) = 1}
ToValue(s, bits) == MapThenSumSet(LAMBDA b : 2^b[2], bits \cap BitsOf(s))
Plus(a, b) == (a \ b) \cup (b \ a)
SumOf(vectors) == FoldSeq(Plus, {}, vectors)
------------------------------------------------------------------------------
(* Expressions.                                                            *)

\* Wires are expanded, other signals looked up.
RECURSIVE eval_expr(_, _, _)
eval_expr(d, e, leaves) ==
    CASE e.op = "lit" -> Fit(e.p, e.w)
      [] e.op = "signal" -> IF e.p \in DOMAIN leaves THEN leaves[e.p]
                            ELSE IF e.p \in DOMAIN d.wire THEN eval_expr(d, d.wire[e.p], leaves)
                            ELSE 0
      [] OTHER -> Reference(I(e.op, e.w, [k \in DOMAIN e.args |-> e.args[k].w], e.p),
                            [k \in DOMAIN e.args |-> eval_expr(d, e.args[k], leaves)])

\* Leaves behind an expression: inputs and registers.
RECURSIVE collect_leaves(_, _)
collect_leaves(d, e) ==
    IF e.op = "signal"
    THEN IF e.p \in DOMAIN d.wire THEN collect_leaves(d, d.wire[e.p]) ELSE {e.p}
    ELSE UNION {collect_leaves(d, e.args[k]) : k \in DOMAIN e.args}

RECURSIVE reads_memory(_, _)
reads_memory(d, e) ==
    \/ e.op = "memread"
    \/ e.op = "signal" /\ e.p \in DOMAIN d.wire /\ reads_memory(d, d.wire[e.p])
    \/ \E k \in DOMAIN e.args : reads_memory(d, e.args[k])

register_support(d, r) == [support |-> collect_leaves(d, d.next[r]), mem |-> reads_memory(d, d.next[r])]

RECURSIVE node_cost(_)
node_cost(e) == 1 + MapThenSumSet(LAMBDA k : node_cost(e.args[k]), DOMAIN e.args)

\* The nodes of an expression of a class of accelerator work.
RECURSIVE count_by_class(_, _)
count_by_class(e, class) ==
    (IF class = (CASE e.op = "memread" -> "gather" [] e.op = "mul" -> "mac" [] OTHER -> "general") THEN 1 ELSE 0)
    + MapThenSumSet(LAMBDA k : count_by_class(e.args[k], class), DOMAIN e.args)
------------------------------------------------------------------------------
(* Strength reduction.                                                     *)

\* Non-adjacent form of c from bit k on: <<shift, sign>> pairs.
RECURSIVE naf(_, _, _)
naf(c, k, w) ==
    IF c = 0 \/ k > w + 1 THEN <<>>
    ELSE LET sign == IF c % 4 = 3 THEN -1 ELSE 1
         IN IF c % 2 = 0 THEN naf(c \div 2, k + 1, w)
            ELSE (IF k < w THEN <<<<k, sign>>>> ELSE <<>>) \o naf((c - sign) \div 2, k + 1, w)

shift_left(e, k, w) ==
    IF k = 0 THEN e ELSE X("trunc", w, <<X("concat", w + k, <<e, Literal(0, k)>>, 0)>>, 0)

RECURSIVE build_shift_add(_, _, _)
build_shift_add(e, terms, w) ==
    LET term == terms[Len(terms)]
        shifted == shift_left(e, term[1], w)
        op == IF term[2] > 0 THEN "add" ELSE "sub"
    IN IF Len(terms) > 1 THEN X(op, w, <<build_shift_add(e, Front(terms), w), shifted>>, 0)
       ELSE IF term[2] > 0 THEN shifted ELSE X("sub", w, <<Literal(0, w), shifted>>, 0)

RECURSIVE reduce_expr(_)
reduce_expr(expr) ==
    LET e == [expr EXCEPT !.args = [k \in DOMAIN @ |-> reduce_expr(@[k])]]
        lits == {k \in DOMAIN e.args : e.args[k].op = "lit"}
        at == CHOOSE k \in lits : TRUE
        c == Fit(e.args[at].p, e.w)
        terms == naf(c, 0, e.w)
    IN IF e.op # "mul" \/ Cardinality(lits) # 1 THEN e
       ELSE IF c = 0 THEN Literal(0, e.w)
       ELSE IF e.w > MinReduceWidth /\ Len(terms) \in 1..MaxTerms THEN build_shift_add(e.args[3 - at], terms, e.w)
       ELSE e

strength_reduce_program(d) ==
    [d EXCEPT !.wire = [s \in DOMAIN @ |-> reduce_expr(@[s])], !.next = [r \in DOMAIN @ |-> reduce_expr(@[r])]]
------------------------------------------------------------------------------
(* Affine cones.                                                           *)

is_const(e) == e.op = "lit"

\* mutant: an AND of two linear operands is taken for linear
RECURSIVE is_linear_any_and(_, _)
is_linear_any_and(d, e) ==
    CASE e.op = "signal" -> e.p \in DOMAIN d.wire => is_linear_any_and(d, d.wire[e.p])
      [] e.op \in {"lit", "not", "slice", "zext", "sext", "trunc", "cast", "xor", "concat", "and", "or"} ->
             \A k \in DOMAIN e.args : is_linear_any_and(d, e.args[k])
      [] OTHER -> FALSE

RECURSIVE is_linear(_, _)
is_linear(d, e) ==
    CASE e.op = "signal" -> e.p \in DOMAIN d.wire => is_linear(d, d.wire[e.p])
      [] e.op \in {"lit", "not", "slice", "zext", "sext", "trunc", "cast", "xor", "concat"} ->
             \A k \in DOMAIN e.args : is_linear(d, e.args[k])
      [] e.op \in {"and", "or"} -> \E k \in 1..2 : is_const(e.args[k]) /\ is_linear(d, e.args[3 - k])
      [] OTHER -> FALSE

\* The constant and, for each bit of a leaf, the output bits it flips, found
\* by evaluating the cone on the zero and the unit vectors.
extract_linear_form(d, e) ==
    LET leaves == collect_leaves(d, e)
        value(bits) == eval_expr(d, e, [s \in leaves |-> ToValue(s, bits)])
        outBits(v) == {n \in 0..(e.w - 1) : BitOf(v, n) = 1}
        constant == outBits(value({}))
    IN [constant |-> constant,
        columns |-> [b \in UNION {BitsOf(s) : s \in leaves} |-> Plus(outBits(value({b})), constant)]]

\* LinearForm::eval: the columns of the bits that are set
FormEval(form, bits) == FoldSet(LAMBDA b, out : Plus(form.columns[b], out), form.constant, bits \cap DOMAIN form.columns)

lin_regs(d) == {r \in Regs : is_linear(d, d.next[r])}

\* The shared chain of a select on one signal: its muxes' arms and the default.
\* A case of several labels is an or-tree over the same signal.
RECURSIVE cond_selector(_)
cond_selector(e) ==
    IF e.op = "eq" /\ {e.args[k].op : k \in 1..2} = {"signal", "lit"}
    THEN {e.args[k].p : k \in {k \in 1..2 : e.args[k].op = "signal"}}
    ELSE IF e.op = "or" /\ cond_selector(e.args[1]) = cond_selector(e.args[2]) THEN cond_selector(e.args[1])
    ELSE {}

RECURSIVE select_arms(_, _)
select_arms(e, sel) ==
    IF e.op = "mux" /\ cond_selector(e.args[1]) = {sel} THEN <<e.args[2]>> \o select_arms(e.args[3], sel) ELSE <<e>>

RECURSIVE is_const_expr(_)
is_const_expr(e) == e.op \notin {"signal", "memread"} /\ \A k \in DOMAIN e.args : is_const_expr(e.args[k])

RECURSIVE find_selects(_)
find_selects(e) ==
    LET sels == IF e.op = "mux" THEN cond_selector(e.args[1]) ELSE {}
        sel == CHOOSE s \in sels : TRUE
        arms == select_arms(e, sel)
    IN IF sels # {} /\ Len(arms) > 2
       THEN {[e |-> e, selector |-> sel, total |-> Len(arms),
              const |-> Cardinality({k \in DOMAIN arms : is_const_expr(arms[k])})]}
            \cup UNION {find_selects(arms[k]) : k \in DOMAIN arms}
       ELSE UNION {find_selects(e.args[k]) : k \in DOMAIN e.args}
------------------------------------------------------------------------------
(* Matrices: a row per bit, the set of bits it sums.                       *)

Apply(m, v) == {b \in DOMAIN m : Cardinality(m[b] \cap v) % 2 = 1}
Identity(bits) == [b \in bits |-> {b}]

\* mutant: rows are joined and not summed
matmul_union(m, n) == [b \in DOMAIN m |-> UNION {n[x] : x \in m[b]}]

matmul(m, n) == [b \in DOMAIN m |-> FoldSet(LAMBDA x, row : Plus(n[x], row), {}, m[b])]

\* by squaring
RECURSIVE pow(_, _)
pow(m, e) == IF e = 0 THEN Identity(DOMAIN m)
             ELSE LET half == pow(matmul(m, m), e \div 2) IN IF e % 2 = 1 THEN matmul(m, half) ELSE half

\* Inputs are packed one after the other, in an order that matters only past
\* the word, where a shift takes its amount modulo the word.
InputBase(leaves) ==
    [s \in Range(leaves) |->
       MapThenSumSet(LAMBDA k : SignalWidth[leaves[k]],
                     {k \in DOMAIN leaves : \E l \in DOMAIN leaves : k < l /\ leaves[l] = s})]

\* The bits that sum up to a bit of a register, in registers of these forms.
Reads(form, b) == {x \in DOMAIN form[b[1]].columns : b[2] \in form[b[1]].columns[x]}

LeapOf(form, bits, base) ==
    [bits |-> bits, ok |-> Cardinality(bits) \in 1..WordBits, input_base |-> base,
     m |-> [b \in bits |-> Reads(form, b) \cap bits],
     b |-> [b \in bits |-> {(base[x[1]] + x[2]) % WordBits : x \in Reads(form, b) \ bits}],
     c |-> {b \in bits : b[2] \in form[b[1]].constant}]

LeapFor(form) ==
    LeapOf(form, UNION {BitsOf(r) : r \in DOMAIN form},
           InputBase(SetToSeq(UNION {{x[1] : x \in DOMAIN form[r].columns} : r \in DOMAIN form} \ DOMAIN form)))

\* LinearLeap::build: transition, input and constant parts; nothing when the
\* state does not fit a word.  Resets are not part of it.
LeapBuild(d) == LeapFor([r \in lin_regs(d) |-> extract_linear_form(d, d.next[r])])

\* The held inputs as one word: bits shifted past it are lost.
PackInputs(leap, values) ==
    UNION {{(leap.input_base[s] % WordBits) + x[2] : x \in ToBits(s, values[s])} : s \in DOMAIN leap.input_base}
    \cap 0..(WordBits - 1)

input_constant(leap, u) == Plus(Apply(leap.b, u), leap.c)

FullWord(leap) == Cardinality(leap.bits) >= WordBits

\* The zero-input step to the n-th power, with the constant as one more bit;
\* a state that fills the word has no room for it and goes without.
One == <<"one", 0>>

Augmented(leap) ==
    [b \in leap.bits \cup {One} |-> IF b = One THEN {One} ELSE leap.m[b] \cup (IF b \in leap.c THEN {One} ELSE {})]

\* mutant: the last state with room for the constant is taken for a full one
idle_operator_no_room(leap, n) ==
    pow(IF Cardinality(leap.bits) >= WordBits - 1 THEN leap.m ELSE Augmented(leap), n)

idle_operator(leap, n) == pow(IF FullWord(leap) THEN leap.m ELSE Augmented(leap), n)

apply_idle(leap, op, s) == IF FullWord(leap) THEN Apply(op, s) ELSE Apply(op, s \cup {One}) \ {One}

\* [M I; 0 I] to the n-th power: its upper blocks.
leap_operators(leap, n) ==
    LET low(b) == <<"low", b[1], b[2]>>
        rows == [x \in leap.bits \cup {low(b) : b \in leap.bits} |->
                   IF x[1] = "low" THEN {x} ELSE leap.m[x] \cup {low(x)}]
        p == pow(rows, n)
    IN [mn |-> [b \in leap.bits |-> p[b] \cap leap.bits],
        gn |-> [b \in leap.bits |-> {x \in leap.bits : low(x) \in p[b]}]]

StepFrom(leap, s, stream) == FoldLeft(LAMBDA v, u : Plus(Apply(leap.m, v), input_constant(leap, u)), s, stream)

\* Segments run from zero each on a thread of its own, then chained.
fold(leap, s, len, results) ==
    Plus(Apply(pow(leap.m, len * Len(results)), s),
         FoldLeft(LAMBDA acc, v : Plus(Apply(pow(leap.m, len), acc), v), {}, results))

fold_stream(leap, s, stream, p) ==
    IF p <= 1 \/ stream = <<>> \/ Len(stream) % p # 0 THEN StepFrom(leap, s, stream)
    ELSE LET l == Len(stream) \div p
         IN fold(leap, s, l, [k \in 1..p |-> StepFrom(leap, {}, SubSeq(stream, (k - 1) * l + 1, k * l))])
------------------------------------------------------------------------------
(* The engines.                                                            *)

Asserted(reset, v) == reset # NoReset /\ (v = 0) = reset.low

\* One cycle of the registers of regs, whose expressions see the given leaves.
RefTick(d, regs, leaves) ==
    [r \in regs |-> IF Asserted(d.reset[r], IF d.reset[r] = NoReset THEN 0 ELSE leaves[d.reset[r].signal])
                    THEN d.reset[r].value ELSE eval_expr(d, d.next[r], leaves)]

input_leaves(d) ==
    UNION {collect_leaves(d, d.next[r]) \ lin_regs(d) : r \in lin_regs(d)}
    \cup ({d.reset[r].signal : r \in lin_regs(d)} \ {""})

tracked(d) == lin_regs(d) \cup input_leaves(d)

\* tick_lin: every next state from the old planes, then all are committed.
LinTick(d, planes) ==
    LET bits == UNION {ToBits(s, planes[s]) : s \in DOMAIN planes}
        next(r) == LET form == extract_linear_form(d, d.next[r])
                   IN MapThenSumSet(LAMBDA n : 2^n, FormEval(form, bits))
        reset(r) == d.reset[r] # NoReset /\ Asserted(d.reset[r], planes[d.reset[r].signal])
    IN [s \in DOMAIN planes |-> IF s \notin lin_regs(d) THEN planes[s]
                                ELSE IF reset(s) THEN d.reset[s].value ELSE next(s)]

\* Output ports that rename a linear register.
RECURSIVE alias_target(_)
alias_target(e) == CASE e.op = "signal" -> {e.p}
                     [] e.op \in {"cast", "zext", "trunc"} -> alias_target(e.args[1])
                     [] OTHER -> {}

output_alias(d) == [s \in {w \in DOMAIN d.wire : alias_target(d.wire[w]) \cap lin_regs(d) # {}} |->
                      CHOOSE r \in alias_target(d.wire[s]) : TRUE]

observe(d) == (Regs \ lin_regs(d)) \cup (DOMAIN d.wire \ DOMAIN output_alias(d))

OpReads(d, s) ==
    IF s \in DOMAIN d.wire THEN collect_leaves(d, d.wire[s])
    ELSE IF s \in Regs THEN collect_leaves(d, d.next[s]) \cup ({d.reset[s].signal} \ {""})
    ELSE {}

\* The cone goes through registers: a linear register the rest reads is
\* computed by the general engine as well.
RECURSIVE slice_signals(_, _)
slice_signals(d, present) ==
    LET more == UNION {OpReads(d, s) : s \in present}
    IN IF more \subseteq present THEN present ELSE slice_signals(d, present \cup more)

nl_signals(d) == slice_signals(d, observe(d)) \ DOMAIN d.wire

GenTick(d, values) ==
    LET next == RefTick(d, DOMAIN values \cap Regs, values)
    IN [s \in DOMAIN values |-> IF s \in Regs THEN next[s] ELSE values[s]]

\* linear leaves that are registers of the general engine
lin_from_general(d) == input_leaves(d) \cap (Regs \ lin_regs(d))
coupled(d) == lin_from_general(d) # {}
lin_caller_inputs(d) == input_leaves(d) \ (Regs \ lin_regs(d))

exchange(d, l, g) == [s \in DOMAIN l |-> IF s \in lin_from_general(d) THEN g[s] ELSE l[s]]

RECURSIVE Twice(_, _, _, _)
Twice(d, l, g, n) ==
    IF n = 0 THEN [lin |-> l, gen |-> g]
    ELSE Twice(d, LinTick(d, IF coupled(d) THEN exchange(d, l, g) ELSE l), GenTick(d, g), n - 1)

RECURSIVE RefTicks(_, _, _)
RefTicks(d, regs, n) == IF n = 0 THEN regs ELSE RefTicks(d, RefTick(d, Regs, regs @@ held), n - 1)

\* The state after n cycles with the inputs held.
LeapState(leap, l, s0, n) ==
    LET ops == leap_operators(leap, n)
    IN IF 2 * Cardinality(leap.bits) <= WordBits
       THEN Plus(Apply(ops.mn, s0), Apply(ops.gn, input_constant(leap, PackInputs(leap, l))))
       ELSE apply_idle(leap, idle_operator(leap, n), s0)

LeapLinear(d, l, regs, n) ==
    LET s1 == LeapState(LeapBuild(d), l, UNION {ToBits(s, l[s]) : s \in regs}, n)
    IN [s \in DOMAIN l |-> IF s \in regs THEN ToValue(s, s1) ELSE l[s]]
------------------------------------------------------------------------------
\* GeneralEngine::build takes the vector JIT when its slice fits.
JitFits(d) == \A s \in slice_signals(d, observe(d)) : SignalWidth[s] <= JitWidth

\* HybridSimulator::new: registers start at zero.  There must be a linear
\* register, coupled parts need the JIT, and the leap must fit its word.
Build(d) ==
    /\ lin_regs(d) # {} /\ LeapBuild(d).ok
    /\ coupled(d) => JitFits(d)
    /\ lin = [s \in tracked(d) |-> 0]
    /\ gen = [s \in nl_signals(d) |-> 0]

HybridInit ==
    /\ original \in Designs
    /\ design \in {original, strength_reduce_program(original)}
    /\ Build(design)
    /\ held = [i \in Inputs |-> 0] /\ exact = [r \in Regs |-> 0] /\ ticks = 0 /\ misled = FALSE

set_signal(i, v) ==
    /\ held[i] # v /\ held' = [held EXCEPT ![i] = v]
    /\ lin' = [s \in DOMAIN lin |-> IF s = i /\ i \in lin_caller_inputs(design) THEN v ELSE lin[s]]
    /\ gen' = [s \in DOMAIN gen |-> IF s = i THEN v ELSE gen[s]]
    /\ UNCHANGED <<design, original, exact, ticks, misled>>

\* tick, and tick_many: uncoupled, each engine runs its n cycles on its own.
tick_many(n) ==
    /\ ticks + n <= MaxTicks
    /\ LET r == Twice(design, lin, gen, n) IN lin' = r.lin /\ gen' = r.gen
    /\ exact' = RefTicks(original, exact, n)
    /\ ticks' = ticks + n
    /\ UNCHANGED <<design, original, held, misled>>

\* Past half a word a leap takes the inputs for zero, and it mixes inputs that
\* do not fit a word.  A state that fills the word loses its constant.
TakesInputs(leap) ==
    /\ 2 * Cardinality(leap.bits) <= WordBits
    /\ MapThenSumSet(LAMBDA s : SignalWidth[s], DOMAIN leap.input_base) <= WordBits

FitsWord(leap) ==
    /\ TakesInputs(leap) \/ \A s \in DOMAIN leap.input_base : held[s] = 0
    /\ FullWord(leap) => leap.c = {}

\* A leap knows no resets.
ResetQuiet(reset) == \/ reset = NoReset
                     \/ reset.signal \in Inputs /\ ~Asserted(reset, held[reset.signal])

\* Where a leap is n ticks.
LeapValid ==
    \/ coupled(design)
    \/ FitsWord(LeapBuild(design)) /\ \A r \in lin_regs(design) : ResetQuiet(design.reset[r])

Leap(n) ==
    /\ ticks + n <= MaxTicks
    /\ LET r == Twice(design, lin, gen, n)
       IN gen' = r.gen /\ lin' = IF coupled(design) THEN r.lin ELSE LeapLinear(design, lin, lin_regs(design), n)
    /\ exact' = RefTicks(original, exact, n)
    /\ ticks' = ticks + n
    /\ misled' = (misled \/ ~LeapValid)
    /\ UNCHANGED <<design, original, held>>

\* Setting an input that the design does not read changes nothing.
ReadInputs == UNION {OpReads(original, s) : s \in Regs \cup Wires} \cap Inputs

HybridNext ==
    \/ \E i \in ReadInputs : \E v \in InputValues[i] : set_signal(i, v)
    \/ \E n \in 1..MaxLeap : tick_many(n)
    \/ \E n \in 1..MaxLeap : Leap(n)
------------------------------------------------------------------------------
get_signal(s) ==
    IF s \in DOMAIN output_alias(design) THEN lin[output_alias(design)[s]]
    ELSE IF s \in lin_regs(design) THEN lin[s]
    ELSE IF s \in DOMAIN design.wire THEN eval_expr(design, design.wire[s], gen)
    ELSE gen[s]

Leaves(d, bits) == [s \in Inputs \cup Regs |-> ToValue(s, bits)]

\* Every form found for a linear register is its next value on every input.
FormsExact ==
    \A r \in lin_regs(design) :
      LET e == design.next[r]
          form == extract_linear_form(design, e)
      IN \A bits \in SUBSET DOMAIN form.columns :
           MapThenSumSet(LAMBDA n : 2^n, FormEval(form, bits)) = eval_expr(design, e, Leaves(design, bits))

\* A register whose support keeps its value has the same next value.
SupportExact ==
    \A r \in Regs :
      LET s == register_support(design, r).support
          bits == UNION {BitsOf(x) : x \in s}
          rest == UNION {BitsOf(x) : x \in (Inputs \cup Regs) \ s}
      IN \A on \in SUBSET bits :
           eval_expr(design, design.next[r], Leaves(design, on))
               = eval_expr(design, design.next[r], Leaves(design, on \cup rest))

\* A select whose arms are all constant is a function of its selector, and
\* the classes of work partition a cone.
ProfilesExact ==
    \A r \in Regs :
      LET e == design.next[r]
      IN /\ node_cost(e) = count_by_class(e, "gather") + count_by_class(e, "mac") + count_by_class(e, "general")
         /\ \A sel \in find_selects(e) : sel.const = sel.total => collect_leaves(design, sel.e) = {sel.selector}

Streams == [1..4 -> {{}, {0}}]

\* A stream folded in segments ends where stepping does.
FoldExact(leap) ==
    \A stream \in Streams : \A p \in 1..4 :
      fold_stream(leap, leap.bits, stream, p) = StepFrom(leap, leap.bits, stream)

(***************************************************************************)
(* However it is driven, ticked and leapt, the hybrid simulator shows      *)
(* every register and every output as the program itself computes them;    *)
(* and what it is built from is exact: the forms of the linear cones, the  *)
(* supports, the profiles and the folding of input streams.                *)
(***************************************************************************)
HybridExact ==
    /\ ~misled => \A r \in Regs : get_signal(r) = exact[r]
    /\ ~misled => \A w \in Wires : get_signal(w) = eval_expr(original, original.wire[w], exact @@ held)
    /\ ticks = 0 /\ (\A i \in Inputs : held[i] = 0) => FormsExact /\ SupportExact /\ ProfilesExact /\ FoldExact(LeapBuild(design))
==============================================================================
