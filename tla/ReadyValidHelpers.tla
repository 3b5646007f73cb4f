-------------------------- MODULE ReadyValidHelpers --------------------------
(***************************************************************************)
(* The ready/valid helpers of ModuleBuilder (rrtl-core): the checks each   *)
(* of rv_connect, rv_register_slice, rv_skid_buffer, rv_fifo and           *)
(* rv_mem_fifo makes on its two endpoints, the diagnostics it pushes and   *)
(* the drivers it emits.  An endpoint is a role and a payload; a payload   *)
(* is scalar with one leaf, or a bundle with a sequence of leaves (path,   *)
(* type).  A type is a signedness and a width.                             *)
(***************************************************************************)
EXTENDS Naturals, Sequences, FiniteSets

CONSTANTS Endpoints,  \* endpoints a caller may pass
          Depths,     \* FIFO depths a caller may pass
          UsizeMax    \* the largest of them a usize holds

Leaf(path, ty) == [path |-> path, ty |-> ty]
Paths(leaves) == {leaves[i].path : i \in DOMAIN leaves}
TypeAt(leaves, p) == leaves[CHOOSE i \in DOMAIN leaves : leaves[i].path = p].ty

\* bits of the first k leaves, for every k
WidthsTo(leaves) ==
    LET upto[k \in 0..Len(leaves)] == IF k = 0 THEN 0 ELSE upto[k - 1] + leaves[k].ty.width
    IN  upto

\* bits of all leaves
SumWidths(leaves) == WidthsTo(leaves)[Len(leaves)]

------------------------------------------------------------------------------
(* Payload checks. A code is a pair: the helper's tag and the complaint.   *)

FieldMissing(in, out) == ~(Paths(out) \subseteq Paths(in))
FieldExtra(in, out) == ~(Paths(in) \subseteq Paths(out))
FieldTypeDiffers(in, out) ==
    \E p \in Paths(in) \cap Paths(out) : TypeAt(in, p) # TypeAt(out, p)

PayloadCodes(tag, in, out) ==
    (IF FieldMissing(in, out) THEN {<<tag, "FIELD_MISSING">>} ELSE {})
    \cup (IF FieldExtra(in, out) THEN {<<tag, "FIELD_EXTRA">>} ELSE {})
    \cup (IF FieldTypeDiffers(in, out) THEN {<<tag, "PAYLOAD_TYPE">>} ELSE {})

\* rv_connect reports every bundle mismatch under one code.
validate_rv_connect_bundle_payloads(in, out) ==
    IF FieldMissing(in, out) \/ FieldExtra(in, out) \/ FieldTypeDiffers(in, out)
    THEN {<<"CONNECT", "PAYLOAD_TYPE">>} ELSE {}

\* Mutant: extra fields of the input are not reported.
validate_rv_slice_lenient(in, out) == PayloadCodes("SLICE", in, out) \ {<<"SLICE", "FIELD_EXTRA">>}

validate_rv_slice_bundle_payloads(in, out) == PayloadCodes("SLICE", in, out)

validate_rv_skid_bundle_payloads(in, out) == PayloadCodes("SKID", in, out)

validate_rv_fifo_bundle_payloads(in, out) == PayloadCodes("FIFO", in, out)

validate_rv_mem_fifo_bundle_payloads(in, out) == PayloadCodes("MEM_FIFO", in, out)

\* Roles first, then the kinds of the two payloads, then their types; of two
\* bundles, bundleCodes.
EndpointCodes(tag, in, out, bundleCodes) ==
    IF in.role # "Sink" \/ out.role # "Source" THEN {<<tag, "ROLE">>}
    ELSE IF in.kind # out.kind THEN {<<tag, "PAYLOAD_KIND">>}
    ELSE IF in.kind # "scalar" THEN bundleCodes
    ELSE IF in.leaves[1].ty # out.leaves[1].ty THEN {<<tag, "PAYLOAD_TYPE">>} ELSE {}

\* The number of count values, depth + 1, has to fit a usize.
FifoCodes(tag, in, out, entries, bundleCodes) ==
    IF entries < 2 \/ entries + 1 > UsizeMax THEN {<<tag, "DEPTH">>} ELSE EndpointCodes(tag, in, out, bundleCodes)
------------------------------------------------------------------------------
(* What a helper emits: drivers as pairs (destination, source), registers  *)
(* and memories as names. Nothing is emitted when there is a code.         *)

Valid(e) == <<e, "valid">>
Ready(e) == <<e, "ready">>
Bits(e, path) == <<e, "bits", path>>
Reg(name, path) == <<"reg", name, path>>

Nothing(codes) == [codes |-> codes, drivers |-> {}, state |-> {}]

PassHandshake == {<<Valid("out"), Valid("in")>>, <<Ready("in"), Ready("out")>>}

rv_connect(in, out) ==
    LET codes == EndpointCodes("CONNECT", in, out, validate_rv_connect_bundle_payloads(in.leaves, out.leaves))
    IN  IF codes # {} THEN Nothing(codes)
        ELSE [codes |-> {}, state |-> {},
              drivers |-> PassHandshake
                  \cup {<<Bits("out", p), Bits("in", p)>> : p \in Paths(out.leaves)}]

\* Mutant: the handshake is emitted before the payloads are compared.
rv_register_slice_early(in, out) ==
    LET codes == EndpointCodes("SLICE", in, out, validate_rv_slice_bundle_payloads(in.leaves, out.leaves))
    IN  [codes |-> codes,
         state |-> {Reg("valid_q", <<>>)} \cup {Reg("bits_q", p) : p \in Paths(out.leaves)},
         drivers |-> {<<Ready("in"), Ready("out")>>, <<Valid("out"), Reg("valid_q", <<>>)>>}
             \cup {<<Bits("out", p), Reg("bits_q", p)>> : p \in Paths(out.leaves)}]

rv_register_slice(in, out) ==
    LET codes == EndpointCodes("SLICE", in, out, validate_rv_slice_bundle_payloads(in.leaves, out.leaves))
    IN  IF codes # {} THEN Nothing(codes)
        ELSE [codes |-> {},
              state |-> {Reg("valid_q", <<>>)} \cup {Reg("bits_q", p) : p \in Paths(out.leaves)},
              drivers |-> {<<Ready("in"), Ready("out")>>, <<Valid("out"), Reg("valid_q", <<>>)>>}
                  \cup {<<Bits("out", p), Reg("bits_q", p)>> : p \in Paths(out.leaves)}]

rv_skid_buffer(in, out) ==
    LET codes == EndpointCodes("SKID", in, out, validate_rv_skid_bundle_payloads(in.leaves, out.leaves))
    IN  IF codes # {} THEN Nothing(codes)
        ELSE [codes |-> {},
              state |-> {Reg("full_q", <<>>)} \cup {Reg("bits_q", p) : p \in Paths(out.leaves)},
              drivers |-> {<<Ready("in"), "not full_q or out ready">>,
                           <<Valid("out"), "full_q or in valid">>}
                  \cup {<<Bits("out", p), <<Reg("bits_q", p), Bits("in", p)>> >> : p \in Paths(out.leaves)}]

FifoControl == {Reg("count_q", <<>>), Reg("wptr_q", <<>>), Reg("rptr_q", <<>>)}
FifoHandshake == {<<Ready("in"), "count_q # depth">>, <<Valid("out"), "count_q # 0">>}

rv_fifo(in, out, depth) ==
    LET codes == FifoCodes("FIFO", in, out, depth, validate_rv_fifo_bundle_payloads(in.leaves, out.leaves))
        entry(p, i) == Reg("data_q", Append(p, i))
    IN  IF codes # {} THEN Nothing(codes)
        ELSE [codes |-> {},
              state |-> FifoControl
                  \cup {entry(p, i) : p \in Paths(out.leaves), i \in 0..depth-1},
              drivers |-> FifoHandshake
                  \cup {<<Bits("out", p), [i \in 0..depth-1 |-> entry(p, i)]>> : p \in Paths(out.leaves)}]

\* Mutant: the slice starts at the field's own bits instead of the bits below.
unpack_bundle_field_off(leaves, index) ==
    LET lsb == SumWidths(SubSeq(leaves, index, Len(leaves)))
    IN  <<lsb, leaves[index].ty.width>>

\* lsb and width of leaf number index in the stored word
unpack_bundle_field(leaves, index) ==
    LET lsb == SumWidths(SubSeq(leaves, index + 1, Len(leaves)))
    IN  <<lsb, leaves[index].ty.width>>

bundle_packed_width(leaves) == SumWidths(leaves)

rv_mem_fifo(in, out, depth) ==
    LET codes == FifoCodes("MEM_FIFO", in, out, depth,
                           validate_rv_mem_fifo_bundle_payloads(in.leaves, out.leaves))
        slice(i) == unpack_bundle_field(out.leaves, i)
    IN  IF codes # {} THEN Nothing(codes)
        ELSE [codes |-> {},
              state |-> FifoControl \cup {<<"mem", bundle_packed_width(out.leaves)>>},
              drivers |-> FifoHandshake
                  \cup {<<Bits("out", out.leaves[i].path), <<"mem read", slice(i)>> >> :
                          i \in DOMAIN out.leaves}]
------------------------------------------------------------------------------
(* The endpoints of a design validate_design accepts: a scalar payload is  *)
(* one leaf without a path, and a bundle has no field twice                *)
(* (E_BUNDLE_FIELD_DUP).                                                   *)
EndpointAssumption ==
    /\ UsizeMax \in Nat /\ Depths \subseteq 0..UsizeMax
    /\ \A e \in Endpoints :
         /\ e.leaves \in Seq({e.leaves[i] : i \in DOMAIN e.leaves})
         /\ \A i \in DOMAIN e.leaves : e.leaves[i].ty.width \in Nat
         /\ \A i, j \in DOMAIN e.leaves : e.leaves[i].path = e.leaves[j].path => i = j
         /\ e.kind = "scalar" => Len(e.leaves) = 1 /\ e.leaves[1].path = <<>>

VARIABLES helper,   \* "none", then the helper that was called
          input, output, depth,
          emitted

helperVars == <<helper, input, output, depth, emitted>>

Unbuilt == [codes |-> {<<"none", "none">>}, drivers |-> {}, state |-> {}]

HelperInit ==
    /\ helper = "none" /\ emitted = Unbuilt
    /\ input \in Endpoints /\ output \in Endpoints /\ depth \in Depths

Build(h, result) ==
    /\ helper = "none"
    /\ helper' = h /\ emitted' = result
    /\ UNCHANGED <<input, output, depth>>

HelperNext ==
    \/ Build("connect", rv_connect(input, output))
    \/ Build("register_slice", rv_register_slice(input, output))
    \/ Build("skid_buffer", rv_skid_buffer(input, output))
    \/ Build("fifo", rv_fifo(input, output, depth))
    \/ Build("mem_fifo", rv_mem_fifo(input, output, depth))

HelperSpec == HelperInit /\ [][HelperNext]_helperVars
------------------------------------------------------------------------------
Emitted == emitted.codes = {}

(***************************************************************************)
(* A helper that reports nothing has driven every signal of the module's   *)
(* side of both endpoints exactly once: ready of the input, valid and      *)
(* every bits leaf of the output; one that reports drove nothing.          *)
(***************************************************************************)
DrivesEachPortOnce ==
    helper # "none" =>
      LET driven == {d[1] : d \in emitted.drivers}
          owed == {Ready("in"), Valid("out")} \cup {Bits("out", p) : p \in Paths(output.leaves)}
      IN  IF Emitted THEN driven = owed /\ Cardinality(emitted.drivers) = Cardinality(owed)
          ELSE emitted.drivers = {} /\ emitted.state = {}

(***************************************************************************)
(* A helper that reports nothing joined a sink to a source whose payloads  *)
(* have the same leaves with the same types, so no leaf is dropped and no  *)
(* width or sign is changed on the way.                                    *)
(***************************************************************************)
JoinsEqualPayloads ==
    helper # "none" /\ Emitted =>
      /\ input.role = "Sink" /\ output.role = "Source"
      /\ Paths(input.leaves) = Paths(output.leaves)
      /\ \A p \in Paths(output.leaves) : TypeAt(input.leaves, p) = TypeAt(output.leaves, p)

\* bits a slice covers
BitsOf(slice) == slice[1]..(slice[1] + slice[2] - 1)

(***************************************************************************)
(* The fields a memory FIFO unpacks tile the stored word: each field reads *)
(* the bits it was packed into (the concatenation puts the first leaf on   *)
(* top), and no two overlap.                                               *)
(***************************************************************************)
UnpackTilesWord ==
    helper = "mem_fifo" /\ Emitted =>
      LET leaves == output.leaves
          top(i) == SumWidths(leaves) - SumWidths(SubSeq(leaves, 1, i - 1))
      IN  \A i \in DOMAIN leaves :
            \E d \in emitted.drivers :
              /\ d[1] = Bits("out", leaves[i].path)
              /\ BitsOf(d[2][2]) = (top(i) - leaves[i].ty.width)..(top(i) - 1)

(***************************************************************************)
(* What ModuleBuilder's ready/valid helpers emit, over every pair of       *)
(* endpoints: all of the joint or nothing, and only between equal payloads.*)
(***************************************************************************)
HelpersSound == DrivesEachPortOnce /\ JoinsEqualPayloads /\ UnpackTilesWord
==============================================================================
