-------------------------- MODULE ReadyValidProofs ---------------------------
(***************************************************************************)
(* The ready/valid system of ReadyValid, for every FIFO depth, payload   *)
(* and set of endpoints: what the helpers emit is sound, and each of the   *)
(* buffering parts implements the channel.  RvCircuitsProofs has the       *)
(* invariants and refinements of the circuits; this module has those of    *)
(* the helpers and puts the parts together.                                *)
(***************************************************************************)
EXTENDS ReadyValid, FiniteSetTheorems, SequenceTheorems, WellFoundedInduction, TLAPS

-----------------------------------------------------------------------------
(* Induction over a set of numbers: a least number outside it would be the *)
(* successor of one inside.                                                *)

LEMMA LeastNat ==
    ASSUME NEW T, T \subseteq Nat, T # {}
    PROVE  \E x \in T : \A y \in T : x <= y
<1>1. IsWellFoundedOn(OpToRel(<, Nat), Nat)
    BY NatLessThanWellFounded
<1>2. PICK x \in T : \A y \in T : ~(<<y, x>> \in OpToRel(<, Nat))
    BY <1>1, WFMin
<1>3. \A y \in T : ~(y < x)
    BY <1>2 DEF OpToRel
<1> QED BY <1>3

LEMMA SetOfAllNat ==
    ASSUME NEW T, 0 \in T, \A n \in Nat : n \in T => n + 1 \in T
    PROVE  Nat \subseteq T
<1> SUFFICES ASSUME Nat \ T # {} PROVE FALSE
    OBVIOUS
<1>1. PICK x \in Nat \ T : \A y \in Nat \ T : x <= y
    BY LeastNat
<1>2. x # 0 /\ x - 1 \in Nat /\ (x - 1) + 1 = x
    BY <1>1
<1>3. x - 1 \in T
    BY <1>1, <1>2
<1> QED BY <1>1, <1>2, <1>3

-----------------------------------------------------------------------------
(* Widths of a sequence of leaves.                                         *)

WellFormed(leaves) ==
    /\ leaves \in Seq({leaves[i] : i \in DOMAIN leaves})
    /\ \A i \in DOMAIN leaves : leaves[i].ty.width \in Nat

LEMMA WidthsExist ==
    ASSUME NEW leaves, WellFormed(leaves)
    PROVE  WidthsTo(leaves) = [k \in 0..Len(leaves) |->
                                 IF k = 0 THEN 0 ELSE WidthsTo(leaves)[k - 1] + leaves[k].ty.width]
<1> DEFINE Defines(f, n) == f = [k \in 0..n |-> IF k = 0 THEN 0 ELSE f[k - 1] + leaves[k].ty.width]
           T == {n \in Nat : \E f : Defines(f, n)}
<1>1. 0 \in T
    <2> DEFINE f == [k \in 0..0 |-> 0]
    <2>1. f = [k \in 0..0 |-> IF k = 0 THEN 0 ELSE f[k - 1] + leaves[k].ty.width]
        OBVIOUS
    <2> QED BY <2>1
<1>2. ASSUME NEW n \in Nat, n \in T PROVE n + 1 \in T
    <2>1. PICK f : Defines(f, n)
        BY <1>2
    <2> DEFINE g == [k \in 0..(n + 1) |-> IF k = n + 1 THEN f[n] + leaves[n + 1].ty.width ELSE f[k]]
    <2>2. \A k \in 0..(n + 1) : g[k] = IF k = 0 THEN 0 ELSE g[k - 1] + leaves[k].ty.width
        <3> TAKE k \in 0..(n + 1)
        <3>1. CASE k = n + 1
            <4>1. g[k] = f[n] + leaves[k].ty.width /\ k # 0
                BY <3>1
            <4>2. k - 1 = n /\ n \in 0..(n + 1) /\ n # n + 1
                BY <3>1
            <4>3. g[k - 1] = f[n]
                BY <4>2
            <4> QED BY <4>1, <4>3
        <3>2. CASE k # n + 1
            <4>1. k \in 0..n
                BY <3>2
            <4>2. g[k] = f[k]
                BY <3>2
            <4>3. f[k] = IF k = 0 THEN 0 ELSE f[k - 1] + leaves[k].ty.width
                BY <2>1, <4>1
            <4>4. k # 0 => k - 1 \in 0..(n + 1) /\ k - 1 # n + 1
                BY <4>1
            <4>5. k # 0 => g[k - 1] = f[k - 1]
                BY <4>4
            <4> QED BY <4>2, <4>3, <4>5
        <3> QED BY <3>1, <3>2
    <2>3. g = [k \in 0..(n + 1) |-> g[k]]
        OBVIOUS
    <2> HIDE DEF g
    <2>4. Defines(g, n + 1)
        BY <2>2, <2>3
    <2> QED BY <2>4
<1> HIDE DEF T
<1>3. Nat \subseteq T
    BY <1>1, <1>2, SetOfAllNat
<1>4. Len(leaves) \in T
    BY <1>3 DEF WellFormed
<1>5. \E f : Defines(f, Len(leaves))
    BY <1>4 DEF T
<1> QED BY <1>5 DEF WidthsTo

LEMMA WidthsAdd ==
    ASSUME NEW leaves, WellFormed(leaves)
    PROVE  /\ WidthsTo(leaves)[0] = 0
           /\ \A k \in 0..Len(leaves) : WidthsTo(leaves)[k] \in Nat
           /\ \A k \in 1..Len(leaves) :
                WidthsTo(leaves)[k] = WidthsTo(leaves)[k - 1] + leaves[k].ty.width
<1> DEFINE f == WidthsTo(leaves)
           T == {n \in Nat : n <= Len(leaves) => f[n] \in Nat}
<1> HIDE DEF f
<1>0. Len(leaves) \in Nat /\ DOMAIN leaves = 1..Len(leaves)
    BY DEF WellFormed
<1>1. f = [k \in 0..Len(leaves) |-> IF k = 0 THEN 0 ELSE f[k - 1] + leaves[k].ty.width]
    BY WidthsExist DEF f
<1>2. \A k \in 0..Len(leaves) : f[k] = IF k = 0 THEN 0 ELSE f[k - 1] + leaves[k].ty.width
    BY <1>1
<1>3. f[0] = 0
    BY <1>0, <1>2
<1>4. \A k \in 1..Len(leaves) : f[k] = f[k - 1] + leaves[k].ty.width
    BY <1>0, <1>2
<1>5. 0 \in T
    BY <1>3
<1>6. ASSUME NEW n \in Nat, n \in T PROVE n + 1 \in T
    <2>1. SUFFICES ASSUME n + 1 <= Len(leaves) PROVE f[n + 1] \in Nat
        OBVIOUS
    <2>2. n + 1 \in 1..Len(leaves) /\ (n + 1) - 1 = n /\ n <= Len(leaves)
        BY <2>1, <1>0
    <2>3. f[n] \in Nat /\ leaves[n + 1].ty.width \in Nat
        BY <1>0, <1>6, <2>2 DEF WellFormed
    <2>4. f[n + 1] = f[n] + leaves[n + 1].ty.width
        BY <1>4, <2>2
    <2> QED BY <2>3, <2>4
<1>7. Nat \subseteq T
    <2> HIDE DEF T
    <2> QED BY <1>5, <1>6, SetOfAllNat
<1>8. \A k \in 0..Len(leaves) : f[k] \in Nat
    BY <1>0, <1>7
<1> QED BY <1>3, <1>4, <1>8 DEF f

\* A run of leaves cut out of a sequence, from behind place k.
LEMMA PartWidth ==
    ASSUME NEW leaves, WellFormed(leaves), NEW part1, WellFormed(part1), NEW k \in 0..Len(leaves),
           k + Len(part1) <= Len(leaves),
           \A i \in 1..Len(part1) : part1[i] = leaves[k + i]
    PROVE  SumWidths(part1) = WidthsTo(leaves)[k + Len(part1)] - WidthsTo(leaves)[k]
<1> DEFINE f == WidthsTo(leaves)
           g == WidthsTo(part1)
           T == {n \in Nat : n <= Len(part1) => g[n] = f[k + n] - f[k]}
<1>0. Len(leaves) \in Nat /\ Len(part1) \in Nat /\ k \in Nat
    BY DEF WellFormed
<1>1. /\ \A i \in 0..Len(leaves) : f[i] \in Nat
      /\ \A i \in 1..Len(leaves) : f[i] = f[i - 1] + leaves[i].ty.width
    BY WidthsAdd
<1>2. /\ g[0] = 0
      /\ \A i \in 1..Len(part1) : g[i] = g[i - 1] + part1[i].ty.width
    BY WidthsAdd
<1> HIDE DEF f, g
<1>3. 0 \in T
    BY <1>0, <1>1, <1>2
<1>4. ASSUME NEW n \in Nat, n \in T PROVE n + 1 \in T
    <2>1. SUFFICES ASSUME n + 1 <= Len(part1) PROVE g[n + 1] = f[k + (n + 1)] - f[k]
        OBVIOUS
    <2>2. /\ n + 1 \in 1..Len(part1) /\ (n + 1) - 1 = n /\ n <= Len(part1)
          /\ k + (n + 1) \in 1..Len(leaves) /\ (k + (n + 1)) - 1 = k + n /\ k + n \in 0..Len(leaves)
        BY <1>0, <2>1
    <2>3. g[n + 1] = g[n] + part1[n + 1].ty.width
        BY <1>2, <2>2
    <2>4. f[k + (n + 1)] = f[k + n] + leaves[k + (n + 1)].ty.width
        BY <1>1, <2>2
    <2>5. part1[n + 1] = leaves[k + (n + 1)]
        BY <2>2
    <2>6. g[n] = f[k + n] - f[k]
        BY <1>4, <2>2
    <2>7. f[k] \in Nat /\ f[k + n] \in Nat /\ leaves[k + (n + 1)].ty.width \in Nat
        BY <1>1, <2>2 DEF WellFormed
    <2> QED BY <2>3, <2>4, <2>5, <2>6, <2>7
<1>5. Nat \subseteq T
    <2> HIDE DEF T
    <2> QED BY <1>3, <1>4, SetOfAllNat
<1>6. g[Len(part1)] = f[k + Len(part1)] - f[k]
    BY <1>0, <1>5
<1> QED BY <1>6 DEF f, g, SumWidths

-----------------------------------------------------------------------------
(* A memory FIFO's word.                                                   *)

LEMMA CutLeaves ==
    ASSUME NEW leaves, WellFormed(leaves), NEW a \in Nat, NEW b \in Nat, a <= b, b <= Len(leaves)
    PROVE  SumWidths(SubSeq(leaves, a + 1, b)) = WidthsTo(leaves)[b] - WidthsTo(leaves)[a]
<1> DEFINE cut == SubSeq(leaves, a + 1, b)
<1>0. Len(leaves) \in Nat /\ DOMAIN leaves = 1..Len(leaves) /\ b - a \in Nat
    BY DEF WellFormed
<1> DEFINE m == b - a
<1>1. /\ a + 1 \in Int /\ b \in Int /\ m \in Nat
      /\ (b - (a + 1)) + 1 = m
      /\ \A i \in 1..m : ((a + 1) + i) - 1 = a + i /\ a + i \in DOMAIN leaves
      /\ a + 1 > b => m = 0
      /\ \A i \in (a + 1)..b : i \in DOMAIN leaves
    BY <1>0
<1>2. /\ Len(cut) = m
      /\ \A S : (\A i \in (a + 1)..b : leaves[i] \in S) => cut \in Seq(S)
      /\ \A i \in 1..m : cut[i] = leaves[((a + 1) + i) - 1]
    BY <1>1, SubSeqProperties
<1> HIDE DEF cut
<1>3. /\ DOMAIN cut = 1..m
      /\ \A i \in 1..m : cut[i] = leaves[a + i]
    <2>1. cut \in Seq({leaves[i] : i \in DOMAIN leaves})
        BY <1>1, <1>2
    <2> QED BY <1>1, <1>2, <2>1
<1>4. cut \in Seq({cut[i] : i \in DOMAIN cut})
    <2> DEFINE C == {cut[i] : i \in DOMAIN cut}
    <2>1. ASSUME NEW i \in (a + 1)..b PROVE leaves[i] \in C
        <3>1. i - a \in 1..m /\ a + (i - a) = i
            BY <1>1
        <3>2. cut[i - a] = leaves[i]
            BY <1>3, <3>1
        <3> QED BY <1>3, <3>1, <3>2
    <2> HIDE DEF C
    <2>2. cut \in Seq(C)
        BY <1>2, <2>1
    <2> QED BY <2>2 DEF C
<1>5. WellFormed(cut)
    <2>1. \A i \in DOMAIN cut : cut[i].ty.width \in Nat
        BY <1>1, <1>3 DEF WellFormed
    <2> QED BY <1>4, <2>1 DEF WellFormed
<1>6. a \in 0..Len(leaves) /\ a + m = b
    BY <1>0
<1>7. SumWidths(cut) = WidthsTo(leaves)[a + Len(cut)] - WidthsTo(leaves)[a]
    BY <1>2, <1>3, <1>5, <1>6, PartWidth
<1> QED BY <1>2, <1>6, <1>7 DEF cut

\* The field is cut where the concatenation put it.
LEMMA FieldIsTile ==
    ASSUME NEW leaves, WellFormed(leaves), NEW i \in DOMAIN leaves
    PROVE  BitsOf(unpack_bundle_field(leaves, i)) =
             ((SumWidths(leaves) - SumWidths(SubSeq(leaves, 1, i - 1))) - leaves[i].ty.width)
               ..((SumWidths(leaves) - SumWidths(SubSeq(leaves, 1, i - 1))) - 1)
<1> DEFINE f == WidthsTo(leaves)
           n == Len(leaves)
<1>0. n \in Nat /\ i \in 1..n /\ i - 1 \in Nat /\ (0 + 1) = 1
    BY DEF WellFormed
<1>1. SumWidths(SubSeq(leaves, 1, i - 1)) = f[i - 1] - f[0]
    BY <1>0, CutLeaves, i - 1 <= n, 0 <= i - 1
<1>2. SumWidths(SubSeq(leaves, i + 1, n)) = f[n] - f[i]
    BY <1>0, CutLeaves
<1>3. /\ f[0] = 0 /\ f[i - 1] \in Nat /\ f[i] \in Nat /\ f[n] \in Nat
      /\ f[i] = f[i - 1] + leaves[i].ty.width
      /\ leaves[i].ty.width \in Nat
    BY <1>0, WidthsAdd DEF WellFormed
<1>4. SumWidths(leaves) = f[n]
    BY DEF SumWidths
<1>5. unpack_bundle_field(leaves, i) = <<f[n] - f[i], leaves[i].ty.width>>
    BY <1>2 DEF unpack_bundle_field
<1>6. BitsOf(unpack_bundle_field(leaves, i)) = (f[n] - f[i])..((f[n] - f[i]) + leaves[i].ty.width - 1)
    BY <1>5 DEF BitsOf
<1> HIDE DEF f, n
<1>7. /\ (f[n] - (f[i - 1] - f[0])) - leaves[i].ty.width = f[n] - f[i]
      /\ (f[n] - (f[i - 1] - f[0])) - 1 = (f[n] - f[i]) + leaves[i].ty.width - 1
    BY <1>3
<1> QED BY <1>1, <1>4, <1>6, <1>7

-----------------------------------------------------------------------------
(* Drivers.                                                                *)

LEMMA PathsFinite ==
    ASSUME NEW leaves, WellFormed(leaves)
    PROVE  IsFiniteSet(Paths(leaves))
<1> DEFINE f == [i \in 1..Len(leaves) |-> leaves[i].path]
<1>1. DOMAIN leaves = 1..Len(leaves) /\ Len(leaves) \in Nat
    BY DEF WellFormed
<1>2. f \in Surjection(1..Len(leaves), Paths(leaves))
    BY <1>1 DEF Surjection, Paths
<1>3. IsFiniteSet(1..Len(leaves))
    BY <1>1, FS_Interval
<1> QED BY <1>2, <1>3, FS_Surjection

\* What a helper owes the endpoints.
Owed(leaves) == {Ready("in"), Valid("out")} \cup {Bits("out", p) : p \in Paths(leaves)}

LEMMA OwedFinite ==
    ASSUME NEW leaves, WellFormed(leaves)
    PROVE  IsFiniteSet(Owed(leaves))
<1> DEFINE B == {Bits("out", p) : p \in Paths(leaves)}
           f == [p \in Paths(leaves) |-> Bits("out", p)]
<1>1. f \in Surjection(Paths(leaves), B)
    BY DEF Surjection
<1>2. IsFiniteSet(B)
    BY <1>1, PathsFinite, FS_Surjection
<1>3. IsFiniteSet(B \cup {Ready("in")})
    BY <1>2, FS_AddElement
<1>4. IsFiniteSet((B \cup {Ready("in")}) \cup {Valid("out")})
    BY <1>3, FS_AddElement
<1>5. Owed(leaves) = (B \cup {Ready("in")}) \cup {Valid("out")}
    BY DEF Owed
<1> QED BY <1>4, <1>5

LEMMA OneDriverEach ==
    ASSUME NEW drivers, NEW owed, IsFiniteSet(owed), owed = {d[1] : d \in drivers},
           \A d, e \in drivers : d[1] = e[1] => d = e
    PROVE  Cardinality(drivers) = Cardinality(owed)
<1> DEFINE f == [d \in drivers |-> d[1]]
<1>1. f \in Injection(drivers, owed)
    BY DEF Injection, IsInjective
<1>2. f \in Surjection(drivers, owed)
    BY DEF Surjection
<1> QED BY <1>1, <1>2, FS_Injection

\* The three kinds of port are told apart.
LEMMA PortsDiffer ==
    /\ Ready("in") # Valid("out")
    /\ \A p : Bits("out", p) # Ready("in") /\ Bits("out", p) # Valid("out")
    /\ \A p, q : Bits("out", p) = Bits("out", q) => p = q
BY DEF Ready, Valid, Bits

-----------------------------------------------------------------------------
(* What the checks let through.                                            *)

Joins(in, out) ==
    /\ in.role = "Sink" /\ out.role = "Source"
    /\ Paths(in.leaves) = Paths(out.leaves)
    /\ \A p \in Paths(out.leaves) : TypeAt(in.leaves, p) = TypeAt(out.leaves, p)

LEMMA LeavesWellFormed ==
    ASSUME EndpointAssumption, NEW e \in Endpoints
    PROVE  WellFormed(e.leaves)
BY DEF EndpointAssumption, WellFormed

LEMMA ScalarLeaf ==
    ASSUME EndpointAssumption, NEW e \in Endpoints, e.kind = "scalar"
    PROVE  Paths(e.leaves) = {<<>>} /\ TypeAt(e.leaves, <<>>) = e.leaves[1].ty
<1>1. Len(e.leaves) = 1 /\ e.leaves[1].path = <<>>
    BY DEF EndpointAssumption
<1>2. DOMAIN e.leaves = 1..Len(e.leaves)
    BY LeavesWellFormed DEF WellFormed
<1>3. DOMAIN e.leaves = {1}
    BY <1>1, <1>2
<1>4. Paths(e.leaves) = {<<>>}
    BY <1>1, <1>3 DEF Paths
<1>5. (CHOOSE i \in DOMAIN e.leaves : e.leaves[i].path = <<>>) = 1
    BY <1>1, <1>3
<1> QED BY <1>4, <1>5 DEF TypeAt

LEMMA SamePayloads ==
    ASSUME EndpointAssumption, NEW in \in Endpoints, NEW out \in Endpoints,
           in.role = "Sink", out.role = "Source", in.kind = out.kind,
           in.kind = "scalar" => in.leaves[1].ty = out.leaves[1].ty,
           in.kind # "scalar" => /\ ~FieldMissing(in.leaves, out.leaves)
                                 /\ ~FieldExtra(in.leaves, out.leaves)
                                 /\ ~FieldTypeDiffers(in.leaves, out.leaves)
    PROVE  Joins(in, out)
<1>1. CASE in.kind = "scalar"
    <2>1. /\ Paths(in.leaves) = {<<>>} /\ Paths(out.leaves) = {<<>>}
          /\ TypeAt(in.leaves, <<>>) = in.leaves[1].ty
          /\ TypeAt(out.leaves, <<>>) = out.leaves[1].ty
        BY <1>1, ScalarLeaf
    <2> QED BY <1>1, <2>1 DEF Joins
<1>2. CASE in.kind # "scalar"
    BY <1>2 DEF Joins, FieldMissing, FieldExtra, FieldTypeDiffers
<1> QED BY <1>1, <1>2

LEMMA NoFieldCodes ==
    ASSUME NEW tag, NEW in, NEW out, PayloadCodes(tag, in, out) = {}
    PROVE  ~FieldMissing(in, out) /\ ~FieldExtra(in, out) /\ ~FieldTypeDiffers(in, out)
BY DEF PayloadCodes

LEMMA NoEndpointCodes ==
    ASSUME NEW tag, NEW in, NEW out, NEW codes, EndpointCodes(tag, in, out, codes) = {}
    PROVE  /\ in.role = "Sink" /\ out.role = "Source" /\ in.kind = out.kind
           /\ in.kind = "scalar" => in.leaves[1].ty = out.leaves[1].ty
           /\ in.kind # "scalar" => codes = {}
<1>1. CASE in.role # "Sink" \/ out.role # "Source"
    <2>1. EndpointCodes(tag, in, out, codes) = {<<tag, "ROLE">>}
        BY <1>1 DEF EndpointCodes
    <2> QED BY <2>1
<1>2. CASE in.role = "Sink" /\ out.role = "Source" /\ in.kind # out.kind
    <2>1. EndpointCodes(tag, in, out, codes) = {<<tag, "PAYLOAD_KIND">>}
        BY <1>2 DEF EndpointCodes
    <2> QED BY <2>1
<1>3. CASE in.role = "Sink" /\ out.role = "Source" /\ in.kind = out.kind
    BY <1>3 DEF EndpointCodes
<1> QED BY <1>1, <1>2, <1>3

LEMMA ConnectChecks ==
    ASSUME EndpointAssumption, NEW in \in Endpoints, NEW out \in Endpoints,
           EndpointCodes("CONNECT", in, out, validate_rv_connect_bundle_payloads(in.leaves, out.leaves)) = {}
    PROVE  Joins(in, out)
<1>1. /\ in.role = "Sink" /\ out.role = "Source" /\ in.kind = out.kind
      /\ in.kind = "scalar" => in.leaves[1].ty = out.leaves[1].ty
      /\ in.kind # "scalar" => validate_rv_connect_bundle_payloads(in.leaves, out.leaves) = {}
    BY NoEndpointCodes
<1> QED BY <1>1, SamePayloads DEF validate_rv_connect_bundle_payloads

LEMMA SliceChecks ==
    ASSUME EndpointAssumption, NEW in \in Endpoints, NEW out \in Endpoints,
           EndpointCodes("SLICE", in, out, validate_rv_slice_bundle_payloads(in.leaves, out.leaves)) = {}
    PROVE  Joins(in, out)
<1>1. /\ in.role = "Sink" /\ out.role = "Source" /\ in.kind = out.kind
      /\ in.kind = "scalar" => in.leaves[1].ty = out.leaves[1].ty
      /\ in.kind # "scalar" => PayloadCodes("SLICE", in.leaves, out.leaves) = {}
    BY NoEndpointCodes DEF validate_rv_slice_bundle_payloads
<1> QED BY <1>1, NoFieldCodes, SamePayloads

LEMMA SkidChecks ==
    ASSUME EndpointAssumption, NEW in \in Endpoints, NEW out \in Endpoints,
           EndpointCodes("SKID", in, out, validate_rv_skid_bundle_payloads(in.leaves, out.leaves)) = {}
    PROVE  Joins(in, out)
<1>1. /\ in.role = "Sink" /\ out.role = "Source" /\ in.kind = out.kind
      /\ in.kind = "scalar" => in.leaves[1].ty = out.leaves[1].ty
      /\ in.kind # "scalar" => PayloadCodes("SKID", in.leaves, out.leaves) = {}
    BY NoEndpointCodes DEF validate_rv_skid_bundle_payloads
<1> QED BY <1>1, NoFieldCodes, SamePayloads

LEMMA FifoChecks ==
    ASSUME EndpointAssumption, NEW in \in Endpoints, NEW out \in Endpoints, NEW n \in Depths,
           FifoCodes("FIFO", in, out, n, validate_rv_fifo_bundle_payloads(in.leaves, out.leaves)) = {}
    PROVE  Joins(in, out)
<1>1. /\ in.role = "Sink" /\ out.role = "Source" /\ in.kind = out.kind
      /\ in.kind = "scalar" => in.leaves[1].ty = out.leaves[1].ty
      /\ in.kind # "scalar" => PayloadCodes("FIFO", in.leaves, out.leaves) = {}
    BY NoEndpointCodes DEF FifoCodes, validate_rv_fifo_bundle_payloads
<1> QED BY <1>1, NoFieldCodes, SamePayloads

LEMMA MemFifoChecks ==
    ASSUME EndpointAssumption, NEW in \in Endpoints, NEW out \in Endpoints, NEW n \in Depths,
           FifoCodes("MEM_FIFO", in, out, n, validate_rv_mem_fifo_bundle_payloads(in.leaves, out.leaves)) = {}
    PROVE  Joins(in, out)
<1>1. /\ in.role = "Sink" /\ out.role = "Source" /\ in.kind = out.kind
      /\ in.kind = "scalar" => in.leaves[1].ty = out.leaves[1].ty
      /\ in.kind # "scalar" => PayloadCodes("MEM_FIFO", in.leaves, out.leaves) = {}
    BY NoEndpointCodes DEF FifoCodes, validate_rv_mem_fifo_bundle_payloads
<1> QED BY <1>1, NoFieldCodes, SamePayloads

-----------------------------------------------------------------------------
(* What a call leaves.                                                     *)

Drives(out, result) ==
    /\ {d[1] : d \in result.drivers} = Owed(out.leaves)
    /\ Cardinality(result.drivers) = Cardinality(Owed(out.leaves))

Tiles(out, result) ==
    LET leaves == out.leaves
        top(i) == SumWidths(leaves) - SumWidths(SubSeq(leaves, 1, i - 1))
    IN  \A i \in DOMAIN leaves :
          \E d \in result.drivers :
            /\ d[1] = Bits("out", leaves[i].path)
            /\ BitsOf(d[2][2]) = (top(i) - leaves[i].ty.width)..(top(i) - 1)

Sound(h, in, out, result) ==
    IF result.codes = {}
    THEN Drives(out, result) /\ Joins(in, out) /\ (h = "mem_fifo" => Tiles(out, result))
    ELSE result.drivers = {} /\ result.state = {}

\* Drivers that give each leaf a source of its own, beside the handshake.
LeafDrivers(out, x, y, src) ==
    {<<Ready("in"), x>>, <<Valid("out"), y>>} \cup {<<Bits("out", p), src[p]>> : p \in Paths(out.leaves)}

LEMMA LeavesDriven ==
    ASSUME EndpointAssumption, NEW out \in Endpoints, NEW x, NEW y, NEW src
    PROVE  /\ {d[1] : d \in LeafDrivers(out, x, y, src)} = Owed(out.leaves)
           /\ Cardinality(LeafDrivers(out, x, y, src)) = Cardinality(Owed(out.leaves))
<1> DEFINE drivers == LeafDrivers(out, x, y, src)
<1> USE DEF LeafDrivers
<1>1. \A d \in drivers :
         \/ d = <<Ready("in"), x>> /\ d[1] = Ready("in")
         \/ d = <<Valid("out"), y>> /\ d[1] = Valid("out")
         \/ \E p \in Paths(out.leaves) : d = <<Bits("out", p), src[p]>> /\ d[1] = Bits("out", p)
    OBVIOUS
<1>2. <<Ready("in"), x>> \in drivers /\ <<Valid("out"), y>> \in drivers
    OBVIOUS
<1>3. \A p \in Paths(out.leaves) : <<Bits("out", p), src[p]>> \in drivers
    OBVIOUS
<1>4. {d[1] : d \in drivers} = Owed(out.leaves)
    <2>1. \A d \in drivers : d[1] \in Owed(out.leaves)
        BY <1>1 DEF Owed
    <2>2. ASSUME NEW o \in Owed(out.leaves) PROVE \E d \in drivers : d[1] = o
        <3>1. CASE o = Ready("in")
            BY <1>2, <3>1
        <3>2. CASE o = Valid("out")
            BY <1>2, <3>2
        <3>3. CASE \E p \in Paths(out.leaves) : o = Bits("out", p)
            BY <1>3, <3>3
        <3> QED BY <3>1, <3>2, <3>3 DEF Owed
    <2> QED BY <2>1, <2>2
<1>5. ASSUME NEW d \in drivers, NEW e \in drivers, d[1] = e[1] PROVE d = e
    BY <1>1, <1>5, PortsDiffer
<1>6. IsFiniteSet(Owed(out.leaves))
    BY LeavesWellFormed, OwedFinite
<1> QED BY <1>4, <1>5, <1>6, OneDriverEach

LEMMA ConnectSound ==
    ASSUME EndpointAssumption, NEW in \in Endpoints, NEW out \in Endpoints
    PROVE  Sound("connect", in, out, rv_connect(in, out))
<1> DEFINE codes == EndpointCodes("CONNECT", in, out,
                                  validate_rv_connect_bundle_payloads(in.leaves, out.leaves))
           src == [p \in Paths(out.leaves) |-> Bits("in", p)]
<1>1. CASE codes # {}
    BY <1>1 DEF Sound, rv_connect, Nothing
<1>2. CASE codes = {}
    <2> DEFINE drivers == PassHandshake \cup {<<Bits("out", p), Bits("in", p)>> : p \in Paths(out.leaves)}
    <2>1. drivers = LeafDrivers(out, Ready("out"), Valid("in"), src)
        BY DEF LeafDrivers, PassHandshake
    <2>2. rv_connect(in, out).codes = {} /\ rv_connect(in, out).drivers = drivers
        BY <1>2 DEF rv_connect
    <2> HIDE DEF drivers, src
    <2>3. Drives(out, rv_connect(in, out))
        BY <2>1, <2>2, LeavesDriven DEF Drives
    <2> QED BY <1>2, <2>2, <2>3, ConnectChecks DEF Sound
<1> QED BY <1>1, <1>2

LEMMA SliceSound ==
    ASSUME EndpointAssumption, NEW in \in Endpoints, NEW out \in Endpoints
    PROVE  Sound("register_slice", in, out, rv_register_slice(in, out))
<1> DEFINE codes == EndpointCodes("SLICE", in, out,
                                  validate_rv_slice_bundle_payloads(in.leaves, out.leaves))
           src == [p \in Paths(out.leaves) |-> Reg("bits_q", p)]
<1>1. CASE codes # {}
    BY <1>1 DEF Sound, rv_register_slice, Nothing
<1>2. CASE codes = {}
    <2> DEFINE drivers == {<<Ready("in"), Ready("out")>>, <<Valid("out"), Reg("valid_q", <<>>)>>}
                            \cup {<<Bits("out", p), Reg("bits_q", p)>> : p \in Paths(out.leaves)}
    <2>1. drivers = LeafDrivers(out, Ready("out"), Reg("valid_q", <<>>), src)
        BY DEF LeafDrivers
    <2>2. rv_register_slice(in, out).codes = {} /\ rv_register_slice(in, out).drivers = drivers
        BY <1>2 DEF rv_register_slice
    <2> HIDE DEF drivers, src
    <2>3. Drives(out, rv_register_slice(in, out))
        BY <2>1, <2>2, LeavesDriven DEF Drives
    <2> QED BY <1>2, <2>2, <2>3, SliceChecks DEF Sound
<1> QED BY <1>1, <1>2

LEMMA SkidSound ==
    ASSUME EndpointAssumption, NEW in \in Endpoints, NEW out \in Endpoints
    PROVE  Sound("skid_buffer", in, out, rv_skid_buffer(in, out))
<1> DEFINE codes == EndpointCodes("SKID", in, out,
                                  validate_rv_skid_bundle_payloads(in.leaves, out.leaves))
           src == [p \in Paths(out.leaves) |-> <<Reg("bits_q", p), Bits("in", p)>>]
<1>1. CASE codes # {}
    BY <1>1 DEF Sound, rv_skid_buffer, Nothing
<1>2. CASE codes = {}
    <2> DEFINE drivers == {<<Ready("in"), "not full_q or out ready">>,
                           <<Valid("out"), "full_q or in valid">>}
                            \cup {<<Bits("out", p), <<Reg("bits_q", p), Bits("in", p)>> >> : p \in Paths(out.leaves)}
    <2>1. drivers = LeafDrivers(out, "not full_q or out ready", "full_q or in valid", src)
        BY DEF LeafDrivers
    <2>2. rv_skid_buffer(in, out).codes = {} /\ rv_skid_buffer(in, out).drivers = drivers
        BY <1>2 DEF rv_skid_buffer
    <2> HIDE DEF drivers, src
    <2>3. Drives(out, rv_skid_buffer(in, out))
        BY <2>1, <2>2, LeavesDriven DEF Drives
    <2> QED BY <1>2, <2>2, <2>3, SkidChecks DEF Sound
<1> QED BY <1>1, <1>2

LEMMA FifoSound ==
    ASSUME EndpointAssumption, NEW in \in Endpoints, NEW out \in Endpoints, NEW n \in Depths
    PROVE  Sound("fifo", in, out, rv_fifo(in, out, n))
<1> DEFINE codes == FifoCodes("FIFO", in, out, n,
                              validate_rv_fifo_bundle_payloads(in.leaves, out.leaves))
           entry(p, i) == Reg("data_q", Append(p, i))
           src == [p \in Paths(out.leaves) |-> [i \in 0..(n - 1) |-> entry(p, i)]]
<1>1. CASE codes # {}
    BY <1>1 DEF Sound, rv_fifo, Nothing
<1>2. CASE codes = {}
    <2> DEFINE drivers == FifoHandshake
                            \cup {<<Bits("out", p), [i \in 0..(n - 1) |-> entry(p, i)]>> : p \in Paths(out.leaves)}
    <2>1. drivers = LeafDrivers(out, "count_q # depth", "count_q # 0", src)
        BY DEF LeafDrivers, FifoHandshake
    <2>2. rv_fifo(in, out, n).codes = {} /\ rv_fifo(in, out, n).drivers = drivers
        BY <1>2 DEF rv_fifo
    <2> HIDE DEF drivers, src
    <2>3. Drives(out, rv_fifo(in, out, n))
        BY <2>1, <2>2, LeavesDriven DEF Drives
    <2> QED BY <1>2, <2>2, <2>3, FifoChecks DEF Sound
<1> QED BY <1>1, <1>2

\* Leaves with the same path are one leaf, so a path has one slice.
LEMMA MemFifoSound ==
    ASSUME EndpointAssumption, NEW in \in Endpoints, NEW out \in Endpoints, NEW n \in Depths
    PROVE  Sound("mem_fifo", in, out, rv_mem_fifo(in, out, n))
<1> DEFINE codes == FifoCodes("MEM_FIFO", in, out, n,
                              validate_rv_mem_fifo_bundle_payloads(in.leaves, out.leaves))
           leaves == out.leaves
           At(p) == CHOOSE i \in DOMAIN leaves : leaves[i].path = p
           src == [p \in Paths(leaves) |-> <<"mem read", unpack_bundle_field(leaves, At(p))>>]
<1>1. CASE codes # {}
    BY <1>1 DEF Sound, rv_mem_fifo, Nothing
<1>2. CASE codes = {}
    <2> DEFINE result == rv_mem_fifo(in, out, n)
               slices == {<<Bits("out", leaves[i].path), <<"mem read", unpack_bundle_field(leaves, i)>> >> :
                            i \in DOMAIN leaves}
    <2>1. result.codes = {} /\ result.drivers = FifoHandshake \cup slices
        BY <1>2 DEF rv_mem_fifo
    <2>2. \A i \in DOMAIN leaves : leaves[i].path \in Paths(leaves) /\ At(leaves[i].path) = i
        BY DEF EndpointAssumption, Paths
    <2>3. \A p \in Paths(leaves) : \E i \in DOMAIN leaves : leaves[i].path = p
        BY DEF Paths
    <2> HIDE DEF At, leaves
    <2>4. slices = {<<Bits("out", p), src[p]>> : p \in Paths(leaves)}
        <3>1. \A i \in DOMAIN leaves : src[leaves[i].path] = <<"mem read", unpack_bundle_field(leaves, i)>>
            BY <2>2
        <3> HIDE DEF src
        <3>2. ASSUME NEW d \in slices PROVE d \in {<<Bits("out", p), src[p]>> : p \in Paths(leaves)}
            BY <2>2, <3>1
        <3>3. ASSUME NEW p \in Paths(leaves) PROVE <<Bits("out", p), src[p]>> \in slices
            BY <2>3, <3>1
        <3> QED BY <3>2, <3>3
    <2> HIDE DEF src, slices, result
    <2>5. result.drivers = LeafDrivers(out, "count_q # depth", "count_q # 0", src)
        BY <2>1, <2>4 DEF FifoHandshake, LeafDrivers, leaves
    <2>6. Drives(out, result)
        BY <2>5, LeavesDriven DEF Drives
    <2>7. Tiles(out, result)
        <3>1. WellFormed(out.leaves)
            BY LeavesWellFormed
        <3>2. ASSUME NEW i \in DOMAIN out.leaves
              PROVE  \E d \in result.drivers :
                       /\ d[1] = Bits("out", out.leaves[i].path)
                       /\ BitsOf(d[2][2]) =
                            ((SumWidths(out.leaves) - SumWidths(SubSeq(out.leaves, 1, i - 1)))
                               - out.leaves[i].ty.width)
                              ..((SumWidths(out.leaves) - SumWidths(SubSeq(out.leaves, 1, i - 1))) - 1)
            <4> DEFINE field == unpack_bundle_field(out.leaves, i)
                       d == <<Bits("out", out.leaves[i].path), <<"mem read", field>> >>
            <4>1. d \in result.drivers
                BY <2>1 DEF slices, leaves
            <4>2. BitsOf(field) =
                    ((SumWidths(out.leaves) - SumWidths(SubSeq(out.leaves, 1, i - 1)))
                       - out.leaves[i].ty.width)
                      ..((SumWidths(out.leaves) - SumWidths(SubSeq(out.leaves, 1, i - 1))) - 1)
                BY <3>1, FieldIsTile
            <4> HIDE DEF field
            <4>3. d[1] = Bits("out", out.leaves[i].path) /\ d[2][2] = field
                OBVIOUS
            <4> QED BY <4>1, <4>2, <4>3
        <3> QED BY <3>2 DEF Tiles
    <2>8. Joins(in, out)
        BY <1>2, MemFifoChecks
    <2> QED BY <2>1, <2>6, <2>7, <2>8 DEF Sound, result
<1> QED BY <1>1, <1>2

-----------------------------------------------------------------------------
(* The helpers as a system: nothing has been called, or the one call that  *)
(* was made left something sound.                                          *)

HelperInv ==
    /\ input \in Endpoints /\ output \in Endpoints /\ depth \in Depths
    /\ helper # "none" => Sound(helper, input, output, emitted)

LEMMA HelpersStart ==
    ASSUME HelperInit
    PROVE  HelperInv
BY DEF HelperInit, HelperInv

LEMMA HelpersStep ==
    ASSUME EndpointAssumption, HelperInv, HelperNext
    PROVE  HelperInv'
<1>1. PICK h, r : Build(h, r) /\ Sound(h, input, output, r)
    <2> USE DEF HelperInv
    <2>1. CASE Build("connect", rv_connect(input, output))
        BY <2>1, ConnectSound
    <2>2. CASE Build("register_slice", rv_register_slice(input, output))
        BY <2>2, SliceSound
    <2>3. CASE Build("skid_buffer", rv_skid_buffer(input, output))
        BY <2>3, SkidSound
    <2>4. CASE Build("fifo", rv_fifo(input, output, depth))
        BY <2>4, FifoSound
    <2>5. CASE Build("mem_fifo", rv_mem_fifo(input, output, depth))
        BY <2>5, MemFifoSound
    <2> QED BY <2>1, <2>2, <2>3, <2>4, <2>5 DEF HelperNext
<1>2. helper' = h /\ emitted' = r /\ input' = input /\ output' = output /\ depth' = depth
    BY <1>1 DEF Build
<1> QED BY <1>1, <1>2 DEF HelperInv

LEMMA HelpersAreSound ==
    ASSUME HelperInv
    PROVE  HelpersSound
<1>1. DrivesEachPortOnce
    BY DEF HelperInv, Sound, Drives, DrivesEachPortOnce, Emitted, Owed
<1>2. JoinsEqualPayloads
    BY DEF HelperInv, Sound, Joins, JoinsEqualPayloads, Emitted
<1>3. UnpackTilesWord
    BY DEF HelperInv, Sound, Tiles, UnpackTilesWord, Emitted
<1> QED BY <1>1, <1>2, <1>3 DEF HelpersSound

-----------------------------------------------------------------------------
(* The two FIFOs.                                                          *)

RegP == INSTANCE RvCircuitsProofs WITH MemBacked <- FALSE, Depth <- RegDepth, SinkStalls <- FALSE, None <- NoItem

MemP == INSTANCE RvCircuitsProofs WITH MemBacked <- TRUE, Depth <- MemDepth, SinkStalls <- FALSE, None <- NoItem

LEMMA Assumed ==
    /\ RegP!RvAssumption /\ MemP!RvAssumption /\ EndpointAssumption
    /\ RegDepth \in Nat /\ MemDepth \in Nat /\ 1 <= MemDepth /\ RegDepth <= MemDepth
    /\ Zero \in Values /\ NoItem \notin Values
BY ReadyValidAssumption
   DEF RegFifo!RvAssumption, RegP!RvAssumption, MemFifo!RvAssumption, MemP!RvAssumption,
       RegFifo!PtrRange, RegP!PtrRange, MemFifo!PtrRange, MemP!PtrRange,
       RegFifo!CountRange, RegP!CountRange, MemFifo!CountRange, MemP!CountRange,
       RegFifo!ceil_log2_usize, RegP!ceil_log2_usize, MemFifo!ceil_log2_usize, MemP!ceil_log2_usize

LEMMA RegFifoSame ==
    /\ RegFifo!FifoInit <=> RegP!FifoInit
    /\ RegFifo!FifoNext => RegP!FifoNext
    /\ RegFifo!CountTracksPointers <=> RegP!CountTracksPointers
    /\ RegFifo!FifoContents = RegP!FifoContents
    /\ RegFifo!FifoContents' = RegP!FifoContents'
<1>1. RegFifo!FifoInit <=> RegP!FifoInit
    BY DEF RegFifo!FifoInit, RegP!FifoInit
<1>2. RegFifo!FifoNext => RegP!FifoNext
    BY DEF RegFifo!FifoNext, RegP!FifoNext, RegFifo!Clock, RegP!Clock, RegFifo!ClockReset, RegP!ClockReset,
           RegFifo!write_fire, RegP!write_fire, RegFifo!read_fire, RegP!read_fire,
           RegFifo!in_ready, RegP!in_ready, RegFifo!out_valid, RegP!out_valid, RegFifo!out_bits, RegP!out_bits,
           RegFifo!count_next, RegP!count_next, RegFifo!fifo_ptr_increment, RegP!fifo_ptr_increment,
           RegFifo!entries_next, RegP!entries_next, RegFifo!PtrRange, RegP!PtrRange,
           RegFifo!CountRange, RegP!CountRange, RegFifo!ceil_log2_usize, RegP!ceil_log2_usize
<1>3. RegFifo!CountTracksPointers <=> RegP!CountTracksPointers
    BY DEF RegFifo!CountTracksPointers, RegP!CountTracksPointers
<1>4. RegFifo!FifoContents = RegP!FifoContents /\ RegFifo!FifoContents' = RegP!FifoContents'
    BY DEF RegFifo!FifoContents, RegP!FifoContents, RegFifo!EntryAt, RegP!EntryAt
<1> QED BY <1>1, <1>2, <1>3, <1>4

LEMMA MemFifoSame ==
    /\ MemFifo!FifoInit <=> MemP!FifoInit
    /\ MemFifo!FifoNext => MemP!FifoNext
    /\ MemFifo!CountTracksPointers <=> MemP!CountTracksPointers
    /\ MemFifo!FifoContents = MemP!FifoContents
    /\ MemFifo!FifoContents' = MemP!FifoContents'
<1>1. MemFifo!FifoInit <=> MemP!FifoInit
    BY DEF MemFifo!FifoInit, MemP!FifoInit
<1>2. MemFifo!FifoNext => MemP!FifoNext
    BY DEF MemFifo!FifoNext, MemP!FifoNext, MemFifo!Clock, MemP!Clock, MemFifo!ClockReset, MemP!ClockReset,
           MemFifo!write_fire, MemP!write_fire, MemFifo!read_fire, MemP!read_fire,
           MemFifo!in_ready, MemP!in_ready, MemFifo!out_valid, MemP!out_valid, MemFifo!out_bits, MemP!out_bits,
           MemFifo!count_next, MemP!count_next, MemFifo!fifo_ptr_increment, MemP!fifo_ptr_increment,
           MemFifo!entries_next, MemP!entries_next, MemFifo!PtrRange, MemP!PtrRange,
           MemFifo!CountRange, MemP!CountRange, MemFifo!ceil_log2_usize, MemP!ceil_log2_usize
<1>3. MemFifo!CountTracksPointers <=> MemP!CountTracksPointers
    BY DEF MemFifo!CountTracksPointers, MemP!CountTracksPointers
<1>4. MemFifo!FifoContents = MemP!FifoContents /\ MemFifo!FifoContents' = MemP!FifoContents'
    BY DEF MemFifo!FifoContents, MemP!FifoContents, MemFifo!EntryAt, MemP!EntryAt
<1> QED BY <1>1, <1>2, <1>3, <1>4

LEMMA StageSame ==
    /\ RegFifo!StageInit <=> RegP!StageInit
    /\ RegFifo!SkidNext => RegP!SkidNext
    /\ RegFifo!SliceNext => RegP!SliceNext
    /\ RegFifo!StageContents = RegP!StageContents
    /\ RegFifo!StageContents' = RegP!StageContents'
<1>1. RegFifo!StageInit <=> RegP!StageInit
    BY DEF RegFifo!StageInit, RegP!StageInit
<1>2. RegFifo!StageReset => RegP!StageReset
    BY DEF RegFifo!StageReset, RegP!StageReset
<1>3. RegFifo!SkidNext => RegP!SkidNext
    BY <1>2 DEF RegFifo!SkidNext, RegP!SkidNext, RegFifo!SkidClock, RegP!SkidClock,
           RegFifo!skid_full_next, RegP!skid_full_next, RegFifo!skid_bits_next, RegP!skid_bits_next,
           RegFifo!skid_in_ready, RegP!skid_in_ready, RegFifo!skid_out_valid, RegP!skid_out_valid,
           RegFifo!skid_out_bits, RegP!skid_out_bits
<1>4. RegFifo!SliceNext => RegP!SliceNext
    BY <1>2 DEF RegFifo!SliceNext, RegP!SliceNext, RegFifo!SliceClock, RegP!SliceClock,
           RegFifo!slice_bits_next, RegP!slice_bits_next
<1>5. RegFifo!StageContents = RegP!StageContents /\ RegFifo!StageContents' = RegP!StageContents'
    BY DEF RegFifo!StageContents, RegP!StageContents
<1> QED BY <1>1, <1>3, <1>4, <1>5

-----------------------------------------------------------------------------
(* The system.                                                             *)

RvInv ==
    /\ part \in RvParts
    /\ part = "regs" => RegP!FifoInv
    /\ part = "mem" => MemP!FifoInv
    /\ part \in {"skid", "slice"} => RegP!StageInv
    /\ part = "helpers" => HelperInv

LEMMA RvStarts ==
    ASSUME RvInit
    PROVE  RvInv /\ AnyChannel!ChannelInit
<1>1. took = NoItem /\ gave = NoItem /\ RegFifo!StageInit /\ part \in RvParts
    BY DEF RvInit, RegFifo!StageInit
<1>2. CASE part = "regs"
    <2>1. RegP!FifoInit
        BY <1>2, RegFifoSame DEF RvInit
    <2>2. RegP!FifoInv /\ RegP!Fifo!ChannelInit
        BY <2>1, Assumed, RegP!FifoStarts
    <2>3. RegFifo!FifoContents = <<>>
        BY <2>2, RegFifoSame DEF RegP!Fifo!ChannelInit
    <2> QED BY <1>1, <1>2, <2>2, <2>3 DEF RvInv, AnyChannel!ChannelInit, Held
<1>3. CASE part = "mem"
    <2>1. MemP!FifoInit
        BY <1>3, MemFifoSame DEF RvInit
    <2>2. MemP!FifoInv /\ MemP!Fifo!ChannelInit
        BY <2>1, Assumed, MemP!FifoStarts
    <2>3. MemFifo!FifoContents = <<>>
        BY <2>2, MemFifoSame DEF MemP!Fifo!ChannelInit
    <2> QED BY <1>1, <1>3, <2>2, <2>3 DEF RvInv, AnyChannel!ChannelInit, Held
<1>4. CASE part \in {"skid", "slice"}
    <2>1. RegP!StageInv /\ RegP!Stage!ChannelInit
        BY <1>1, StageSame, Assumed, RegP!StageStarts
    <2>2. RegFifo!StageContents = <<>>
        BY <2>1, StageSame DEF RegP!Stage!ChannelInit
    <2> QED BY <1>1, <1>4, <2>1, <2>2 DEF RvInv, AnyChannel!ChannelInit, Held
<1>5. CASE part = "helpers"
    <2>1. HelperInv
        BY <1>5, HelpersStart DEF RvInit
    <2> QED BY <1>1, <1>5, <2>1 DEF RvInv, AnyChannel!ChannelInit, Held
<1> QED BY <1>1, <1>2, <1>3, <1>4, <1>5 DEF RvParts

\* A channel that may hold more is still a channel.
LEMMA RegCycles ==
    ASSUME part = "regs", part' = "regs", RegP!FifoInv', RegP!Fifo!ChannelNext
    PROVE  AnyChannel!ChannelNext
<1>1. Held = RegP!FifoContents /\ Held' = RegP!FifoContents'
    BY RegFifoSame DEF Held
<1>2. CASE RegP!Fifo!Flush
    BY <1>1, <1>2 DEF RegP!Fifo!Flush, AnyChannel!Flush, AnyChannel!ChannelNext
<1>3. ASSUME NEW t \in Values \cup {NoItem}, NEW g \in Values \cup {NoItem}, RegP!Fifo!Cycle(t, g)
      PROVE  AnyChannel!Cycle(t, g)
    <2>1. Len(Held') <= RegDepth
        BY <1>1, <1>3 DEF RegP!Fifo!Cycle, RegP!Fifo!Offered
    <2>2. Len(Held') \in Nat
        <3>1. data' \in [0..(RegDepth - 1) -> Values] /\ rptr_q' \in 0..(RegDepth - 1) /\ count_q' \in 0..RegDepth
            BY Assumed DEF RegP!FifoInv, RegP!CountTracksPointers, RegP!Entries
        <3>2. RegP!Items(data', rptr_q', count_q') \in Seq(Values)
            BY <3>1, Assumed, RegP!ItemsSeq DEF RegP!Entries
        <3> QED BY <1>1, <3>2, RegP!ContentsAreItems
    <2>3. Len(Held') <= MemDepth
        BY <2>1, <2>2, Assumed
    <2> QED BY <1>1, <1>3, <2>3 DEF RegP!Fifo!Cycle, RegP!Fifo!Offered, AnyChannel!Cycle, AnyChannel!Offered
<1> QED BY <1>2, <1>3 DEF RegP!Fifo!ChannelNext, AnyChannel!ChannelNext

LEMMA MemCycles ==
    ASSUME part = "mem", part' = "mem", MemP!Fifo!ChannelNext
    PROVE  AnyChannel!ChannelNext
<1>1. Held = MemP!FifoContents /\ Held' = MemP!FifoContents'
    BY MemFifoSame DEF Held
<1>2. CASE MemP!Fifo!Flush
    BY <1>1, <1>2 DEF MemP!Fifo!Flush, AnyChannel!Flush, AnyChannel!ChannelNext
<1>3. ASSUME NEW t \in Values \cup {NoItem}, NEW g \in Values \cup {NoItem}, MemP!Fifo!Cycle(t, g)
      PROVE  AnyChannel!Cycle(t, g)
    BY <1>1, <1>3 DEF MemP!Fifo!Cycle, MemP!Fifo!Offered, AnyChannel!Cycle, AnyChannel!Offered
<1> QED BY <1>2, <1>3 DEF MemP!Fifo!ChannelNext, AnyChannel!ChannelNext

LEMMA StageCycles ==
    ASSUME part \in {"skid", "slice"}, part' = part, RegP!StageInv', RegP!Stage!ChannelNext
    PROVE  AnyChannel!ChannelNext
<1>1. Held = RegP!StageContents /\ Held' = RegP!StageContents'
    BY StageSame DEF Held
<1>2. CASE RegP!Stage!Flush
    BY <1>1, <1>2 DEF RegP!Stage!Flush, AnyChannel!Flush, AnyChannel!ChannelNext
<1>3. ASSUME NEW t \in Values \cup {NoItem}, NEW g \in Values \cup {NoItem}, RegP!Stage!Cycle(t, g)
      PROVE  AnyChannel!Cycle(t, g)
    <2>1. Len(Held') <= 1
        BY <1>1, <1>3 DEF RegP!Stage!Cycle, RegP!Stage!Offered
    <2>2. Len(Held') \in Nat
        <3>1. RegP!StageContents' \in Seq(Values)
            BY DEF RegP!StageContents, RegP!StageInv
        <3> QED BY <1>1, <3>1
    <2>3. Len(Held') <= MemDepth
        BY <2>1, <2>2, Assumed
    <2> QED BY <1>1, <1>3, <2>3 DEF RegP!Stage!Cycle, RegP!Stage!Offered, AnyChannel!Cycle, AnyChannel!Offered
<1> QED BY <1>2, <1>3 DEF RegP!Stage!ChannelNext, AnyChannel!ChannelNext

LEMMA RvSteps ==
    ASSUME RvInv, RvNext
    PROVE  RvInv' /\ [AnyChannel!ChannelNext]_AnyChannel!channelVars
<1>1. ASSUME part = "regs", RegFifo!FifoNext, UNCHANGED <<part, stageVars, helperVars>>
      PROVE  RvInv' /\ [AnyChannel!ChannelNext]_AnyChannel!channelVars
    <2>1. part' = "regs" /\ RegP!FifoNext /\ RegP!FifoInv
        BY <1>1, RegFifoSame DEF RvInv
    <2>2. RegP!FifoInv' /\ [RegP!Fifo!ChannelNext]_RegP!Fifo!channelVars
        BY <2>1, Assumed, RegP!FifoSteps
    <2>3. RvInv'
        BY <2>1, <2>2 DEF RvInv, RvParts
    <2>4. CASE RegP!Fifo!ChannelNext
        BY <1>1, <2>1, <2>2, <2>3, <2>4, RegCycles
    <2>5. CASE UNCHANGED RegP!Fifo!channelVars
        <3>1. UNCHANGED <<Held, took, gave>>
            BY <1>1, <2>1, <2>5, RegFifoSame DEF RegP!Fifo!channelVars, Held
        <3> QED BY <2>3, <3>1 DEF AnyChannel!channelVars
    <2> QED BY <2>2, <2>4, <2>5
<1>2. ASSUME part = "mem", MemFifo!FifoNext, UNCHANGED <<part, stageVars, helperVars>>
      PROVE  RvInv' /\ [AnyChannel!ChannelNext]_AnyChannel!channelVars
    <2>1. part' = "mem" /\ MemP!FifoNext /\ MemP!FifoInv
        BY <1>2, MemFifoSame DEF RvInv
    <2>2. MemP!FifoInv' /\ [MemP!Fifo!ChannelNext]_MemP!Fifo!channelVars
        BY <2>1, Assumed, MemP!FifoSteps
    <2>3. RvInv'
        BY <2>1, <2>2 DEF RvInv, RvParts
    <2>4. CASE MemP!Fifo!ChannelNext
        BY <1>2, <2>1, <2>3, <2>4, MemCycles
    <2>5. CASE UNCHANGED MemP!Fifo!channelVars
        <3>1. UNCHANGED <<Held, took, gave>>
            BY <1>2, <2>1, <2>5, MemFifoSame DEF MemP!Fifo!channelVars, Held
        <3> QED BY <2>3, <3>1 DEF AnyChannel!channelVars
    <2> QED BY <2>2, <2>4, <2>5
<1>3. ASSUME part \in {"skid", "slice"}, RegP!SkidNext \/ RegP!SliceNext,
             UNCHANGED <<part, fifoVars, helperVars>>
      PROVE  RvInv' /\ [AnyChannel!ChannelNext]_AnyChannel!channelVars
    <2>1. part' = part /\ RegP!StageInv
        BY <1>3 DEF RvInv
    <2>2. RegP!StageInv' /\ [RegP!Stage!ChannelNext]_RegP!Stage!channelVars
        BY <1>3, <2>1, Assumed, RegP!SkidSteps, RegP!SliceSteps
    <2>3. RvInv'
        BY <1>3, <2>1, <2>2 DEF RvInv, RvParts
    <2>4. CASE RegP!Stage!ChannelNext
        BY <1>3, <2>1, <2>2, <2>3, <2>4, StageCycles
    <2>5. CASE UNCHANGED RegP!Stage!channelVars
        <3>1. UNCHANGED <<Held, took, gave>>
            BY <1>3, <2>1, <2>5, StageSame DEF RegP!Stage!channelVars, Held
        <3> QED BY <2>3, <3>1 DEF AnyChannel!channelVars
    <2> QED BY <2>2, <2>4, <2>5
<1>4. ASSUME part = "helpers", HelperNext, UNCHANGED <<part, fifoVars, firedVars, stageVars>>
      PROVE  RvInv' /\ [AnyChannel!ChannelNext]_AnyChannel!channelVars
    <2>1. part' = "helpers" /\ HelperInv' /\ UNCHANGED <<took, gave>>
        BY <1>4, Assumed, HelpersStep DEF RvInv, firedVars
    <2>2. Held' = Held
        BY <1>4, <2>1 DEF Held
    <2> QED BY <1>4, <2>1, <2>2 DEF RvInv, RvParts, AnyChannel!channelVars
<1> QED BY <1>1, <1>2, <1>3, <1>4, StageSame DEF RvNext, FifoStep, StageStep, HelperStep

LEMMA RvStutters ==
    ASSUME RvInv, UNCHANGED readyValidVars
    PROVE  RvInv' /\ UNCHANGED AnyChannel!channelVars
<1>1. /\ part' = part /\ UNCHANGED <<count_q, wptr_q, rptr_q, data>> /\ UNCHANGED <<took, gave>>
      /\ UNCHANGED <<full_q, bits_q>> /\ UNCHANGED <<helper, input, output, depth, emitted>>
    BY DEF readyValidVars, fifoVars, firedVars, stageVars, helperVars
<1>2. RegP!FifoInv => RegP!FifoInv'
    BY <1>1 DEF RegP!FifoInv, RegP!CountTracksPointers
<1>3. MemP!FifoInv => MemP!FifoInv'
    BY <1>1 DEF MemP!FifoInv, MemP!CountTracksPointers
<1>4. RegP!StageInv => RegP!StageInv'
    BY <1>1 DEF RegP!StageInv
<1>5. HelperInv => HelperInv'
    BY <1>1 DEF HelperInv
<1>6. RvInv'
    BY <1>1, <1>2, <1>3, <1>4, <1>5 DEF RvInv
<1>7. Held' = Held
    BY <1>1 DEF Held, RegFifo!FifoContents, RegFifo!EntryAt, MemFifo!FifoContents, MemFifo!EntryAt,
                RegFifo!StageContents
<1> QED BY <1>1, <1>6, <1>7 DEF AnyChannel!channelVars

\* The inductive invariant of the ready/valid system, over whatever FIFO
\* depths, payloads and endpoints a design has.
THEOREM ReadyValidInvariance == RvSpec => []RvInv
<1>1. RvInit => RvInv
    BY RvStarts
<1>2. RvInv /\ [RvNext]_readyValidVars => RvInv'
    BY RvSteps, RvStutters
<1> QED BY <1>1, <1>2, PTL DEF RvSpec

(* rv_fifo and rv_mem_fifo keep their count in step with their pointers;   *)
(* every call of rv_connect, rv_register_slice, rv_skid_buffer, rv_fifo    *)
(* and rv_mem_fifo drives each port of the two endpoints once, between     *)
(* equal payloads, and cuts the memory word where it was packed, or it     *)
(* reports and drives nothing.                                             *)
THEOREM ReadyValidIsSound == RvSpec => []ReadyValidSound
<1>1. RvInv => ReadyValidSound
    <2> SUFFICES ASSUME RvInv PROVE ReadyValidSound
        OBVIOUS
    <2>1. part = "regs" => RegFifo!CountTracksPointers
        BY RegFifoSame DEF RvInv, RegP!FifoInv
    <2>2. part = "mem" => MemFifo!CountTracksPointers
        BY MemFifoSame DEF RvInv, MemP!FifoInv
    <2>3. part = "helpers" => HelpersSound
        BY HelpersAreSound DEF RvInv
    <2> QED BY <2>1, <2>2, <2>3 DEF ReadyValidSound
<1> QED BY <1>1, ReadyValidInvariance, PTL

(* Whatever part a design buffers a ready/valid stream with, the items     *)
(* that fire on its input come out once and in order.                      *)
THEOREM ReadyValidIsChannel == RvSpec => ImplementsChannel
<1>1. RvInit => RvInv /\ AnyChannel!ChannelInit
    BY RvStarts
<1>2. RvInv /\ [RvNext]_readyValidVars => RvInv' /\ [AnyChannel!ChannelNext]_AnyChannel!channelVars
    BY RvSteps, RvStutters
<1> QED BY <1>1, <1>2, PTL DEF RvSpec, ImplementsChannel, AnyChannel!Spec
=============================================================================
