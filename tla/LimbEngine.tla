----------------------------- MODULE LimbEngine ------------------------------
(***************************************************************************)
(* The multi-limb arithmetic of rrtl-sim-ir (PackedSimulator and every     *)
(* fallback of the faster engines): a value is a sequence of limbs of      *)
(* LimbBits bits (32 in the code), lowest first, the last one masked to    *)
(* the width.  The GPU simulator keeps the same limbs; the code it         *)
(* generates for them is the second part of the module, the third is       *)
(* SimdCpuSimulator, which computes one or two limbs by code of its own,   *)
(* and the last the two engines that see one lane at a time.               *)
(***************************************************************************)
EXTENDS MachineInstr

CONSTANTS LimbBits,   \* 32 in the code
          UsizeLimbs  \* limbs of a usize: 2 in the code

Base == 2^LimbBits

limbs(width) == IF width = 0 THEN 1 ELSE (width + LimbBits - 1) \div LimbBits

final_limb_mask(width) ==
    IF width % LimbBits = 0 THEN Base - 1 ELSE 2^(width % LimbBits) - 1

resize(v, n, fill) == [k \in 1..n |-> IF k <= Len(v) THEN v[k] ELSE fill]

mask_to_width(v, width) ==
    LET n == limbs(width)
    IN  [resize(v, n, 0) EXCEPT ![n] = @ & final_limb_mask(width)]

fit_limbs(v, width) == mask_to_width(resize(v, limbs(width), 0), width)

encode_u128_limbs(value, width) ==
    mask_to_width([k \in 1..limbs(width) |-> (value \div Base^(k - 1)) % Base], width)

decode_u128_limbs(v) == FoldRight(LAMBDA limb, acc : acc * Base + limb, v, 0)

\* saturates when a limb beyond a usize is set
decode_usize(v) ==
    IF \E k \in DOMAIN v : k > UsizeLimbs /\ v[k] # 0 THEN Base^UsizeLimbs - 1
    ELSE decode_u128_limbs(resize(v, UsizeLimbs, 0))

decode_bool(v) == v[1] % 2 = 1
encode_bool(b) == <<Flag(b)>>

get_bit(v, bit) ==
    LET limb == bit \div LimbBits + 1
    IN  limb \in DOMAIN v /\ BitOf(v[limb], bit % LimbBits) = 1

\* the limbs of the given width with exactly these bits set
set_bits(bits, width) ==
    [k \in 1..limbs(width) |->
        LET RECURSIVE sum(_)
            sum(b) == IF b = LimbBits THEN 0
                      ELSE (IF (k - 1) * LimbBits + b \in bits THEN 2^b ELSE 0) + sum(b + 1)
        IN  sum(0)]

bit_not(v, width) ==
    LET r == resize(v, limbs(width), 0)
    IN  fit_limbs([k \in DOMAIN r |-> Base - 1 - r[k]], width)

bit_binop(lhs, rhs, width, op) ==
    LET l == resize(lhs, limbs(width), 0)
        r == resize(rhs, limbs(width), 0)
    IN  mask_to_width([k \in DOMAIN l |-> CASE op = "and" -> l[k] & r[k]
                                            [] op = "or"  -> l[k] | r[k]
                                            [] op = "xor" -> l[k] ^^ r[k]], width)

\* Mutant: the carry out of a limb is dropped when the limb's own sum is zero.
add_limbs_carry_lost(lhs, rhs, width) ==
    LET n == limbs(width)
        l == resize(lhs, n, 0)
        r == resize(rhs, n, 0)
        carry[k \in 0..n] == IF k = 0 THEN 0
                             ELSE IF (l[k] + r[k]) % Base = 0 THEN 0
                             ELSE (l[k] + r[k] + carry[k - 1]) \div Base
    IN  mask_to_width([k \in 1..n |-> (l[k] + r[k] + carry[k - 1]) % Base], width)

add_limbs(lhs, rhs, width) ==
    LET n == limbs(width)
        l == resize(lhs, n, 0)
        r == resize(rhs, n, 0)
        carry[k \in 0..n] == IF k = 0 THEN 0 ELSE (l[k] + r[k] + carry[k - 1]) \div Base
    IN  mask_to_width([k \in 1..n |-> (l[k] + r[k] + carry[k - 1]) % Base], width)

sub_limbs(lhs, rhs, width) ==
    LET n == limbs(width)
        l == resize(lhs, n, 0)
        r == resize(rhs, n, 0)
        borrow[k \in 0..n] == IF k = 0 THEN 0 ELSE Flag(l[k] < r[k] + borrow[k - 1])
    IN  mask_to_width([k \in 1..n |-> (l[k] - (r[k] + borrow[k - 1])) % Base], width)

mul_limbs(lhs, rhs, width) ==
    LET n == limbs(width)
        l == resize(lhs, n, 0)
        r == resize(rhs, n, 0)
        accum[k \in 1..n] == FoldLeft(LAMBDA s, j : s + l[j] * r[k - j + 1], 0,
                                      [j \in 1..k |-> j])
        carry[k \in 0..n] == IF k = 0 THEN 0 ELSE (accum[k] + carry[k - 1]) \div Base
    IN  mask_to_width([k \in 1..n |-> (accum[k] + carry[k - 1]) % Base], width)

eq_values(lhs, rhs, width) == mask_to_width(lhs, width) = mask_to_width(rhs, width)

lt_values(lhs, rhs, width, signed) ==
    LET l == mask_to_width(lhs, width)
        r == mask_to_width(rhs, width)
        ls == get_bit(l, width - 1)
        rs == get_bit(r, width - 1)
        differ == {k \in DOMAIN l : l[k] # r[k]}
    IN  IF signed /\ ls # rs THEN ls
        ELSE differ # {} /\ LET k == CHOOSE k \in differ : \A j \in differ : j <= k
                            IN  l[k] < r[k]

slice_limbs(v, lsb, width) ==
    set_bits({bit \in 0..width-1 : get_bit(v, lsb + bit)}, width)

sext_limbs(v, input_width, width) ==
    LET sign == get_bit(v, input_width - 1)
        kept == fit_limbs(v, input_width)
    IN  mask_to_width(
          set_bits({bit \in 0..width-1 :
                      get_bit(kept, bit) \/ (sign /\ bit >= input_width)}, width), width)

\* parts are pairs (limbs, width), the first part on top
concat_limbs(parts, width) ==
    LET below(k) == FoldLeft(LAMBDA s, p : s + p[2], 0, SubSeq(parts, k + 1, Len(parts)))
    IN  set_bits(UNION {{below(k) + bit : bit \in {b \in 0..parts[k][2]-1 : get_bit(parts[k][1], b)}} :
                          k \in DOMAIN parts}, width)

load_memory(addr, width) == encode_u128_limbs(MemWord(addr, width), width)

\* v holds the operands as limbs
eval_machine_instr_lane(i, v) ==
    fit_limbs(
      CASE i.op = "not" -> bit_not(v[1], i.w)
        [] i.op \in {"and", "or", "xor"} -> bit_binop(v[1], v[2], i.w, i.op)
        [] i.op = "add" -> add_limbs(v[1], v[2], i.w)
        [] i.op = "sub" -> sub_limbs(v[1], v[2], i.w)
        [] i.op = "mul" -> mul_limbs(v[1], v[2], i.w)
        [] i.op = "eq"  -> encode_bool(eq_values(v[1], v[2], i.aw[1]))
        [] i.op = "ne"  -> encode_bool(~eq_values(v[1], v[2], i.aw[1]))
        [] i.op = "lt"  -> encode_bool(lt_values(v[1], v[2], i.aw[1], i.p = 1))
        [] i.op = "mux" -> IF decode_bool(v[1]) THEN v[2] ELSE v[3]
        [] i.op = "slice" -> slice_limbs(v[1], i.p, i.w)
        [] i.op \in {"zext", "trunc", "cast"} -> fit_limbs(v[1], i.w)
        [] i.op = "sext" -> sext_limbs(v[1], i.aw[1], i.w)
        [] i.op = "concat" -> concat_limbs([k \in DOMAIN v |-> <<v[k], i.aw[k]>>], i.w)
        [] i.op = "memread" ->
             LET addr == decode_usize(v[1])
             IN  IF addr < MemDepth THEN load_memory(addr, i.w)
                 ELSE [k \in 1..limbs(i.w) |-> 0],
      i.w)

\* operands of an instruction as limbs
AsLimbs(i, a) == [k \in DOMAIN a |-> encode_u128_limbs(a[k], i.aw[k])]

LimbEval(i, a) == decode_u128_limbs(eval_machine_instr_lane(i, AsLimbs(i, a)))
-----------------------------------------------------------------------------
(* The same limbs in the WGSL that rrtl-gpu-sim generates for one          *)
(* instruction (lib.rs, instr_limb): every limb of the result is an        *)
(* expression of its own over the limbs of the operands, masked to the     *)
(* width.  A shader has no wider integer than a limb, so carries, borrows  *)
(* and comparisons are built from limb operations.  v holds the operands   *)
(* as limbs, aw their widths; limbs count from zero here, as in the code.  *)

Ones == Base - 1

machine_value_limb(x, limb) == IF limb < Len(x) THEN x[limb + 1] ELSE 0

limb_mask(width, limb) ==
    CASE limb + 1 = limbs(width) -> final_limb_mask(width)
      [] limb + 1 < limbs(width) -> Ones
      [] OTHER                   -> 0

shader_low_mask(width) == IF width >= LimbBits THEN Ones ELSE 2^width - 1

add_word(a, b, carry) == (a + b + carry) % Base

\* Mutant: a carry in that overflows the sum is not passed on.
add_carry_one_sum(a, b, carry) == Flag((a + b) % Base < a)

add_carry(a, b, carry) ==
    LET s == (a + b) % Base
    IN  Flag(s < a \/ (s + carry) % Base < s)

sub_word(a, b, borrow) == (a - b - borrow) % Base

sub_borrow(a, b, borrow) == Flag(a < b \/ (a - b) % Base < borrow)

\* the carry into a limb, from the limbs below it
machine_add_carry(l, r, limb) ==
    LET into[k \in 0..limb] ==
            IF k = 0 THEN 0 ELSE add_carry(machine_value_limb(l, k - 1), machine_value_limb(r, k - 1), into[k - 1])
    IN  into[limb]

machine_sub_borrow(l, r, limb) ==
    LET into[k \in 0..limb] ==
            IF k = 0 THEN 0 ELSE sub_borrow(machine_value_limb(l, k - 1), machine_value_limb(r, k - 1), into[k - 1])
    IN  into[limb]

Wider(aw) == IF aw[1] > aw[2] THEN aw[1] ELSE aw[2]

\* a limb without the bits above its operand's width
Masked(x, width, limb) == machine_value_limb(x, limb) & limb_mask(width, limb)

machine_eq_bool(l, r, aw) ==
    \A k \in 0..(limbs(Wider(aw)) - 1) : Masked(l, aw[1], k) = Masked(r, aw[2], k)

\* The limb compared last is the lowest, and it decides where it differs.
machine_unsigned_lt_bool(l, r, aw) ==
    LET n == limbs(Wider(aw))
        below[k \in 0..n] ==   \* the comparison of the limbs from k up
            IF k = n THEN FALSE
            ELSE IF Masked(l, aw[1], k) # Masked(r, aw[2], k) THEN Masked(l, aw[1], k) < Masked(r, aw[2], k)
            ELSE below[k + 1]
    IN  below[0]

\* the sign bit of an operand, where the first operand has it
SignAt(x, width) == BitOf(machine_value_limb(x, (width - 1) \div LimbBits), (width - 1) % LimbBits) = 1

machine_lt_bool(l, r, aw, signed) ==
    IF signed /\ SignAt(l, aw[1]) # SignAt(r, aw[1]) THEN SignAt(l, aw[1])
    ELSE machine_unsigned_lt_bool(l, r, aw)

\* Mutant: the bits that spill over from the limb above are left out.
machine_slice_bits_one_limb(x, value_width, lsb, width) ==
    IF width = 0 \/ lsb >= value_width THEN 0
    ELSE (machine_value_limb(x, lsb \div LimbBits) \div 2^(lsb % LimbBits))
         & shader_low_mask(IF width < LimbBits THEN width ELSE LimbBits)

\* width bits of x from lsb on, at most a limb of them
machine_slice_bits(x, value_width, lsb, width) ==
    LET shift == lsb % LimbBits
        low == machine_value_limb(x, lsb \div LimbBits)
        high == machine_value_limb(x, lsb \div LimbBits + 1)
        combined == IF shift = 0 THEN low
                    ELSE (low \div 2^shift) | ((high * 2^(LimbBits - shift)) % Base)
    IN  IF width = 0 \/ lsb >= value_width THEN 0
        ELSE combined & shader_low_mask(IF width < LimbBits THEN width ELSE LimbBits)

machine_sext_limb(x, input_width, limb) ==
    LET sign_limb == (input_width - 1) \div LimbBits
        word == machine_value_limb(x, limb)
        mask == final_limb_mask(input_width)
    IN  CASE limb < sign_limb -> word
          [] limb = sign_limb -> IF SignAt(x, input_width) THEN word | (Ones - mask) ELSE word & mask
          [] OTHER            -> IF SignAt(x, input_width) THEN Ones ELSE 0

\* The parts that overlap the limb, the last part lowest.
machine_concat_limb(v, aw, limb) ==
    LET dst_start == limb * LimbBits
        part_start(k) == FoldLeft(LAMBDA s, w : s + w, 0, SubSeq(aw, k + 1, Len(aw)))
        from(k) == IF dst_start > part_start(k) THEN dst_start ELSE part_start(k)
        to(k) == IF dst_start + LimbBits < part_start(k) + aw[k] THEN dst_start + LimbBits ELSE part_start(k) + aw[k]
        term(k) == (machine_slice_bits(v[k], aw[k], from(k) - part_start(k), to(k) - from(k)) * 2^(from(k) - dst_start))
                   % Base
    IN  FoldLeft(LAMBDA s, k : IF from(k) < to(k) THEN s | term(k) ELSE s, 0, [k \in DOMAIN v |-> k])

\* no range check is emitted where every address is in range
addr_width_exactly_covers_depth(width, depth) == 2^width = depth

machine_addr_in_range(addr, width) ==
    addr_width_exactly_covers_depth(width, MemDepth)
    \/ /\ machine_value_limb(addr, 0) < MemDepth
       /\ \A k \in 1..(limbs(width) - 1) : machine_value_limb(addr, k) = 0

\* Only the lowest limb of the address takes part in the index.
machine_mem_read_limb(addr, width, limb, w) ==
    IF machine_addr_in_range(addr, width)
    THEN machine_value_limb(load_memory(machine_value_limb(addr, 0), w), limb) ELSE 0

machine_value_bool(x) == machine_value_limb(x, 0) % 2 = 1

\* a limb of the result before the mask
instr_limb(i, v, limb) ==
    LET x(k) == machine_value_limb(v[k], limb)
        low(b) == IF limb = 0 THEN Flag(b) ELSE 0
    IN  CASE i.op = "not" -> Ones - x(1)
          [] i.op = "and" -> x(1) & x(2)
          [] i.op = "or"  -> x(1) | x(2)
          [] i.op = "xor" -> x(1) ^^ x(2)
          [] i.op = "add" -> add_word(x(1), x(2), machine_add_carry(v[1], v[2], limb))
          [] i.op = "sub" -> sub_word(x(1), x(2), machine_sub_borrow(v[1], v[2], limb))
          [] i.op = "mul" -> IF limb = 0 THEN (x(1) * x(2)) % Base ELSE 0
          [] i.op = "eq"  -> low(machine_eq_bool(v[1], v[2], i.aw))
          [] i.op = "ne"  -> low(~machine_eq_bool(v[1], v[2], i.aw))
          [] i.op = "lt"  -> low(machine_lt_bool(v[1], v[2], i.aw, i.p = 1))
          [] i.op = "mux" -> IF machine_value_bool(v[1]) THEN x(2) ELSE x(3)
          [] i.op = "slice" -> machine_slice_bits(v[1], i.aw[1], i.p + limb * LimbBits, LimbBits)
          [] i.op \in {"zext", "trunc", "cast"} -> x(1)
          [] i.op = "sext" -> machine_sext_limb(v[1], i.aw[1], limb)
          [] i.op = "concat" -> machine_concat_limb(v, i.aw, limb)
          [] i.op = "memread" -> machine_mem_read_limb(v[1], i.aw[1], limb, i.w)

ShaderEval(i, a) ==
    decode_u128_limbs([k \in 1..limbs(i.w) |-> instr_limb(i, AsLimbs(i, a), k - 1) & limb_mask(i.w, k - 1)])

\* What a shader computes limb by limb and cannot: the upper limbs of a product,
\* and a comparison in which the lowest limb outranks the others.
ShaderWide(i) == i.op \in {"mul", "lt"} /\ limbs(i.aw[1]) > 1

------------------------------------------------------------------------------
(***************************************************************************)
(* SimdCpuSimulator's evaluation of an instruction (rrtl-sim-ir): a word   *)
(* path when every value fits one limb, a two-word path when they fit two, *)
(* and the limb engine otherwise.  A lane is computed by the vector code   *)
(* (vector = TRUE: it lies in a full group of lanes) or by the scalar      *)
(* code of the remainder; both must agree.                                 *)
(***************************************************************************)

\* the slot of a value: its limbs, lowest first; absent limbs read as 0
Low(v) == v[1]
High(v) == IF Len(v) >= 2 THEN v[2] ELSE 0
is_one_limb(v) == Len(v) = 1
is_at_most_two_limb(v) == Len(v) <= 2
lane_u64(v) == Low(v) + Base * High(v)

Wrap(x) == x % Base
Not32(x) == Base - 1 - x
mask_u64(width) == IF width >= 2 * LimbBits THEN Base^2 - 1 ELSE 2^width - 1
low_mask(width) == IF width >= LimbBits THEN Base - 1 ELSE final_limb_mask(width)
high_mask(width) == IF width > LimbBits THEN final_limb_mask(width - LimbBits) ELSE 0

\* what set_lane_u64 stores in a destination of n limbs
set_lane_u64(x, n) == IF n = 1 THEN <<x % Base>> ELSE <<x % Base, (x \div Base) % Base>>
------------------------------------------------------------------------------
(* simd_words: one limb                                                    *)

binop_into(op, l, r, mask) ==
    mask & (CASE op = "and" -> l & r
              [] op = "or"  -> l | r
              [] op = "xor" -> l ^^ r
              [] op = "add" -> Wrap(l + r)
              [] op = "sub" -> Wrap(l - r)
              [] op = "mul" -> Wrap(l * r))

lt_s_into(l0, r0, width, mask) ==
    LET l == l0 & mask
        r == r0 & mask
        ls == BitOf(l, width - 1)
        rs == BitOf(r, width - 1)
    IN  IF ls # rs THEN ls = 1 ELSE l < r

sext_into(x, src_width, dst_mask) ==
    LET src_mask == final_limb_mask(src_width)
        value == x & src_mask
    IN  dst_mask & (IF BitOf(value, src_width - 1) = 1 THEN value | Not32(src_mask) ELSE value)

\* parts from the last to the first, each shifted above the ones before
concat_word(v, aw, limbMask) ==
    LET below(k) == FoldLeft(LAMBDA s, w : s + w, 0, SubSeq(aw, k + 1, Len(aw)))
    IN  limbMask & FoldLeft(LAMBDA s, k : s + lane_u64(v[k]) * 2^below(k), 0, [k \in DOMAIN aw |-> k])
------------------------------------------------------------------------------
(* simd_words: two limbs. The scalar code and the vector code of each.     *)

scalar_two_limb_binop_into(op, l, r, hm) ==
    LET low == IF op = "add" THEN Low(l) + Low(r) ELSE Low(l) - Low(r)
        carry == Flag(low \notin 0..Base-1)
    IN  CASE op = "and" -> <<Low(l) & Low(r), (High(l) & High(r)) & hm>>
          [] op = "or"  -> <<Low(l) | Low(r), (High(l) | High(r)) & hm>>
          [] op = "xor" -> <<Low(l) ^^ Low(r), (High(l) ^^ High(r)) & hm>>
          [] op = "add" -> <<Wrap(low), Wrap(High(l) + High(r) + carry) & hm>>
          [] op = "sub" -> <<Wrap(low), Wrap(High(l) - High(r) - carry) & hm>>

\* Mutant: the carry is taken from the right operand's comparison of the
\* difference, as for a subtraction.
aarch64_two_limb_binop_swapped(op, l, r, hm) ==
    LET low == IF op = "add" THEN Wrap(Low(l) + Low(r)) ELSE Wrap(Low(l) - Low(r))
        carry == IF op = "add" THEN Flag(Low(r) > Low(l)) ELSE Flag(Low(r) > Low(l))
    IN  CASE op \in {"and", "or", "xor"} -> scalar_two_limb_binop_into(op, l, r, hm)
          [] op = "add" -> <<low, Wrap(Wrap(High(l) + High(r)) + carry) & hm>>
          [] op = "sub" -> <<low, Wrap(Wrap(High(l) - High(r)) - carry) & hm>>

\* the carry is recovered from the wrapped low words by an unsigned compare
aarch64_two_limb_binop_into(op, l, r, hm) ==
    LET low == IF op = "add" THEN Wrap(Low(l) + Low(r)) ELSE Wrap(Low(l) - Low(r))
        carry == IF op = "add" THEN Flag(Low(l) > low) ELSE Flag(Low(r) > Low(l))
    IN  CASE op \in {"and", "or", "xor"} -> scalar_two_limb_binop_into(op, l, r, hm)
          [] op = "add" -> <<low, Wrap(Wrap(High(l) + High(r)) + carry) & hm>>
          [] op = "sub" -> <<low, Wrap(Wrap(High(l) - High(r)) - carry) & hm>>

two_limb_not_into(v, hm) == <<Not32(Low(v)), Not32(High(v)) & hm>>
two_limb_mask_into(v, hm) == <<Low(v), High(v) & hm>>
two_limb_mux_into(c, t, e, hm) == two_limb_mask_into(IF Low(c) % 2 = 1 THEN t ELSE e, hm)

two_limb_equal(l, r, lm, hm) == (Low(l) & lm) = (Low(r) & lm) /\ (High(l) & hm) = (High(r) & hm)

scalar_two_limb_lt_into(l, r, lm, hm, signed, width) ==
    LET ll == Low(l) & lm
        rl == Low(r) & lm
        lh == High(l) & hm
        rh == High(r) & hm
        sign(lo, hi) == IF width <= LimbBits THEN BitOf(lo, width - 1)
                        ELSE BitOf(hi, width - LimbBits - 1)
    IN  IF signed /\ sign(ll, lh) # sign(rl, rh) THEN sign(ll, lh) = 1
        ELSE lh < rh \/ (lh = rh /\ ll < rl)

\* the vector code takes the sign from the high word only and leaves signed
\* values of one word to the scalar code
aarch64_two_limb_lt_into(l, r, lm, hm, signed, width) ==
    LET lh == High(l) & hm
        rh == High(r) & hm
        ls == BitOf(lh, width - LimbBits - 1)
        rs == BitOf(rh, width - LimbBits - 1)
        unsigned_lt == lh < rh \/ (lh = rh /\ (Low(l) & lm) < (Low(r) & lm))
    IN  IF signed /\ width <= LimbBits THEN scalar_two_limb_lt_into(l, r, lm, hm, signed, width)
        ELSE IF signed THEN (IF ls # rs THEN ls = 1 ELSE unsigned_lt)
        ELSE unsigned_lt

scalar_two_limb_slice_into(v, lsb, n, hm) ==
    LET sliced == lane_u64(v) \div 2^lsb
    IN  IF n = 1 THEN <<sliced % Base>> ELSE <<sliced % Base, (sliced \div Base) & hm>>

aarch64_two_limb_slice_into(v, lsb, n, hm) ==
    LET low == CASE lsb = 0 -> Low(v)
                 [] lsb \in 1..LimbBits-1 ->
                      (Low(v) \div 2^lsb) | Wrap(High(v) * 2^(LimbBits - lsb))
                 [] lsb = LimbBits -> High(v)
        high == IF lsb < LimbBits THEN High(v) \div 2^lsb ELSE 0
    IN  IF lsb > LimbBits THEN scalar_two_limb_slice_into(v, lsb, n, hm)
        ELSE IF n = 1 THEN <<low>> ELSE <<low, high & hm>>

scalar_two_limb_sext_into(v, src_width, n, hm) ==
    LET src_mask == mask_u64(src_width)
        value == lane_u64(v) & src_mask
        extended == IF BitOf(value, src_width - 1) = 1 THEN value + (Base^2 - 1 - src_mask) ELSE value
    IN  IF n = 1 THEN <<extended % Base>> ELSE <<extended % Base, (extended \div Base) & hm>>

aarch64_two_limb_sext_into(v, src_width, n, hm) ==
    LET src_mask == final_limb_mask(IF src_width <= LimbBits THEN src_width ELSE src_width - LimbBits)
        top == src_mask & (IF src_width <= LimbBits THEN Low(v) ELSE High(v))
        sign == BitOf(top, (src_width - 1) % LimbBits) = 1
        filled == top | (IF sign THEN Not32(src_mask) ELSE 0)
        low == IF src_width <= LimbBits THEN filled ELSE Low(v)
        high == IF src_width > LimbBits THEN filled ELSE IF sign THEN Base - 1 ELSE 0
    IN  IF n = 1 THEN <<low>> ELSE <<low, high & hm>>
------------------------------------------------------------------------------
(* The dispatch of eval_simd_instr_into. Fits1 and Fits2 are the           *)
(* conditions of the one- and two-limb paths.                              *)

TotalWidth(i) == FoldLeft(LAMBDA s, w : s + w, 0, i.aw)

Fits1(i, v) ==
    /\ \A k \in DOMAIN v : is_one_limb(v[k])
    /\ i.op \in {"eq", "ne", "lt"} \/ i.w <= LimbBits
    /\ i.op = "slice" => i.p + i.w <= LimbBits
    /\ i.op = "concat" => TotalWidth(i) <= LimbBits
    /\ i.op # "memread"

Fits2(i, v) ==
    /\ \A k \in DOMAIN v : is_at_most_two_limb(v[k]) /\ i.aw[k] <= 2 * LimbBits
    /\ i.op = "mux" => is_one_limb(v[1])
    /\ i.op \in {"eq", "ne", "lt"} \/ i.w <= 2 * LimbBits
    /\ i.op = "slice" => i.p + i.w <= 2 * LimbBits
    /\ i.op = "concat" => TotalWidth(i) <= 2 * LimbBits

eval_one_limb(i, v) ==
    LET mask == final_limb_mask(i.w)
        amask == final_limb_mask(i.aw[1])
        x == Low(v[1])
    IN  CASE i.op = "not" -> Not32(x) & mask
          [] i.op \in BinOps -> binop_into(i.op, x, Low(v[2]), mask)
          [] i.op = "eq" -> Flag((x & amask) = (Low(v[2]) & amask))
          [] i.op = "ne" -> Flag((x & amask) # (Low(v[2]) & amask))
          [] i.op = "lt" -> Flag(IF i.p = 1 THEN lt_s_into(x, Low(v[2]), i.aw[1], amask)
                                 ELSE (x & amask) < (Low(v[2]) & amask))
          [] i.op = "mux" -> IF x % 2 = 1 THEN Low(v[2]) ELSE Low(v[3])
          [] i.op = "slice" -> (x \div 2^i.p) & mask
          [] i.op \in {"zext", "trunc", "cast"} -> x & mask
          [] i.op = "sext" -> sext_into(x, i.aw[1], mask)
          [] i.op = "concat" -> concat_word(v, i.aw, mask)

\* A result of one limb goes lane by lane through u64.
via_u64(i, x) == set_lane_u64(x & mask_u64(i.w), limbs(i.w))

eval_u64_not_into(i, v) ==
    IF limbs(i.w) = 2 THEN two_limb_not_into(v, high_mask(i.w)) ELSE via_u64(i, Base^2 - 1 - lane_u64(v))

eval_u64_mask_into(i, v) ==
    IF limbs(i.w) = 2 THEN two_limb_mask_into(v, high_mask(i.w)) ELSE via_u64(i, lane_u64(v))

eval_u64_mux_into(i, c, t, e) ==
    IF limbs(i.w) = 2 THEN two_limb_mux_into(c, t, e, high_mask(i.w))
    ELSE via_u64(i, lane_u64(IF Low(c) % 2 = 1 THEN t ELSE e))

\* a multiplication has no vector form
eval_u64_binop_into(i, l, r, vector) ==
    LET x == lane_u64(l)
        y == lane_u64(r)
        two == limbs(i.w) = 2 /\ i.op # "mul"
    IN  CASE two /\ vector -> aarch64_two_limb_binop_into(i.op, l, r, high_mask(i.w))
          [] two /\ ~vector -> scalar_two_limb_binop_into(i.op, l, r, high_mask(i.w))
          [] ~two /\ i.op = "and" -> via_u64(i, x & y)
          [] ~two /\ i.op = "or"  -> via_u64(i, x | y)
          [] ~two /\ i.op = "xor" -> via_u64(i, x ^^ y)
          [] ~two /\ i.op = "add" -> via_u64(i, (x + y) % Base^2)
          [] ~two /\ i.op = "sub" -> via_u64(i, (x - y) % Base^2)
          [] ~two /\ i.op = "mul" -> via_u64(i, (x * y) % Base^2)

eval_u64_compare_into(i, l, r) ==
    <<Flag((i.op = "eq") = two_limb_equal(l, r, low_mask(i.aw[1]), high_mask(i.aw[1])))>>

eval_u64_lt_into(i, l, r, vector) ==
    LET lm == low_mask(i.aw[1])
        hm == high_mask(i.aw[1])
    IN  <<Flag(IF vector THEN aarch64_two_limb_lt_into(l, r, lm, hm, i.p = 1, i.aw[1])
               ELSE scalar_two_limb_lt_into(l, r, lm, hm, i.p = 1, i.aw[1]))>>

eval_u64_slice_into(i, v, vector) ==
    IF vector THEN aarch64_two_limb_slice_into(v, i.p, limbs(i.w), high_mask(i.w))
    ELSE scalar_two_limb_slice_into(v, i.p, limbs(i.w), high_mask(i.w))

eval_u64_sext_into(i, v, vector) ==
    IF vector THEN aarch64_two_limb_sext_into(v, i.aw[1], limbs(i.w), high_mask(i.w))
    ELSE scalar_two_limb_sext_into(v, i.aw[1], limbs(i.w), high_mask(i.w))

eval_two_limb(i, v, vector) ==
    CASE i.op = "not" -> eval_u64_not_into(i, v[1])
      [] i.op \in BinOps -> eval_u64_binop_into(i, v[1], v[2], vector)
      [] i.op \in CmpOps -> eval_u64_compare_into(i, v[1], v[2])
      [] i.op = "lt" -> eval_u64_lt_into(i, v[1], v[2], vector)
      [] i.op = "mux" -> eval_u64_mux_into(i, v[1], v[2], v[3])
      [] i.op = "slice" -> eval_u64_slice_into(i, v[1], vector)
      [] i.op \in {"zext", "trunc", "cast"} -> eval_u64_mask_into(i, v[1])
      [] i.op = "sext" -> eval_u64_sext_into(i, v[1], vector)
      [] i.op = "concat" -> via_u64(i, concat_word(v, i.aw, mask_u64(i.w)))

\* of a memory of at most two limbs
eval_simd_mem_read_u64_into(i, v) ==
    LET addr == decode_usize(v[1])
    IN  IF addr < MemDepth THEN load_memory(addr, i.w) ELSE [k \in 1..limbs(i.w) |-> 0]

\* Every path ends by masking the last limb of the destination.
mask_final_limb(words, width) == [words EXCEPT ![Len(words)] = @ & final_limb_mask(width)]

eval_simd_instr_into(i, v, vector) ==
    CASE Fits1(i, v) -> mask_final_limb(<<eval_one_limb(i, v)>>, i.w)
      [] ~Fits1(i, v) /\ Fits2(i, v) /\ i.op # "memread" -> mask_final_limb(eval_two_limb(i, v, vector), i.w)
      [] Fits2(i, v) /\ i.op = "memread" -> mask_final_limb(eval_simd_mem_read_u64_into(i, v), i.w)
      [] OTHER -> eval_machine_instr_lane(i, v)

SimdEval(i, a, vector) == decode_u128_limbs(eval_simd_instr_into(i, AsLimbs(i, a), vector))
------------------------------------------------------------------------------
(***************************************************************************)
(* Two engines of rrtl-sim-ir that see one lane at a time.                 *)
(*                                                                         *)
(* SingleLaneMachineSimulator (lib.rs): instructions compiled once, to a   *)
(* word operation when result and operands fit a word and to a wide one    *)
(* otherwise.  WordBits is 32, WideBits 128 and UsizeBits 64 in the code;  *)
(* programs with a wider value are refused.                                *)
(*                                                                         *)
(* The bit-slice engine (bitslice.rs): a value is a sequence of bit        *)
(* planes, lowest first, one bit of each lane in a plane; one lane is      *)
(* followed here.  A plane above a value's width reads as zero.  The       *)
(* generated C computes the same planes.                                   *)
(***************************************************************************)

CONSTANTS WordBits, WideBits, UsizeBits

\* values the engine accepts
validate_single_lane_widths(i) == i.w <= WideBits /\ \A k \in DOMAIN i.aw : i.aw[k] <= WideBits

mask_of(width, bits) == IF width >= bits THEN 2^bits - 1 ELSE 2^width - 1
mask_u32(width) == mask_of(width, WordBits)
mask_u128(width) == mask_of(width, WideBits)
fit_width_u128(v, width) == v & mask_u128(width)
shift_right_u128(v, shift) == IF shift >= WideBits THEN 0 ELSE v \div 2^shift

sext_u128(v0, input_width, output_width) ==
    LET v == fit_width_u128(v0, input_width)
    IN  IF input_width < output_width /\ BitOf(v, input_width - 1) = 1
        THEN fit_width_u128(v | (2^WideBits - 1 - mask_u128(input_width)), output_width)
        ELSE fit_width_u128(v, output_width)

lt_u128(l0, r0, width, signed) ==
    LET l == fit_width_u128(l0, width)
        r == fit_width_u128(r0, width)
        sign(v) == BitOf(v, width - 1)
    IN  IF signed /\ sign(l) # sign(r) THEN sign(l) = 1 ELSE l < r

\* Mutant: signed comparisons are compiled to the word operation too.
compiles_to_word_signed(i) ==
    /\ i.w <= WordBits /\ \A k \in DOMAIN i.aw : i.aw[k] <= WordBits
    /\ i.op \notin {"sext", "memread"}
    /\ i.op = "concat" => FoldLeft(LAMBDA s, w : s + w, 0, i.aw) <= WordBits

\* compile_single_lane_fast_op returns an operation
compiles_to_word(i) ==
    /\ i.w <= WordBits /\ \A k \in DOMAIN i.aw : i.aw[k] <= WordBits
    /\ i.op \notin {"sext", "memread"}
    /\ ~(i.op = "lt" /\ i.p = 1)
    /\ i.op = "concat" => FoldLeft(LAMBDA s, w : s + w, 0, i.aw) <= WordBits

binary(op, l, r, bits) ==
    CASE op = "and" -> l & r
      [] op = "or"  -> l | r
      [] op = "xor" -> l ^^ r
      [] op = "add" -> (l + r) % 2^bits
      [] op = "sub" -> (l - r) % 2^bits
      [] op = "mul" -> (l * r) % 2^bits

concat(a, aw, bits) ==
    LET below(k) == FoldLeft(LAMBDA s, w : s + w, 0, SubSeq(aw, k + 1, Len(aw)))
        part(k) == IF below(k) < bits THEN ((a[k] & mask_of(aw[k], bits)) * 2^below(k)) % 2^bits ELSE 0
    IN  FoldLeft(LAMBDA s, k : s | part(k), 0, [k \in DOMAIN aw |-> k])

eval_single_lane_fast_op(i, a) ==
    LET mask == mask_u32(i.w)
        amask == mask_u32(i.aw[1])
    IN  CASE i.op = "not" -> (2^WordBits - 1 - a[1]) & mask
          [] i.op \in BinOps -> binary(i.op, a[1], a[2], WordBits) & mask
          [] i.op = "eq" -> Flag((a[1] & amask) = (a[2] & amask))
          [] i.op = "ne" -> Flag((a[1] & amask) # (a[2] & amask))
          [] i.op = "lt" -> Flag((a[1] & amask) < (a[2] & amask))
          [] i.op = "mux" -> (IF a[1] % 2 = 1 THEN a[2] ELSE a[3]) & mask
          [] i.op = "slice" -> (IF i.p >= WordBits THEN 0 ELSE a[1] \div 2^i.p) & mask
          [] i.op \in {"zext", "trunc", "cast"} -> a[1] & mask
          [] i.op = "concat" -> concat(a, i.aw, WordBits) & mask

eval_single_lane_op(i, a) ==
    LET mask == mask_u128(i.w)
        width == i.aw[1]
    IN  CASE i.op = "not" -> (2^WideBits - 1 - a[1]) & mask
          [] i.op \in BinOps -> binary(i.op, a[1], a[2], WideBits) & mask
          [] i.op = "eq" -> Flag(fit_width_u128(a[1], width) = fit_width_u128(a[2], width))
          [] i.op = "ne" -> Flag(fit_width_u128(a[1], width) # fit_width_u128(a[2], width))
          [] i.op = "lt" -> Flag(lt_u128(a[1], a[2], width, i.p = 1))
          [] i.op = "mux" -> (IF a[1] % 2 = 1 THEN a[2] ELSE a[3]) & mask
          [] i.op = "slice" -> shift_right_u128(a[1], i.p) & mask
          [] i.op \in {"zext", "trunc", "cast"} -> a[1] & mask
          [] i.op = "sext" -> sext_u128(a[1], width, i.w) & mask
          [] i.op = "concat" -> concat(a, i.aw, WideBits) & mask
          [] i.op = "memread" ->
               LET addr == a[1] % 2^UsizeBits   \* "as usize"
               IN  (IF addr < MemDepth THEN MemWord(addr, i.w) ELSE 0) & mask

eval_compiled_single_lane_op(i, a) ==
    IF compiles_to_word(i) THEN eval_single_lane_fast_op(i, a) ELSE eval_single_lane_op(i, a)
------------------------------------------------------------------------------
BitSliceOps == {"and", "or", "xor", "not", "mux", "eq", "ne", "add", "sub",
                "slice", "concat", "zext", "sext", "trunc", "cast"}

planes(x, w) == [p \in 1..w |-> BitOf(x, p - 1)]
unplanes(pl) == FoldRight(LAMBDA bit, acc : 2 * acc + bit, pl, 0)

rd(pl, p) == IF p <= Len(pl) THEN pl[p] ELSE 0

xor(x, y) == (x + y) % 2

binop(l, r, dw, op) ==
    [p \in 1..dw |-> CASE op = "and" -> rd(l, p) * rd(r, p)
                       [] op = "or"  -> rd(l, p) | rd(r, p)
                       [] op = "xor" -> xor(rd(l, p), rd(r, p))]

\* Mutant: the borrow starts at zero, so a - b computes a + ~b.
ripple_no_borrow(l, r, dw, sub) ==
    LET b(p) == IF sub THEN 1 - rd(r, p) ELSE rd(r, p)
        carry[p \in 1..(dw + 1)] ==
            IF p = 1 THEN 0
            ELSE (rd(l, p - 1) * b(p - 1)) | (carry[p - 1] * xor(rd(l, p - 1), b(p - 1)))
    IN  [p \in 1..dw |-> xor(xor(rd(l, p), b(p)), carry[p])]

\* a + b, or a + ~b + 1
ripple(l, r, dw, sub) ==
    LET b(p) == IF sub THEN 1 - rd(r, p) ELSE rd(r, p)
        carry[p \in 1..(dw + 1)] ==
            IF p = 1 THEN Flag(sub)
            ELSE (rd(l, p - 1) * b(p - 1)) | (carry[p - 1] * xor(rd(l, p - 1), b(p - 1)))
    IN  [p \in 1..dw |-> xor(xor(rd(l, p), b(p)), carry[p])]

differ(l, r) == Flag(\E p \in 1..(IF Len(l) > Len(r) THEN Len(l) ELSE Len(r)) : rd(l, p) # rd(r, p))

eval(i, v) ==
    CASE i.op = "not" -> [p \in 1..i.w |-> 1 - rd(v[1], p)]
      [] i.op \in {"and", "or", "xor"} -> binop(v[1], v[2], i.w, i.op)
      [] i.op \in {"add", "sub"} -> ripple(v[1], v[2], i.w, i.op = "sub")
      [] i.op = "eq" -> [p \in 1..i.w |-> IF p = 1 THEN 1 - differ(v[1], v[2]) ELSE 0]
      [] i.op = "ne" -> [p \in 1..i.w |-> IF p = 1 THEN differ(v[1], v[2]) ELSE 0]
      [] i.op = "mux" -> [p \in 1..i.w |-> (rd(v[1], 1) * rd(v[2], p)) | ((1 - rd(v[1], 1)) * rd(v[3], p))]
      [] i.op = "slice" -> [p \in 1..i.w |-> rd(v[1], p + i.p)]
      [] i.op \in {"zext", "trunc", "cast"} -> [p \in 1..i.w |-> rd(v[1], p)]
      [] i.op = "sext" -> [p \in 1..i.w |-> rd(v[1], IF p <= Len(v[1]) THEN p ELSE Len(v[1]))]
      [] i.op = "concat" -> FoldRight(LAMBDA part, acc : acc \o part, v, <<>>)

BitSliceEval(i, a) == unplanes(eval(i, [k \in DOMAIN a |-> planes(a[k], i.aw[k])]))
==============================================================================
