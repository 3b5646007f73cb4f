------------------------------ MODULE RvCircuits ------------------------------
(***************************************************************************)
(* The circuit rv_fifo and rv_mem_fifo emit (emit_rv_fifo_common plus the  *)
(* entries), clocked by the scalar simulator: every clock edge samples the *)
(* handshake computed from the registers and the inputs, then latches all  *)
(* registers together.  The register FIFO resets its entries; the memory   *)
(* FIFO's write port does not look at reset.                               *)
(*                                                                         *)
(* Beside them the two one-entry stages.  rv_skid_buffer emits full_q and  *)
(* bits_q with a combinational path from input to output while it is       *)
(* empty.  rv_register_slice emits valid_q and bits_q, passes ready        *)
(* straight back and loads its registers at every clock edge, whether or   *)
(* not the sink took what they hold: SinkStalls says whether the sink may  *)
(* hold ready low.  full_q stands for both full_q and valid_q.             *)
(***************************************************************************)
EXTENDS Naturals, Sequences

CONSTANTS Depth,      \* entries, at least 2 (the helper rejects less)
          MemBacked,  \* TRUE for rv_mem_fifo
          Values,     \* payloads; Zero is the reset value of an entry
          Zero,
          None,
          SinkStalls

\* bits that tell value values apart
ceil_log2_usize(value) ==
    CHOOSE w \in 0..value : 2^w >= value /\ \A v \in 0..w-1 : 2^v < value

\* values of the pointer registers and of the count register
PtrRange == 2^ceil_log2_usize(Depth)
CountRange == 2^ceil_log2_usize(Depth + 1)

(* What an instance gives the constants: the helper rejects a smaller depth, *)
(* and the registers hold every pointer and every count.                   *)
RvAssumption ==
    /\ Depth \in Nat \ {0, 1}
    /\ PtrRange \in Nat /\ PtrRange >= Depth
    /\ CountRange \in Nat /\ CountRange > Depth
    /\ Zero \in Values /\ None \notin Values

VARIABLES count_q, wptr_q, rptr_q,
          data,        \* entry registers data_<i>_q, or the memory
          full_q, bits_q,
          took, gave   \* what fired in the last cycle (observers)

FifoInit ==
    /\ count_q = 0 /\ wptr_q = 0 /\ rptr_q = 0
    /\ data = [i \in 0..Depth-1 |-> Zero]
    /\ took = None /\ gave = None

in_ready == count_q # Depth
out_valid == count_q # 0
\* mux_fifo_entry selects entry 0 for a pointer no entry has
out_bits == IF rptr_q < Depth THEN data[rptr_q] ELSE data[0]

write_fire(in_valid) == in_valid /\ in_ready
read_fire(out_ready) == out_valid /\ out_ready

\* Mutant: the count register is sized for Depth values instead of Depth + 1.
count_next_narrow(w, r) ==
    CASE w /\ ~r -> (count_q + 1) % PtrRange
      [] r /\ ~w -> (count_q + PtrRange - 1) % PtrRange
      [] OTHER   -> count_q

count_next(w, r) ==
    CASE w /\ ~r -> (count_q + 1) % CountRange
      [] r /\ ~w -> (count_q + CountRange - 1) % CountRange
      [] OTHER   -> count_q

\* Mutant: the pointer wraps with its register instead of at Depth - 1.
fifo_ptr_increment_wide(ptr) == (ptr + 1) % PtrRange

fifo_ptr_increment(ptr) == IF ptr = Depth - 1 THEN 0 ELSE (ptr + 1) % PtrRange

entries_next(w, bits) ==
    [i \in 0..Depth-1 |-> IF w /\ wptr_q = i THEN bits ELSE data[i]]

Clock(in_valid, bits, out_ready) ==
    LET w == write_fire(in_valid)
        r == read_fire(out_ready)
    IN  /\ count_q' = count_next(w, r)
        /\ wptr_q' = IF w THEN fifo_ptr_increment(wptr_q) ELSE wptr_q
        /\ rptr_q' = IF r THEN fifo_ptr_increment(rptr_q) ELSE rptr_q
        /\ data' = entries_next(w, bits)
        /\ took' = IF w THEN bits ELSE None
        /\ gave' = IF r THEN out_bits ELSE None

\* A clock edge with rst asserted.
ClockReset(in_valid, bits) ==
    /\ count_q' = 0 /\ wptr_q' = 0 /\ rptr_q' = 0
    /\ data' = IF MemBacked THEN entries_next(write_fire(in_valid), bits)
                            ELSE [i \in 0..Depth-1 |-> Zero]
    /\ took' = None /\ gave' = None

FifoNext == \E in_valid \in BOOLEAN, bits \in Values :
            \/ \E out_ready \in BOOLEAN : Clock(in_valid, bits, out_ready)
            \/ ClockReset(in_valid, bits)

FifoSpec == FifoInit /\ [][FifoNext]_<<count_q, wptr_q, rptr_q, data, took, gave>>

------------------------------------------------------------------------------
(***************************************************************************)
(* The count register agrees with the pointers, across wrap-around,        *)
(* simultaneous read and write, and reset.                                 *)
(***************************************************************************)
CountTracksPointers ==
    /\ count_q <= Depth /\ wptr_q < Depth /\ rptr_q < Depth
    /\ \/ wptr_q = rptr_q + count_q
       \/ wptr_q + Depth = rptr_q + count_q

\* The entry i places behind the read pointer.
EntryAt(i) == data[IF rptr_q + i < Depth THEN rptr_q + i ELSE rptr_q + i - Depth]

FifoContents == [i \in 1..count_q |-> EntryAt(i - 1)]
------------------------------------------------------------------------------
StageInit == full_q = FALSE /\ bits_q = Zero /\ took = None /\ gave = None

StageReset == full_q' = FALSE /\ bits_q' = Zero /\ took' = None /\ gave' = None

\* The items taken and not yet given.
StageContents == IF full_q THEN <<bits_q>> ELSE <<>>
------------------------------------------------------------------------------
skid_in_ready(out_ready) == ~full_q \/ out_ready
skid_out_valid(in_valid) == full_q \/ in_valid
skid_out_bits(bits) == IF full_q THEN bits_q ELSE bits

skid_full_next(in_valid, out_ready) ==
    IF out_ready THEN full_q /\ in_valid ELSE full_q \/ in_valid

\* Mutant: the entry is only loaded when the buffer was empty.
skid_bits_next_no_refill(in_valid, bits, out_ready) ==
    IF in_valid /\ ~full_q /\ ~out_ready THEN bits ELSE bits_q

skid_bits_next(in_valid, bits, out_ready) ==
    IF in_valid /\ ((~full_q /\ ~out_ready) \/ (full_q /\ out_ready))
    THEN bits ELSE bits_q

SkidClock(in_valid, bits, out_ready) ==
    /\ full_q' = skid_full_next(in_valid, out_ready)
    /\ bits_q' = skid_bits_next(in_valid, bits, out_ready)
    /\ took' = IF in_valid /\ skid_in_ready(out_ready) THEN bits ELSE None
    /\ gave' = IF skid_out_valid(in_valid) /\ out_ready THEN skid_out_bits(bits) ELSE None

SkidNext ==
    \/ \E in_valid, out_ready \in BOOLEAN, bits \in Values :
           SkidClock(in_valid, bits, out_ready)
    \/ StageReset

SkidSpec == StageInit /\ [][SkidNext]_<<full_q, bits_q, took, gave>>
------------------------------------------------------------------------------
\* Mutant: bits_q is not loaded by the item that is accepted while the
\* output is valid.
slice_bits_next_held(bits) == IF full_q THEN bits_q ELSE bits

slice_bits_next(bits) == bits

SliceClock(in_valid, bits, out_ready) ==
    /\ ~out_ready => SinkStalls
    /\ full_q' = in_valid
    /\ bits_q' = slice_bits_next(bits)
    /\ took' = IF in_valid /\ out_ready THEN bits ELSE None
    /\ gave' = IF full_q /\ out_ready THEN bits_q ELSE None

SliceNext ==
    \/ \E in_valid, out_ready \in BOOLEAN, bits \in Values :
           SliceClock(in_valid, bits, out_ready)
    \/ StageReset

SliceSpec == StageInit /\ [][SliceNext]_<<full_q, bits_q, took, gave>>
==============================================================================
