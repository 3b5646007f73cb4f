-------------------------- MODULE RvCircuitsProofs ---------------------------
(***************************************************************************)
(* The buffering circuits implement the channel for every depth and every  *)
(* payload: rv_fifo and rv_mem_fifo hold at most Depth items, the skid     *)
(* buffer one, and the register slice one as long as its sink never        *)
(* stalls.  An invariant relates the count register to the two pointers,   *)
(* and two lemmas say what a write and a read do to the items between the  *)
(* pointers, whatever side of the wrap-around they are on.                 *)
(***************************************************************************)
EXTENDS RvCircuits, SequenceTheorems, TLAPS

Fifo == INSTANCE ReadyValidChannel WITH Capacity <- Depth, q <- FifoContents

Stage == INSTANCE ReadyValidChannel WITH Capacity <- 1, q <- StageContents

Entries == 0..(Depth - 1)

FifoInv ==
    /\ count_q \in Nat /\ wptr_q \in Nat /\ rptr_q \in Nat
    /\ data \in [Entries -> Values]
    /\ CountTracksPointers

StageInv == full_q \in BOOLEAN /\ bits_q \in Values

(* The items of a FIFO with entries d, c of them from the read pointer on. *)
Place(r, i) == IF r + i < Depth THEN r + i ELSE r + i - Depth
Items(d, r, c) == [i \in 1..c |-> d[Place(r, i - 1)]]
After(p) == IF p = Depth - 1 THEN 0 ELSE p + 1
Stored(d, p, v) == [i \in Entries |-> IF p = i THEN v ELSE d[i]]

-----------------------------------------------------------------------------
LEMMA PlaceIsEntry ==
    ASSUME RvAssumption, NEW r \in Entries, NEW i \in Entries
    PROVE  Place(r, i) \in Entries
BY DEF RvAssumption, Place, Entries

LEMMA ItemsSeq ==
    ASSUME RvAssumption, NEW d \in [Entries -> Values], NEW r \in Entries, NEW c \in 0..Depth
    PROVE  /\ Items(d, r, c) \in Seq(Values)
           /\ Len(Items(d, r, c)) = c
           /\ \A i \in 1..c : Items(d, r, c)[i] = d[Place(r, i - 1)]
<1>1. c \in Nat
    BY DEF RvAssumption
<1>2. \A i \in 1..c : i - 1 \in Entries
    BY DEF RvAssumption, Entries
<1>3. \A i \in 1..c : d[Place(r, i - 1)] \in Values
    BY <1>2, PlaceIsEntry
<1>4. Items(d, r, c) \in [1..c -> Values]
    BY <1>3 DEF Items
<1> QED BY <1>1, <1>4, LenProperties, SeqDef DEF Items

(* A write puts its item behind the others.                                *)
LEMMA WriteAppends ==
    ASSUME RvAssumption, NEW d \in [Entries -> Values], NEW r \in Entries, NEW c \in Entries,
           NEW v \in Values
    PROVE  Items(Stored(d, Place(r, c), v), r, c + 1) = Append(Items(d, r, c), v)
<1> DEFINE e == Stored(d, Place(r, c), v)
           s == Items(d, r, c)
           t == Items(e, r, c + 1)
<1>1. c \in 0..Depth /\ c + 1 \in 0..Depth /\ c \in Nat
    BY DEF RvAssumption, Entries
<1>2. Place(r, c) \in Entries
    BY PlaceIsEntry
<1>3. e \in [Entries -> Values]
    BY DEF Stored
<1>4. s \in Seq(Values) /\ Len(s) = c /\ \A i \in 1..c : s[i] = d[Place(r, i - 1)]
    BY <1>1, ItemsSeq
<1>5. t \in Seq(Values) /\ Len(t) = c + 1 /\ \A i \in 1..(c + 1) : t[i] = e[Place(r, i - 1)]
    BY <1>1, <1>3, ItemsSeq
<1>6. \A i \in 1..c : t[i] = s[i]
    <2> TAKE i \in 1..c
    <2>0. i - 1 \in Entries
        BY DEF RvAssumption, Entries
    <2>1. Place(r, i - 1) \in Entries
        BY <2>0, PlaceIsEntry
    <2>2. Place(r, i - 1) # Place(r, c)
        BY DEF Place, Entries, RvAssumption
    <2>3. e[Place(r, i - 1)] = d[Place(r, i - 1)]
        BY <2>1, <2>2 DEF Stored
    <2>4. i \in 1..(c + 1)
        BY <1>1
    <2> QED BY <1>4, <1>5, <2>3, <2>4
<1>7. t[c + 1] = v
    <2>1. c + 1 \in 1..(c + 1) /\ (c + 1) - 1 = c
        BY <1>1
    <2>2. e[Place(r, c)] = v
        BY <1>2 DEF Stored
    <2> QED BY <1>5, <2>1, <2>2
<1> HIDE DEF e, s, t
<1>8. Append(s, v) \in Seq(Values) /\ Len(Append(s, v)) = c + 1
      /\ Append(s, v)[c + 1] = v /\ \A i \in 1..c : Append(s, v)[i] = s[i]
    BY <1>4, AppendProperties
<1>9. \A i \in 1..(c + 1) : t[i] = Append(s, v)[i]
    <2>1. 1..(c + 1) = 1..c \cup {c + 1}
        BY <1>1
    <2> QED BY <1>6, <1>7, <1>8, <2>1
<1>10. t = Append(s, v)
    BY <1>5, <1>8, <1>9, SeqEqual
<1> QED BY <1>10 DEF e, s, t

(* A read gives the item at the read pointer and leaves the others.        *)
LEMMA ReadTakesFirst ==
    ASSUME RvAssumption, NEW d \in [Entries -> Values], NEW r \in Entries, NEW c \in 1..Depth
    PROVE  /\ Items(d, r, c) # <<>>
           /\ Head(Items(d, r, c)) = d[r]
           /\ Tail(Items(d, r, c)) = Items(d, After(r), c - 1)
<1> DEFINE s == Items(d, r, c)
           t == Items(d, After(r), c - 1)
<1>1. c \in 0..Depth /\ c - 1 \in 0..Depth /\ After(r) \in Entries /\ c \in Nat /\ c >= 1
    BY DEF RvAssumption, Entries, After
<1>2. s \in Seq(Values) /\ Len(s) = c /\ \A i \in 1..c : s[i] = d[Place(r, i - 1)]
    BY <1>1, ItemsSeq
<1>3. t \in Seq(Values) /\ Len(t) = c - 1 /\ \A i \in 1..(c - 1) : t[i] = d[Place(After(r), i - 1)]
    BY <1>1, ItemsSeq
<1>4. \A i \in 1..(c - 1) : Place(After(r), i - 1) = Place(r, (i + 1) - 1) /\ i + 1 \in 1..c
    BY <1>1 DEF Place, After, Entries, RvAssumption
<1>5. \A i \in 1..(c - 1) : t[i] = s[i + 1]
    BY <1>2, <1>3, <1>4
<1>6. s[1] = d[r]
    <2>1. Place(r, 1 - 1) = r
        BY DEF Place, Entries, RvAssumption
    <2>2. 1 \in 1..c
        BY <1>1
    <2> QED BY <1>2, <2>1, <2>2
<1> HIDE DEF s, t
<1>7. s # <<>>
    BY <1>1, <1>2
<1>8. Tail(s) \in Seq(Values) /\ Len(Tail(s)) = c - 1 /\ Head(s) = s[1]
      /\ \A i \in 1..(c - 1) : Tail(s)[i] = s[i + 1]
    BY <1>1, <1>2, <1>7, HeadTailProperties
<1>9. Tail(s) = t
    BY <1>3, <1>5, <1>8, SeqEqual
<1> QED BY <1>6, <1>7, <1>8, <1>9 DEF s, t
-----------------------------------------------------------------------------
(* The FIFOs.                                                              *)

LEMMA SmallRemainder ==
    ASSUME NEW m \in Nat \ {0}, NEW x \in 0..(m - 1)
    PROVE  x % m = x /\ (x + m) % m = x
OBVIOUS

(* In the states of the invariant the registers are wide enough for what   *)
(* is written to them, so no addition wraps.                               *)
LEMMA RegistersDoNotWrap ==
    ASSUME RvAssumption, FifoInv
    PROVE  /\ wptr_q \in Entries /\ rptr_q \in Entries /\ count_q \in 0..Depth
           /\ wptr_q = Place(rptr_q, count_q) \/ count_q = Depth
           /\ fifo_ptr_increment(wptr_q) = After(wptr_q)
           /\ fifo_ptr_increment(rptr_q) = After(rptr_q)
           /\ count_q # Depth => (count_q + 1) % CountRange = count_q + 1
           /\ count_q # 0 => (count_q + CountRange - 1) % CountRange = count_q - 1
<1>1. wptr_q \in Entries /\ rptr_q \in Entries /\ count_q \in 0..Depth /\ Depth \in Nat /\ Depth > 1
    BY DEF RvAssumption, FifoInv, CountTracksPointers, Entries
<1>2. wptr_q = Place(rptr_q, count_q) \/ count_q = Depth
    BY <1>1 DEF FifoInv, CountTracksPointers, Place, Entries
<1>3. \A p \in Entries : fifo_ptr_increment(p) = After(p)
    <2> TAKE p \in Entries
    <2>1. p # Depth - 1 => p + 1 \in 0..(PtrRange - 1)
        BY <1>1 DEF RvAssumption, Entries
    <2>3. p # Depth - 1 => (p + 1) % PtrRange = p + 1
        BY <1>1, <2>1, SmallRemainder DEF RvAssumption
    <2> QED BY <2>3 DEF fifo_ptr_increment, After
<1>4. count_q # Depth => (count_q + 1) % CountRange = count_q + 1
    <2>1. count_q # Depth => count_q + 1 \in 0..(CountRange - 1)
        BY <1>1 DEF RvAssumption
    <2> QED BY <1>1, <2>1, SmallRemainder DEF RvAssumption
<1>5. count_q # 0 => (count_q + CountRange - 1) % CountRange = count_q - 1
    <2>1. count_q # 0 => count_q - 1 \in 0..(CountRange - 1)
        BY <1>1 DEF RvAssumption
    <2>3. count_q + CountRange - 1 = (count_q - 1) + CountRange
        BY <1>1 DEF RvAssumption
    <2> QED BY <1>1, <2>1, <2>3, SmallRemainder DEF RvAssumption
<1> QED BY <1>1, <1>2, <1>3, <1>4, <1>5

LEMMA ContentsAreItems ==
    /\ FifoContents = Items(data, rptr_q, count_q)
    /\ FifoContents' = Items(data', rptr_q', count_q')
BY DEF FifoContents, EntryAt, Items, Place

LEMMA WriteStores ==
    ASSUME FifoInv, NEW w \in BOOLEAN, NEW bits
    PROVE  entries_next(w, bits) = IF w THEN Stored(data, wptr_q, bits) ELSE data
BY DEF FifoInv, entries_next, Stored, Entries

LEMMA FifoClockKeeps ==
    ASSUME RvAssumption, FifoInv, NEW in_valid \in BOOLEAN, NEW bits \in Values, NEW out_ready \in BOOLEAN,
           Clock(in_valid, bits, out_ready)
    PROVE  FifoInv'
<1> DEFINE w == write_fire(in_valid)
           r == read_fire(out_ready)
<1>1. /\ w \in BOOLEAN /\ r \in BOOLEAN
      /\ w => count_q # Depth
      /\ r => count_q # 0
    BY DEF write_fire, read_fire, in_ready, out_valid
<1>2. /\ count_q' = count_next(w, r)
      /\ wptr_q' = IF w THEN fifo_ptr_increment(wptr_q) ELSE wptr_q
      /\ rptr_q' = IF r THEN fifo_ptr_increment(rptr_q) ELSE rptr_q
      /\ data' = entries_next(w, bits)
    BY DEF Clock
<1> HIDE DEF w, r
<1>3. count_q' = IF w /\ ~r THEN count_q + 1 ELSE IF r /\ ~w THEN count_q - 1 ELSE count_q
    BY <1>1, <1>2, RegistersDoNotWrap DEF count_next
<1>4. /\ wptr_q' = IF w THEN After(wptr_q) ELSE wptr_q
      /\ rptr_q' = IF r THEN After(rptr_q) ELSE rptr_q
    BY <1>2, RegistersDoNotWrap
<1>5. data' \in [Entries -> Values]
    BY <1>1, <1>2, WriteStores DEF FifoInv, Stored
<1>6. wptr_q \in Entries /\ rptr_q \in Entries /\ count_q \in 0..Depth /\ Depth \in Nat /\ Depth > 1
    BY RegistersDoNotWrap DEF RvAssumption
<1>7. count_q' \in Nat /\ wptr_q' \in Nat /\ rptr_q' \in Nat
    BY <1>1, <1>3, <1>4, <1>6 DEF After, Entries
<1>8. CountTracksPointers'
    BY <1>1, <1>3, <1>4, <1>6 DEF After, Entries, CountTracksPointers, FifoInv
<1> QED BY <1>5, <1>7, <1>8 DEF FifoInv

LEMMA FifoClockIsCycle ==
    ASSUME RvAssumption, FifoInv, NEW in_valid \in BOOLEAN, NEW bits \in Values, NEW out_ready \in BOOLEAN,
           Clock(in_valid, bits, out_ready)
    PROVE  \E t, g \in Values \cup {None} : Fifo!Cycle(t, g)
<1> DEFINE w == write_fire(in_valid)
           r == read_fire(out_ready)
           d == IF w THEN Stored(data, wptr_q, bits) ELSE data
           n == IF w THEN count_q + 1 ELSE count_q
           all == Items(d, rptr_q, n)
<1>1. /\ w \in BOOLEAN /\ r \in BOOLEAN
      /\ w => count_q # Depth
      /\ r => count_q # 0
    BY DEF write_fire, read_fire, in_ready, out_valid
<1>2. /\ count_q' = count_next(w, r)
      /\ rptr_q' = IF r THEN fifo_ptr_increment(rptr_q) ELSE rptr_q
      /\ data' = entries_next(w, bits)
      /\ took' = IF w THEN bits ELSE None
      /\ gave' = IF r THEN out_bits ELSE None
    BY DEF Clock
<1> HIDE DEF w, r
<1>3. /\ count_q' = IF r THEN n - 1 ELSE n
      /\ rptr_q' = IF r THEN After(rptr_q) ELSE rptr_q
      /\ data' = d
    BY <1>1, <1>2, RegistersDoNotWrap, WriteStores DEF count_next
<1>4. /\ rptr_q \in Entries /\ wptr_q \in Entries /\ count_q \in 0..Depth
      /\ n \in 0..Depth /\ (r => n \in 1..Depth) /\ count_q' \in 0..Depth
      /\ data \in [Entries -> Values] /\ d \in [Entries -> Values]
    <2>1. rptr_q \in Entries /\ wptr_q \in Entries /\ count_q \in 0..Depth /\ data \in [Entries -> Values]
        BY RegistersDoNotWrap DEF FifoInv
    <2>2. n \in 0..Depth /\ (r => n \in 1..Depth) /\ count_q' \in 0..Depth
        BY <1>1, <1>3, <2>1 DEF RvAssumption
    <2>3. d \in [Entries -> Values]
        BY <2>1 DEF Stored
    <2> QED BY <2>1, <2>2, <2>3
<1>5. bits # None /\ out_bits = data[rptr_q] /\ out_bits \in Values /\ out_bits # None
    BY <1>4 DEF out_bits, Entries, RvAssumption
<1>6. Fifo!Offered(took') = all
    <2>1. CASE w
        <3>1. wptr_q = Place(rptr_q, count_q) /\ count_q \in Entries
            BY <1>1, <1>4, <2>1, RegistersDoNotWrap DEF Entries, RvAssumption
        <3>2. all = Append(FifoContents, bits)
            BY ZenonT(30), <1>4, <2>1, <3>1, WriteAppends, ContentsAreItems
        <3> QED BY <1>2, <1>5, <2>1, <3>2 DEF Fifo!Offered
    <2>2. CASE ~w
        BY <1>2, <2>2, ContentsAreItems DEF Fifo!Offered
    <2> QED BY <2>1, <2>2
<1>7. FifoContents' = IF r THEN Tail(all) ELSE all
    BY <1>3, <1>4, ContentsAreItems, ReadTakesFirst
<1>8. r => all # <<>> /\ out_bits = Head(all)
    <2> SUFFICES ASSUME r PROVE all # <<>> /\ out_bits = Head(all)
        OBVIOUS
    <2>1. all # <<>> /\ Head(all) = d[rptr_q]
        BY <1>4, ReadTakesFirst
    <2>2. d[rptr_q] = data[rptr_q]
        <3>1. w => wptr_q # rptr_q
            BY <1>1, <1>4 DEF FifoInv, CountTracksPointers, RvAssumption, Entries
        <3> QED BY <1>4, <3>1 DEF Stored
    <2> QED BY <1>5, <2>1, <2>2
<1>9. Len(FifoContents') <= Depth
    <2>1. rptr_q' \in Entries
        BY <1>3, <1>4 DEF After, Entries, RvAssumption
    <2>2. Len(Items(data', rptr_q', count_q')) = count_q'
        BY <1>3, <1>4, <2>1, ItemsSeq
    <2>3. Len(FifoContents') = count_q'
        BY <2>2, ContentsAreItems
    <2> QED BY <1>4, <2>3 DEF RvAssumption
<1> HIDE DEF all, d, n
<1>10. Fifo!Cycle(took', gave')
    BY <1>2, <1>5, <1>6, <1>7, <1>8, <1>9 DEF Fifo!Cycle
<1>11. took' \in Values \cup {None} /\ gave' \in Values \cup {None}
    BY <1>2, <1>5
<1> QED BY <1>10, <1>11

LEMMA FifoResets ==
    ASSUME RvAssumption, FifoInv, NEW in_valid \in BOOLEAN, NEW bits \in Values, ClockReset(in_valid, bits)
    PROVE  FifoInv' /\ Fifo!Flush
<1>1. write_fire(in_valid) \in BOOLEAN
    BY DEF write_fire, in_ready
<1>2. entries_next(write_fire(in_valid), bits) \in [Entries -> Values]
    BY <1>1, WriteStores DEF FifoInv, Stored
<1>3. data' \in [Entries -> Values]
    BY <1>2 DEF ClockReset, RvAssumption, Entries
<1>4. count_q' = 0 /\ wptr_q' = 0 /\ rptr_q' = 0 /\ took' = None /\ gave' = None
    BY DEF ClockReset
<1>5. FifoInv'
    BY <1>3, <1>4 DEF FifoInv, CountTracksPointers, RvAssumption
<1>6. FifoContents' = <<>>
    BY <1>4 DEF FifoContents
<1> QED BY <1>4, <1>5, <1>6 DEF Fifo!Flush

LEMMA FifoStarts ==
    ASSUME RvAssumption, FifoInit
    PROVE  FifoInv /\ Fifo!ChannelInit
<1>1. data \in [Entries -> Values]
    BY DEF FifoInit, RvAssumption, Entries
<1>2. FifoInv
    BY <1>1 DEF FifoInit, FifoInv, CountTracksPointers, RvAssumption
<1>3. FifoContents = <<>>
    BY DEF FifoInit, FifoContents
<1> QED BY <1>2, <1>3 DEF FifoInit, Fifo!ChannelInit

fifoState == <<count_q, wptr_q, rptr_q, data, took, gave>>

LEMMA FifoSteps ==
    ASSUME RvAssumption, FifoInv, [FifoNext]_fifoState
    PROVE  FifoInv' /\ [Fifo!ChannelNext]_Fifo!channelVars
<1>1. CASE FifoNext
    <2>1. PICK in_valid \in BOOLEAN, bits \in Values :
              \/ \E out_ready \in BOOLEAN : Clock(in_valid, bits, out_ready)
              \/ ClockReset(in_valid, bits)
        BY <1>1 DEF FifoNext
    <2>2. CASE \E out_ready \in BOOLEAN : Clock(in_valid, bits, out_ready)
        BY <2>2, FifoClockKeeps, FifoClockIsCycle DEF Fifo!ChannelNext
    <2>3. CASE ClockReset(in_valid, bits)
        BY <2>3, FifoResets DEF Fifo!ChannelNext
    <2> QED BY <2>1, <2>2, <2>3
<1>2. CASE UNCHANGED fifoState
    <2>1. UNCHANGED <<count_q, wptr_q, rptr_q, data, took, gave>>
        BY <1>2 DEF fifoState
    <2>2. FifoInv'
        BY <2>1 DEF FifoInv, CountTracksPointers
    <2>3. FifoContents' = FifoContents
        BY <2>1, ContentsAreItems
    <2> QED BY <2>1, <2>2, <2>3 DEF Fifo!channelVars
<1> QED BY <1>1, <1>2

(* emit_rv_fifo_common: in a FIFO of any depth the count register is the   *)
(* distance of the pointers, across wrap-around, a read and a write in one *)
(* cycle, and reset.                                                       *)
THEOREM CountsTrackPointers ==
    ASSUME RvAssumption
    PROVE  FifoSpec => []CountTracksPointers
<1>1. FifoInit => FifoInv
    BY FifoStarts
<1>2. FifoInv /\ [FifoNext]_fifoState => FifoInv'
    BY FifoSteps
<1>3. FifoInv => CountTracksPointers
    BY DEF FifoInv
<1>4. FifoSpec => FifoInit /\ [][FifoNext]_fifoState
    BY DEF FifoSpec, fifoState
<1> QED BY <1>1, <1>2, <1>3, <1>4, PTL

(* rv_fifo and rv_mem_fifo of any depth implement the channel: for every   *)
(* pattern of valid, ready and reset, the items that fire on the input     *)
(* fire on the output once, in order, and at most Depth are held.          *)
THEOREM FifoIsChannel ==
    ASSUME RvAssumption
    PROVE  FifoSpec => Fifo!Spec
<1>1. FifoInit => FifoInv /\ Fifo!ChannelInit
    BY FifoStarts
<1>2. FifoInv /\ [FifoNext]_fifoState => FifoInv' /\ [Fifo!ChannelNext]_Fifo!channelVars
    BY FifoSteps
<1>3. FifoSpec => FifoInit /\ [][FifoNext]_fifoState
    BY DEF FifoSpec, fifoState
<1> QED BY <1>1, <1>2, <1>3, PTL DEF Fifo!Spec

-----------------------------------------------------------------------------
(* The one-entry stages.                                                   *)

stageState == <<full_q, bits_q, took, gave>>

(* What the abstract channel does with at most one item held.              *)
LEMMA StageSeq ==
    ASSUME NEW v \in Values, NEW u \in Values
    PROVE  /\ Append(<<>>, v) = <<v>>
           /\ Append(<<u>>, v) = <<u, v>>
           /\ <<v>> # <<>> /\ Head(<<v>>) = v /\ Tail(<<v>>) = <<>>
           /\ <<u, v>> # <<>> /\ Head(<<u, v>>) = u /\ Tail(<<u, v>>) = <<v>>
           /\ Len(<<v>>) = 1
<1>1. Append(<<u>>, v) = <<u, v>>
    <2>1. <<u>> \in Seq(Values) /\ Len(<<u>>) = 1 /\ <<u>>[1] = u
        OBVIOUS
    <2>2. <<u, v>> \in Seq(Values) /\ Len(<<u, v>>) = 2 /\ <<u, v>>[1] = u /\ <<u, v>>[2] = v
        OBVIOUS
    <2> DEFINE s == Append(<<u>>, v)
    <2>3. s \in Seq(Values) /\ Len(s) = 2 /\ s[1] = u /\ s[2] = v
        BY <2>1, AppendProperties
    <2> HIDE DEF s
    <2>4. \A i \in 1..2 : s[i] = <<u, v>>[i]
        BY <2>2, <2>3
    <2> QED BY <2>2, <2>3, <2>4, SeqEqual DEF s
<1>2. Append(<<>>, v) = <<v>>
    OBVIOUS
<1>3. <<v>> # <<>> /\ Head(<<v>>) = v /\ Tail(<<v>>) = <<>> /\ Len(<<v>>) = 1
    OBVIOUS
<1>4. <<u, v>> # <<>> /\ Head(<<u, v>>) = u /\ Tail(<<u, v>>) = <<v>>
    OBVIOUS
<1> QED BY <1>1, <1>2, <1>3, <1>4

LEMMA StageStarts ==
    ASSUME RvAssumption, StageInit
    PROVE  StageInv /\ Stage!ChannelInit
BY DEF RvAssumption, StageInit, StageInv, Stage!ChannelInit, StageContents

LEMMA StageResets ==
    ASSUME RvAssumption, StageReset
    PROVE  StageInv' /\ Stage!Flush
BY DEF RvAssumption, StageReset, StageInv, Stage!Flush, StageContents

LEMMA StageIdles ==
    ASSUME StageInv, UNCHANGED stageState
    PROVE  StageInv' /\ UNCHANGED Stage!channelVars
BY DEF StageInv, stageState, Stage!channelVars, StageContents

LEMMA SkidClocks ==
    ASSUME RvAssumption, StageInv, NEW in_valid \in BOOLEAN, NEW bits \in Values, NEW out_ready \in BOOLEAN,
           SkidClock(in_valid, bits, out_ready)
    PROVE  StageInv' /\ \E t, g \in Values \cup {None} : Stage!Cycle(t, g)
<1>1. /\ full_q' = IF out_ready THEN full_q /\ in_valid ELSE full_q \/ in_valid
      /\ bits_q' = IF in_valid /\ ((~full_q /\ ~out_ready) \/ (full_q /\ out_ready)) THEN bits ELSE bits_q
      /\ took' = IF in_valid /\ (~full_q \/ out_ready) THEN bits ELSE None
      /\ gave' = IF (full_q \/ in_valid) /\ out_ready THEN (IF full_q THEN bits_q ELSE bits) ELSE None
    BY DEF SkidClock, skid_full_next, skid_bits_next, skid_in_ready, skid_out_valid, skid_out_bits
<1>2. full_q \in BOOLEAN /\ bits_q \in Values /\ bits # None /\ bits_q # None
    BY DEF StageInv, RvAssumption
<1>3. StageInv'
    BY <1>1, <1>2 DEF StageInv
<1>4. took' \in Values \cup {None} /\ gave' \in Values \cup {None}
    BY <1>1, <1>2
<1>5. Stage!Cycle(took', gave')
    <2>1. CASE full_q
        <3>1. StageContents = <<bits_q>> /\ StageContents' = IF full_q' THEN <<bits_q'>> ELSE <<>>
            BY <2>1 DEF StageContents
        <3>2. CASE out_ready
            <4>1. Stage!Offered(took') = IF in_valid THEN <<bits_q, bits>> ELSE <<bits_q>>
                BY <1>1, <1>2, <2>1, <3>1, <3>2, StageSeq DEF Stage!Offered
            <4>2. gave' = bits_q /\ StageContents' = IF in_valid THEN <<bits>> ELSE <<>>
                BY <1>1, <2>1, <3>1, <3>2
            <4> QED BY <1>2, <4>1, <4>2, StageSeq DEF Stage!Cycle
        <3>3. CASE ~out_ready
            <4>1. Stage!Offered(took') = <<bits_q>> /\ gave' = None /\ StageContents' = <<bits_q>>
                BY <1>1, <2>1, <3>1, <3>3 DEF Stage!Offered
            <4> QED BY <1>2, <4>1, StageSeq DEF Stage!Cycle
        <3> QED BY <3>2, <3>3
    <2>2. CASE ~full_q
        BY <1>1, <1>2, <2>2, StageSeq DEF Stage!Cycle, Stage!Offered, StageContents
    <2> QED BY <2>1, <2>2
<1> QED BY <1>3, <1>4, <1>5

LEMMA SkidSteps ==
    ASSUME RvAssumption, StageInv, [SkidNext]_stageState
    PROVE  StageInv' /\ [Stage!ChannelNext]_Stage!channelVars
BY SkidClocks, StageResets, StageIdles DEF SkidNext, Stage!ChannelNext

(* rv_skid_buffer: the one-entry buffer with a path around it is a channel *)
(* that holds at most one item, however ready and valid interleave.        *)
THEOREM SkidIsChannel ==
    ASSUME RvAssumption
    PROVE  SkidSpec => Stage!Spec
<1>1. StageInit => StageInv /\ Stage!ChannelInit
    BY StageStarts
<1>2. StageInv /\ [SkidNext]_stageState => StageInv' /\ [Stage!ChannelNext]_Stage!channelVars
    BY SkidSteps
<1>3. SkidSpec => StageInit /\ [][SkidNext]_stageState
    BY DEF SkidSpec, stageState
<1> QED BY <1>1, <1>2, <1>3, PTL DEF Stage!Spec

LEMMA SliceClocks ==
    ASSUME RvAssumption, ~SinkStalls, StageInv, NEW in_valid \in BOOLEAN, NEW bits \in Values,
           NEW out_ready \in BOOLEAN, SliceClock(in_valid, bits, out_ready)
    PROVE  StageInv' /\ \E t, g \in Values \cup {None} : Stage!Cycle(t, g)
<1>1. /\ full_q' = in_valid
      /\ bits_q' = bits
      /\ took' = IF in_valid THEN bits ELSE None
      /\ gave' = IF full_q THEN bits_q ELSE None
    BY DEF SliceClock, slice_bits_next
<1>2. full_q \in BOOLEAN /\ bits_q \in Values /\ bits # None /\ bits_q # None
    BY DEF StageInv, RvAssumption
<1>3. StageInv'
    BY <1>1, <1>2 DEF StageInv
<1>4. took' \in Values \cup {None} /\ gave' \in Values \cup {None}
    BY <1>1, <1>2
<1>5. Stage!Cycle(took', gave')
    <2>1. CASE full_q
        <3>1. StageContents = <<bits_q>> /\ StageContents' = IF in_valid THEN <<bits>> ELSE <<>>
            BY <1>1, <2>1 DEF StageContents
        <3>2. Stage!Offered(took') = IF in_valid THEN <<bits_q, bits>> ELSE <<bits_q>>
            BY <1>1, <1>2, <2>1, <3>1, StageSeq DEF Stage!Offered
        <3>3. gave' = bits_q
            BY <1>1, <2>1
        <3> QED BY <1>2, <3>1, <3>2, <3>3, StageSeq DEF Stage!Cycle
    <2>2. CASE ~full_q
        BY <1>1, <1>2, <2>2, StageSeq DEF Stage!Cycle, Stage!Offered, StageContents
    <2> QED BY <2>1, <2>2
<1> QED BY <1>3, <1>4, <1>5

LEMMA SliceSteps ==
    ASSUME RvAssumption, ~SinkStalls, StageInv, [SliceNext]_stageState
    PROVE  StageInv' /\ [Stage!ChannelNext]_Stage!channelVars
BY SliceClocks, StageResets, StageIdles DEF SliceNext, Stage!ChannelNext

(* rv_register_slice: before a sink that never holds ready low the slice   *)
(* is a channel of one item.  Without that hypothesis it is not: it loads  *)
(* its registers whether or not the sink took what they hold.              *)
THEOREM SliceIsChannel ==
    ASSUME RvAssumption, ~SinkStalls
    PROVE  SliceSpec => Stage!Spec
<1>1. StageInit => StageInv /\ Stage!ChannelInit
    BY StageStarts
<1>2. StageInv /\ [SliceNext]_stageState => StageInv' /\ [Stage!ChannelNext]_Stage!channelVars
    BY SliceSteps
<1>3. SliceSpec => StageInit /\ [][SliceNext]_stageState
    BY DEF SliceSpec, stageState
<1> QED BY <1>1, <1>2, <1>3, PTL DEF Stage!Spec

=============================================================================
