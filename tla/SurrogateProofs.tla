--------------------------- MODULE SurrogateProofs ---------------------------
(***************************************************************************)
(* The surrogates keep their promises for every manifest, trace, config,   *)
(* corpus, batch, topology and list of worker specs a user may write, any  *)
(* number of edits and any number of runtime actions.                      *)
(*                                                                         *)
(* The argument.  A plan on disk is what a planning command made of some   *)
(* manifest, corpus or batch and worker specs, all of them well typed,     *)
(* whatever was written to these files since (GemmSide, EventSide); and a  *)
(* runtime's attachment is sound for its shards, with an execution report  *)
(* of the actions since (RuntimeSide).  That is inductive, and what a FAST *)
(* run, an attachment or a report owes follows from it by lemmas on the    *)
(* model's operators: sums of sequences, contiguous worker specs and their *)
(* owners, policy items, plans, tallies by worker and by lane.             *)
(***************************************************************************)
EXTENDS MCSurrogates, FiniteSetTheorems, WellFoundedInduction, TLAPS

(* Induction, on a set of numbers.                                         *)
LEMMA NatSetInduction ==
    ASSUME NEW S, 0 \in S, \A n \in Nat : n \in S => n + 1 \in S
    PROVE  Nat \subseteq S
<1>1. SUFFICES ASSUME Nat \ S # {} PROVE FALSE
    OBVIOUS
<1>2. PICK x \in Nat \ S : \A y \in Nat \ S : ~ (<<y, x>> \in OpToRel(<, Nat))
    <2>1. Nat \ S \subseteq Nat
        OBVIOUS
    <2>2. IsWellFoundedOn(OpToRel(<, Nat), Nat)
        BY NatLessThanWellFounded
    <2>3. QED
        BY <1>1, <2>1, <2>2, WFMin
<1>3. x # 0
    OBVIOUS
<1>4. x - 1 \in Nat
    BY <1>3
<1>5. <<x - 1, x>> \in OpToRel(<, Nat)
    BY <1>4 DEF OpToRel
<1>6. x - 1 \in S
    BY <1>2, <1>4, <1>5
<1>7. QED
    BY <1>4, <1>6

-----------------------------------------------------------------------------
(* Prefix sums.                                                            *)
LEMMA SumsExist ==
    ASSUME NEW s, NEW n \in Nat
    PROVE  \E f : f = [i \in 0..n |-> IF i = 0 THEN 0 ELSE f[i - 1] + s[i]]
<1> DEFINE Good(f, k) == f = [i \in 0..k |-> IF i = 0 THEN 0 ELSE f[i - 1] + s[i]]
           S == {k \in Nat : \E f : Good(f, k)}
<1>1. 0 \in S
    <2>1. Good([i \in 0..0 |-> 0], 0)
        OBVIOUS
    <2>2. QED
        BY <2>1
<1>2. ASSUME NEW k \in Nat, k \in S PROVE k + 1 \in S
    <2>1. PICK f : Good(f, k)
        BY <1>2
    <2> DEFINE g == [i \in 0..(k + 1) |-> IF i \in 0..k THEN f[i] ELSE f[k] + s[k + 1]]
    <2>2. ASSUME NEW i \in 0..(k + 1)
          PROVE  g[i] = IF i = 0 THEN 0 ELSE g[i - 1] + s[i]
        <3>1. CASE i = 0
            BY <2>1, <3>1
        <3>2. CASE i \in 1..k
            <4>1. i \in 0..k /\ i - 1 \in 0..k /\ i # 0
                BY <3>2
            <4>2. g[i] = f[i] /\ g[i - 1] = f[i - 1]
                BY <4>1
            <4>3. f[i] = f[i - 1] + s[i]
                BY <2>1, <4>1
            <4>4. QED
                BY <4>1, <4>2, <4>3
        <3>3. CASE i = k + 1
            <4>1. i \notin 0..k /\ i - 1 = k /\ k \in 0..k /\ k \in 0..(k + 1) /\ i # 0
                BY <3>3
            <4>2. QED
                BY <3>3, <4>1
        <3>4. QED
            BY <3>1, <3>2, <3>3
    <2>3. Good(g, k + 1)
        <3> DEFINE h == [i \in 0..(k + 1) |-> IF i = 0 THEN 0 ELSE g[i - 1] + s[i]]
        <3>1. \A i \in 0..(k + 1) : g[i] = h[i]
            BY <2>2
        <3> HIDE DEF h
        <3>2. QED
            BY <3>1 DEF h
    <2>4. k + 1 \in Nat
        OBVIOUS
    <2>5. QED
        BY <2>3, <2>4
<1> HIDE DEF Good, S
<1>3. \A k \in Nat : k \in S => k + 1 \in S
    BY <1>2
<1>4. Nat \subseteq S
    BY <1>1, <1>3, NatSetInduction
<1>5. \E f : Good(f, n)
    BY <1>4 DEF S
<1>6. QED
    BY <1>5 DEF Good

(* A prefix's sum is the one before it and the next element.               *)
LEMMA SumsStep ==
    ASSUME NEW s, Len(s) \in Nat
    PROVE  /\ DOMAIN Sums(s) = 0..Len(s)
           /\ Sums(s)[0] = 0
           /\ \A i \in 1..Len(s) : Sums(s)[i] = Sums(s)[i - 1] + s[i]
<1> DEFINE Good(f) == f = [i \in 0..Len(s) |-> IF i = 0 THEN 0 ELSE f[i - 1] + s[i]]
<1>1. \E f : Good(f)
    BY SumsExist
<1>2. Sums(s) = CHOOSE f : Good(f)
    BY DEF Sums
<1>3. Good(Sums(s))
    BY <1>1, <1>2
<1>4. QED
    BY <1>3

(* Sums of natural numbers are natural numbers.                            *)
LEMMA SumsNat ==
    ASSUME NEW s, Len(s) \in Nat, \A i \in 1..Len(s) : s[i] \in Nat
    PROVE  /\ \A i \in 0..Len(s) : Sums(s)[i] \in Nat
           /\ SumOf(s) \in Nat
<1> DEFINE S == {k \in Nat : k <= Len(s) => Sums(s)[k] \in Nat}
<1>1. 0 \in S
    BY SumsStep
<1>2. ASSUME NEW k \in Nat, k \in S PROVE k + 1 \in S
    <2>1. CASE k + 1 <= Len(s)
        <3>1. k + 1 \in 1..Len(s) /\ (k + 1) - 1 = k
            BY <2>1
        <3>2. Sums(s)[k] \in Nat
            BY <1>2, <2>1
        <3>3. Sums(s)[k + 1] = Sums(s)[k] + s[k + 1]
            BY <3>1, SumsStep
        <3>4. QED
            BY <3>1, <3>2, <3>3
    <2>2. QED
        BY <2>1
<1> HIDE DEF S
<1>3. Nat \subseteq S
    BY <1>1, <1>2, NatSetInduction
<1>4. \A i \in 0..Len(s) : Sums(s)[i] \in Nat
    BY <1>3 DEF S
<1>5. QED
    BY <1>4 DEF SumOf

(* Sums of integers are integers.                                          *)
LEMMA SumsInt ==
    ASSUME NEW s, Len(s) \in Nat, \A i \in 1..Len(s) : s[i] \in Int
    PROVE  SumOf(s) \in Int
<1> DEFINE S == {k \in Nat : k <= Len(s) => Sums(s)[k] \in Int}
<1>1. 0 \in S
    BY SumsStep
<1>2. ASSUME NEW k \in Nat, k \in S PROVE k + 1 \in S
    <2>1. CASE k + 1 <= Len(s)
        <3>1. k + 1 \in 1..Len(s) /\ (k + 1) - 1 = k
            BY <2>1
        <3>2. Sums(s)[k] \in Int
            BY <1>2, <2>1
        <3>3. Sums(s)[k + 1] = Sums(s)[k] + s[k + 1]
            BY <3>1, SumsStep
        <3>4. QED
            BY <3>1, <3>2, <3>3
    <2>2. QED
        BY <2>1
<1> HIDE DEF S
<1>3. Nat \subseteq S
    BY <1>1, <1>2, NatSetInduction
<1>4. QED
    BY <1>3 DEF SumOf, S

-----------------------------------------------------------------------------
(* Extremes of finite sets.                                                *)
LEMMA MaxOfFinite ==
    ASSUME NEW S, IsFiniteSet(S), S \subseteq Int, S # {}
    PROVE  /\ Max(S) \in S
           /\ \A x \in S : x <= Max(S)
<1> DEFINE n == Cardinality(S)
<1>1. n \in Nat /\ ExistsBijection(1..n, S)
    BY FS_CardinalityType
<1>2. PICK f : f \in Bijection(1..n, S)
    BY <1>1 DEF ExistsBijection
<1>3. /\ \A i \in 1..n : f[i] \in S /\ f[i] \in Int
      /\ \A x \in S : x \in Int /\ \E i \in 1..n : f[i] = x
    <2>1. f \in [1..n -> S] /\ \A x \in S : \E i \in 1..n : f[i] = x
        BY <1>2 DEF Bijection, Injection, Surjection
    <2>2. \A x \in S : x \in Int
        OBVIOUS
    <2>3. QED
        BY <2>1, <2>2
<1> HIDE DEF n
<1> DEFINE G == {k \in Nat : k = 0 \/ k > n \/ \E x \in S : \A i \in 1..k : f[i] <= x}
<1>4. 0 \in G
    OBVIOUS
<1>5. ASSUME NEW k \in Nat, k \in G PROVE k + 1 \in G
    <2>1. CASE k + 1 > n
        BY <2>1
    <2>2. CASE k + 1 <= n /\ k = 0
        <3>1. f[1] \in S /\ f[1] \in Int
            BY <1>1, <1>3, <2>2
        <3>2. \A i \in 1..(k + 1) : f[i] <= f[1]
            BY <2>2, <3>1
        <3>3. QED
            BY <3>1, <3>2
    <2>3. CASE k + 1 <= n /\ k # 0
        <3>1. PICK x \in S : \A i \in 1..k : f[i] <= x
            BY <1>1, <1>5, <2>3
        <3>2. f[k + 1] \in S /\ f[k + 1] \in Int /\ x \in Int
            BY <1>1, <1>3, <2>3
        <3>3. \A i \in 1..k : f[i] \in Int
            BY <1>1, <1>3, <2>3
        <3>4. CASE f[k + 1] <= x
            <4>1. \A i \in 1..(k + 1) : f[i] <= x
                <5>1. \A i \in 1..(k + 1) : i \in 1..k \/ i = k + 1
                    OBVIOUS
                <5>2. QED
                    BY <3>1, <3>4, <5>1
            <4>2. QED
                BY <4>1
        <3>5. CASE x < f[k + 1]
            <4>1. \A i \in 1..(k + 1) : f[i] <= f[k + 1]
                <5>1. \A i \in 1..(k + 1) : i \in 1..k \/ i = k + 1
                    OBVIOUS
                <5>2. QED
                    BY <3>1, <3>2, <3>3, <3>5, <5>1
            <4>2. QED
                BY <3>2, <4>1
        <3>6. QED
            BY <3>2, <3>4, <3>5
    <2>4. QED
        BY <1>1, <2>1, <2>2, <2>3
<1>6. Nat \subseteq G
    <2> HIDE DEF G
    <2>1. QED
        BY <1>4, <1>5, NatSetInduction
<1>7. n # 0
    <2>1. PICK x \in S : TRUE
        OBVIOUS
    <2>2. PICK i \in 1..n : f[i] = x
        BY <1>3
    <2>3. QED
        BY <1>1, <2>2
<1>8. \E x \in S : \A y \in S : x >= y
    <2>1. PICK x \in S : \A i \in 1..n : f[i] <= x
        BY <1>1, <1>6, <1>7
    <2>2. \A y \in S : y <= x
        BY <1>3, <2>1
    <2>3. QED
        BY <2>2
<1>9. QED
    BY <1>8 DEF Max

(* A set of numbers that is not empty has a least one.                     *)
LEMMA LeastOf ==
    ASSUME NEW S, S \subseteq Nat, S # {}
    PROVE  /\ Least(S) \in S
           /\ \A x \in S : Least(S) <= x
<1>1. PICK x \in S : \A y \in S : ~ (<<y, x>> \in OpToRel(<, Nat))
    <2>1. IsWellFoundedOn(OpToRel(<, Nat), Nat)
        BY NatLessThanWellFounded
    <2>2. QED
        BY <2>1, WFMin
<1>2. ASSUME NEW y \in S PROVE x <= y
    <2>1. x \in Nat /\ y \in Nat
        OBVIOUS
    <2>2. ~ (y < x)
        BY <1>1, <2>1 DEF OpToRel
    <2>3. QED
        BY <2>1, <2>2
<1>3. QED
    BY <1>2 DEF Least

-----------------------------------------------------------------------------
(* The members of a set of indices, in order.                              *)
LEMMA InOrderMembers ==
    ASSUME NEW S, NEW n \in Nat, S \subseteq 1..n
    PROVE  /\ Cardinality(S) \in Nat
           /\ \A k \in 1..Cardinality(S) : InOrder(S)[k] \in S
<1> DEFINE c == Cardinality(S)
           Up(i) == {j \in S : j <= i}
           r == [i \in S |-> Cardinality(Up(i))]
<1>1. IsFiniteSet(S) /\ c \in Nat
    <2>1. IsFiniteSet(1..n)
        BY FS_Interval
    <2>2. IsFiniteSet(S)
        BY <2>1, FS_Subset
    <2>3. QED
        BY <2>2, FS_CardinalityType
<1>2. ASSUME NEW i \in S PROVE IsFiniteSet(Up(i)) /\ Cardinality(Up(i)) \in 1..c
    <2>1. IsFiniteSet(Up(i)) /\ Cardinality(Up(i)) <= c /\ Cardinality(Up(i)) \in Nat
        <3>1. Up(i) \in SUBSET S
            OBVIOUS
        <3> HIDE DEF Up, c
        <3>2. QED
            BY <1>1, <3>1, FS_Subset, FS_CardinalityType DEF c
    <2>2. i \in Up(i)
        OBVIOUS
    <2> HIDE DEF Up, c
    <2>3. Cardinality(Up(i)) # 0
        BY <2>1, <2>2, FS_EmptySet
    <2>4. QED
        BY <1>1, <2>1, <2>3
<1>3. ASSUME NEW i \in S, NEW j \in S, i < j PROVE r[i] # r[j]
    <2>1. Up(i) \in SUBSET Up(j) /\ j \in Up(j) /\ j \notin Up(i)
        <3>1. \A x \in S : x \in Int
            OBVIOUS
        <3>2. \A x \in S : x <= i => x <= j
            BY <1>3, <3>1
        <3>3. j <= j /\ ~ (j <= i)
            BY <1>3, <3>1
        <3>4. QED
            BY <3>2, <3>3
    <2>2. IsFiniteSet(Up(j))
        BY <1>2
    <2> HIDE DEF Up
    <2>3. Cardinality(Up(i)) # Cardinality(Up(j))
        BY <2>1, <2>2, FS_Subset
    <2>4. QED
        BY <2>3
<1>4. r \in Injection(S, 1..c)
    <2>1. r \in [S -> 1..c]
        BY <1>2
    <2>2. \A i, j \in S : r[i] = r[j] => i = j
        <3>1. \A i, j \in S : i = j \/ i < j \/ j < i
            OBVIOUS
        <3> HIDE DEF r
        <3>2. QED
            BY <1>3, <3>1
    <2> HIDE DEF r
    <2>3. QED
        BY <2>1, <2>2 DEF Injection, IsInjective
<1>5. r \in Surjection(S, 1..c)
    <2>1. IsFiniteSet(1..c) /\ Cardinality(1..c) = c
        BY <1>1, FS_Interval
    <2> HIDE DEF r
    <2>2. QED
        BY <1>4, <2>1, FS_Injection
<1>6. ASSUME NEW k \in 1..c PROVE InOrder(S)[k] \in S
    <2>1. \E i \in S : r[i] = k
        BY <1>5 DEF Surjection
    <2>2. \E i \in S : Cardinality({j \in S : j <= i}) = k
        BY <2>1
    <2>3. InOrder(S)[k] = CHOOSE i \in S : Cardinality({j \in S : j <= i}) = k
        BY DEF InOrder
    <2>4. QED
        BY <2>2, <2>3
<1>7. QED
    BY <1>1, <1>6

(* The members of an interval, in order, are the interval.                 *)
LEMMA InOrderAll ==
    ASSUME NEW n \in Nat
    PROVE  InOrder(1..n) = [k \in 1..n |-> k]
<1>1. Cardinality(1..n) = n
    BY FS_Interval
<1>2. ASSUME NEW k \in 1..n
      PROVE  (CHOOSE i \in 1..n : Cardinality({j \in 1..n : j <= i}) = k) = k
    <2>1. ASSUME NEW i \in 1..n PROVE Cardinality({j \in 1..n : j <= i}) = i
        <3>1. {j \in 1..n : j <= i} = 1..i
            OBVIOUS
        <3>2. Cardinality(1..i) = i
            BY FS_Interval
        <3>3. QED
            BY <3>1, <3>2
    <2>2. QED
        BY <2>1
<1>3. QED
    BY <1>1, <1>2 DEF InOrder

(* A plan's items, found by their index.                                   *)
LEMMA ItemAtFound ==
    ASSUME NEW items, NEW index, DOMAIN items \subseteq Nat, HasItem(items, index)
    PROVE  \E i \in DOMAIN items : ItemAt(items, index) = items[i] /\ items[i].index = index
<1> DEFINE S == {i \in DOMAIN items : items[i].index = index}
<1>1. S # {} /\ S \subseteq Nat
    BY DEF HasItem
<1>2. Least(S) \in S
    BY <1>1, LeastOf
<1>3. QED
    BY <1>2 DEF ItemAt

-----------------------------------------------------------------------------
(* Worker specs and shards.                                                *)

SpecsTyped(ws) ==
    /\ Len(ws) \in Nat /\ DOMAIN ws = 1..Len(ws)
    /\ \A i \in 1..Len(ws) : ws[i].start \in Nat /\ ws[i].lanes \in Nat

Contiguous(ws) ==
    \A i \in 1..Len(ws) :
        ws[i].start = IF i = 1 THEN 0 ELSE ws[i - 1].start + ws[i - 1].lanes

LanesIn(ws) == [i \in DOMAIN ws |-> ws[i].lanes]

(* A sequence built on an interval has its length.                         *)
LEMMA LengthOf ==
    ASSUME NEW n \in Nat, NEW s, s = [i \in 1..n |-> s[i]]
    PROVE  Len(s) = n /\ DOMAIN s = 1..n
OBVIOUS

(* Lanes are as many as their specs.                                       *)
LEMMA LanesInLength ==
    ASSUME NEW ws, SpecsTyped(ws)
    PROVE  /\ Len(LanesIn(ws)) = Len(ws)
           /\ \A i \in 1..Len(ws) : LanesIn(ws)[i] = ws[i].lanes /\ LanesIn(ws)[i] \in Nat
<1>1. LanesIn(ws) = [i \in 1..Len(ws) |-> LanesIn(ws)[i]]
    BY DEF LanesIn, SpecsTyped
<1>2. Len(LanesIn(ws)) = Len(ws)
    BY <1>1, LengthOf DEF SpecsTyped
<1>3. QED
    BY <1>2 DEF LanesIn, SpecsTyped

(* Contiguous specs start at the running sums of their lanes.              *)
LEMMA ContiguousSums ==
    ASSUME NEW ws, SpecsTyped(ws), Contiguous(ws)
    PROVE  \A i \in 1..Len(ws) :
               /\ ws[i].start = Sums(LanesIn(ws))[i - 1]
               /\ ws[i].start + ws[i].lanes = Sums(LanesIn(ws))[i]
<1> DEFINE s == LanesIn(ws)
           n == Len(ws)
           S == {k \in Nat : k \in 1..n => /\ ws[k].start = Sums(s)[k - 1]
                                           /\ ws[k].start + ws[k].lanes = Sums(s)[k]}
<1>1. /\ n \in Nat /\ Len(s) = n
      /\ \A i \in 1..n : s[i] = ws[i].lanes /\ s[i] \in Nat
    BY LanesInLength DEF SpecsTyped
<1>2. /\ Sums(s)[0] = 0
      /\ \A i \in 1..n : Sums(s)[i] = Sums(s)[i - 1] + s[i]
    <2> HIDE DEF s
    <2>1. QED
        BY <1>1, SumsStep
<1>3. \A i \in 1..n : ws[i].start = IF i = 1 THEN 0 ELSE ws[i - 1].start + ws[i - 1].lanes
    BY DEF Contiguous
<1> HIDE DEF s, n
<1>4. 0 \in S
    OBVIOUS
<1>5. ASSUME NEW k \in Nat, k \in S PROVE k + 1 \in S
    <2>1. CASE k + 1 > n
        BY <1>1, <2>1
    <2>2. CASE k = 0 /\ n >= 1
        <3>1. ws[1].start = 0 /\ 1 \in 1..n
            BY <1>1, <1>3, <2>2
        <3>2. Sums(s)[1] = Sums(s)[0] + s[1] /\ s[1] = ws[1].lanes
            BY <1>1, <1>2, <3>1
        <3>3. QED
            BY <1>2, <2>2, <3>1, <3>2
    <2>3. CASE k \in 1..n /\ k + 1 \in 1..n
        <3>1. ws[k + 1].start = ws[k].start + ws[k].lanes
            BY <1>3, <2>3
        <3>2. ws[k].start + ws[k].lanes = Sums(s)[k]
            BY <1>5, <2>3
        <3>3. Sums(s)[k + 1] = Sums(s)[k] + s[k + 1] /\ s[k + 1] = ws[k + 1].lanes
            BY <1>1, <1>2, <2>3
        <3>4. QED
            BY <2>3, <3>1, <3>2, <3>3
    <2>4. QED
        BY <1>1, <2>1, <2>2, <2>3
<1>6. Nat \subseteq S
    <2> HIDE DEF S
    <2>1. QED
        BY <1>4, <1>5, NatSetInduction
<1>7. QED
    BY <1>1, <1>6 DEF s, n

(* Prefix sums of natural numbers never decrease.                          *)
LEMMA SumsMonotone ==
    ASSUME NEW s, Len(s) \in Nat, \A i \in 1..Len(s) : s[i] \in Nat,
           NEW i \in 0..Len(s), NEW j \in 0..Len(s), i <= j
    PROVE  Sums(s)[i] <= Sums(s)[j]
<1> DEFINE S == {k \in Nat : i + k <= Len(s) => Sums(s)[i] <= Sums(s)[i + k]}
<1>1. \A k \in 0..Len(s) : Sums(s)[k] \in Nat
    BY SumsNat
<1>2. 0 \in S
    BY <1>1
<1>3. ASSUME NEW k \in Nat, k \in S PROVE k + 1 \in S
    <2>1. CASE i + (k + 1) <= Len(s)
        <3>1. i + (k + 1) \in 1..Len(s) /\ i + (k + 1) - 1 = i + k /\ i + k \in 0..Len(s)
            BY <2>1
        <3>2. Sums(s)[i + (k + 1)] = Sums(s)[i + k] + s[i + (k + 1)]
            BY <3>1, SumsStep
        <3>3. /\ Sums(s)[i] \in Nat /\ Sums(s)[i + k] \in Nat /\ s[i + (k + 1)] \in Nat
            BY <1>1, <3>1
        <3>4. Sums(s)[i] <= Sums(s)[i + k]
            BY <1>3, <2>1
        <3>5. QED
            BY <3>2, <3>3, <3>4
    <2>2. QED
        BY <2>1
<1>4. Nat \subseteq S
    <2> HIDE DEF S
    <2>1. QED
        BY <1>2, <1>3, NatSetInduction
<1>5. j - i \in Nat /\ i + (j - i) = j
    OBVIOUS
<1>6. i + (j - i) <= Len(s) => Sums(s)[i] <= Sums(s)[i + (j - i)]
    <2>1. j - i \in S
        BY <1>4, <1>5
    <2>2. QED
        BY <2>1
<1>7. QED
    BY <1>5, <1>6

(* Contiguous specs come one after the other, so a lane has one owner.     *)
LEMMA ContiguousApart ==
    ASSUME NEW ws, SpecsTyped(ws), Contiguous(ws),
           NEW i \in 1..Len(ws), NEW j \in 1..Len(ws), i < j
    PROVE  ws[i].start + ws[i].lanes <= ws[j].start
<1>1. Len(ws) \in Nat /\ Len(LanesIn(ws)) = Len(ws)
      /\ \A k \in 1..Len(LanesIn(ws)) : LanesIn(ws)[k] \in Nat
    BY LanesInLength DEF SpecsTyped
<1>2. i \in 0..Len(ws) /\ j - 1 \in 0..Len(ws) /\ i <= j - 1
    BY <1>1
<1>3. Sums(LanesIn(ws))[i] <= Sums(LanesIn(ws))[j - 1]
    BY <1>1, <1>2, SumsMonotone
<1>4. QED
    BY <1>3, ContiguousSums

(* Contiguous specs share no lane.                                         *)
LEMMA OneOwner ==
    ASSUME NEW ws, SpecsTyped(ws), Contiguous(ws), NEW lane \in Nat,
           NEW i \in 1..Len(ws), Covers(ws[i], lane)
    PROVE  /\ \A j \in 1..Len(ws) : Covers(ws[j], lane) => j = i
           /\ worker_for_lane(ws, lane) = ws[i]
<1>1. ASSUME NEW j \in 1..Len(ws), Covers(ws[j], lane) PROVE j = i
    <2>1. /\ ws[i].start \in Nat /\ ws[i].lanes \in Nat
          /\ ws[j].start \in Nat /\ ws[j].lanes \in Nat
        BY DEF SpecsTyped
    <2>2. i \in Int /\ j \in Int
        BY DEF SpecsTyped
    <2>3. CASE i < j
        BY <1>1, <2>1, <2>3, ContiguousApart DEF Covers
    <2>4. CASE j < i
        BY <1>1, <2>1, <2>4, ContiguousApart DEF Covers
    <2>5. QED
        BY <2>2, <2>3, <2>4
<1> DEFINE S == {j \in DOMAIN ws : Covers(ws[j], lane)}
<1>2. S \subseteq Nat /\ S # {}
    BY DEF SpecsTyped
<1>3. Least(S) \in S
    BY <1>2, LeastOf
<1>4. Least(S) = i
    BY <1>1, <1>3 DEF SpecsTyped
<1>5. QED
    BY <1>1, <1>4 DEF worker_for_lane

(* The image of a finite domain is finite.                                 *)
LEMMA ImageFinite ==
    ASSUME NEW f, IsFiniteSet(DOMAIN f), f = [x \in DOMAIN f |-> f[x]]
    PROVE  IsFiniteSet({f[x] : x \in DOMAIN f})
<1> DEFINE T == {f[x] : x \in DOMAIN f}
<1>1. f \in [DOMAIN f -> T] /\ \A y \in T : \E x \in DOMAIN f : f[x] = y
    OBVIOUS
<1>2. f \in Surjection(DOMAIN f, T)
    <2> HIDE DEF T
    <2>1. QED
        BY <1>1 DEF Surjection
<1>3. QED
    BY <1>2, FS_Surjection

(* The lanes of contiguous specs end where the last of them ends.          *)
LEMMA ContiguousTotal ==
    ASSUME NEW ws, SpecsTyped(ws), Contiguous(ws), ws # <<>>
    PROVE  /\ TotalLanes(ws) = LanesOf(ws)
           /\ TotalLanes(ws) \in Nat
<1> DEFINE n == Len(ws)
           s == LanesIn(ws)
           ends == [i \in 1..n |-> ws[i].start + ws[i].lanes]
           T == {ends[i] : i \in DOMAIN ends}
<1>1. n \in Nat /\ Len(s) = n /\ \A i \in 1..n : s[i] \in Nat
    BY LanesInLength DEF SpecsTyped
<1>2. n >= 1
    BY <1>1 DEF SpecsTyped
<1>3. \A i \in 1..n : ends[i] = Sums(s)[i] /\ ends[i] \in Nat
    BY ContiguousSums DEF SpecsTyped
<1>4. \A i \in 1..n : ends[i] <= ends[n]
    <2>1. ASSUME NEW i \in 1..n PROVE Sums(s)[i] <= Sums(s)[n]
        <3>1. i \in 0..n /\ n \in 0..n /\ i <= n
            BY <1>1
        <3> HIDE DEF s, n
        <3>2. QED
            BY <1>1, <3>1, SumsMonotone
    <2>2. n \in 1..n
        BY <1>1, <1>2
    <2>3. QED
        BY <1>3, <2>1, <2>2
<1>5. T # {} /\ (\A x \in T : x \in Nat) /\ IsFiniteSet(T)
    <2>1. n \in DOMAIN ends
        BY <1>1, <1>2
    <2>2. IsFiniteSet(DOMAIN ends)
        BY <1>1, FS_Interval
    <2>3. ends = [x \in DOMAIN ends |-> ends[x]]
        OBVIOUS
    <2> HIDE DEF ends
    <2>4. IsFiniteSet(T)
        BY <2>2, <2>3, ImageFinite
    <2>5. QED
        BY <1>3, <2>1, <2>4 DEF ends
<1>6. Max(T) \in T /\ \A x \in T : x <= Max(T)
    <2>1. T \subseteq Int
        BY <1>5
    <2> HIDE DEF T
    <2>2. QED
        BY <1>5, <2>1, MaxOfFinite
<1>7. Max(T) = ends[n]
    <2>1. ends[n] \in T /\ ends[n] \in Nat
        BY <1>1, <1>2, <1>3
    <2>2. PICK i \in 1..n : Max(T) = ends[i]
        BY <1>6
    <2>3. ends[i] <= ends[n] /\ ends[n] <= ends[i] /\ ends[i] \in Nat
        BY <1>3, <1>4, <1>6, <2>1, <2>2
    <2>4. QED
        BY <2>1, <2>2, <2>3
<1>8. T = {ws[i].start + ws[i].lanes : i \in DOMAIN ws}
    BY DEF SpecsTyped
<1>9. TotalLanes(ws) = Max(T)
    BY <1>8 DEF TotalLanes
<1>10. LanesOf(ws) = Sums(s)[n]
    BY <1>1 DEF LanesOf, SumOf, LanesIn
<1>11. QED
    BY <1>1, <1>2, <1>3, <1>7, <1>9, <1>10

-----------------------------------------------------------------------------
(* Sequences of items whose indices count from zero.                       *)

Numbered(items, n) ==
    /\ n \in Nat /\ DOMAIN items = 1..n /\ Len(items) = n
    /\ \A i \in 1..n : items[i].index = i - 1

(* The item of an index is where its number says.                          *)
LEMMA NumberedItemAt ==
    ASSUME NEW items, NEW n, Numbered(items, n), NEW i \in 1..n
    PROVE  HasItem(items, i - 1) /\ ItemAt(items, i - 1) = items[i]
<1>1. HasItem(items, i - 1)
    BY DEF HasItem, Numbered
<1>2. PICK j \in DOMAIN items : ItemAt(items, i - 1) = items[j] /\ items[j].index = i - 1
    BY <1>1, ItemAtFound, SMTT(45) DEF Numbered
<1>3. j - 1 = i - 1 /\ j \in Int /\ i \in Int
    BY <1>2 DEF Numbered
<1>4. QED
    BY <1>1, <1>2, <1>3

(* Two numberings that look each other up are equally long.                *)
LEMMA NumberedMatch ==
    ASSUME NEW xs, NEW n, Numbered(xs, n), NEW ys, NEW k, Numbered(ys, k),
           \A i \in 1..n : HasItem(ys, xs[i].index),
           \A i \in 1..k : HasItem(xs, ys[i].index)
    PROVE  n = k
<1>1. n \in Nat /\ k \in Nat
    BY DEF Numbered
<1>2. CASE n > k
    <2>1. n \in 1..n /\ xs[n].index = n - 1
        BY <1>1, <1>2 DEF Numbered
    <2>2. PICK j \in 1..k : ys[j].index = n - 1
        BY <2>1 DEF HasItem, Numbered
    <2>3. QED
        BY <1>1, <1>2, <2>2 DEF Numbered
<1>3. CASE k > n
    <2>1. k \in 1..k /\ ys[k].index = k - 1
        BY <1>1, <1>3 DEF Numbered
    <2>2. PICK j \in 1..n : xs[j].index = k - 1
        BY <2>1 DEF HasItem, Numbered
    <2>3. QED
        BY <1>1, <1>3, <2>2 DEF Numbered
<1>4. QED
    BY <1>1, <1>2, <1>3

(* No item is counted when none passes the test.                           *)
LEMMA CountedNone ==
    ASSUME NEW n \in Nat, NEW S, S \subseteq 1..n, Cardinality(S) = 0
    PROVE  S = {}
<1>1. IsFiniteSet(1..n)
    BY FS_Interval
<1>2. IsFiniteSet(S)
    BY <1>1, FS_Subset
<1>3. QED
    BY <1>2, FS_EmptySet

-----------------------------------------------------------------------------
(* The GEMM policy.                                                        *)

(* What policy_gemm_item decides, case by case.                            *)
LEMMA GemmItem ==
    ASSUME NEW mode \in Modes, NEW fallback \in Fallbacks, NEW index, NEW lane,
           NEW sur, NEW exact
    PROVE  LET it == policy_gemm_item(mode, fallback, index, lane, sur, exact)
           IN  /\ it.index = index /\ it.lane = lane /\ it.sur = sur
               /\ it.decision \in Decisions
               /\ it.ok = (it.decision # "FailClosed")
               /\ (it.decision = "SurrogateUsed") =
                      (mode = "ApproximateWithTolerance" /\ Passed(sur))
               /\ it.decision = "ShadowCompare" => mode = "ShadowCompare"
               /\ it.decision \in {"ExactFallback", "ShadowCompare"} =>
                      it.exact = exact /\ exact # Nothing
<1>1. CASE mode = "ApproximateWithTolerance"
    BY <1>1 DEF policy_gemm_item, fallback_policy_item, PolicyItem, Decisions, Fallbacks
<1>2. CASE mode = "ShadowCompare"
    BY <1>2 DEF policy_gemm_item, fallback_policy_item, PolicyItem, Decisions, Fallbacks
<1>3. CASE mode = "TelemetryOnly"
    BY <1>3 DEF policy_gemm_item, fallback_policy_item, PolicyItem, Decisions, Fallbacks
<1>4. QED
    BY <1>1, <1>2, <1>3 DEF Modes

GemmItemOf(man, batch, i, it) ==
    /\ it.index = i - 1 /\ it.lane = LaneOf(batch.txs[i], i - 1) /\ it.lane \in Nat
    /\ it.sur = Surrogate(man, batch, i)
    /\ it.decision \in Decisions
    /\ it.ok = (it.decision # "FailClosed")
    /\ (it.decision = "SurrogateUsed") =
           (man.mode = "ApproximateWithTolerance" /\ Passed(it.sur))
    /\ it.decision = "ShadowCompare" => man.mode = "ShadowCompare"
    /\ it.decision \in {"ExactFallback", "ShadowCompare"} =>
           it.exact = exact_gemm_result(man, batch.txs[i]) /\ it.exact # Nothing

(* A batch is a sequence of transactions.                                  *)
LEMMA BatchTyped ==
    ASSUME NEW batch \in Batches
    PROVE  /\ Len(batch.txs) \in Nat /\ DOMAIN batch.txs = 1..Len(batch.txs)
           /\ \A i \in 1..Len(batch.txs) : batch.txs[i] \in Transaction
BY GemmTypes

(* A policy report has an item for every transaction.                      *)
LEMMA GemmPolicy ==
    ASSUME NEW man \in GemmManifests, NEW batch \in Batches
    PROVE  LET pol == policy_gemm_batch(man, batch)
               n   == Len(batch.txs)
           IN  /\ Numbered(pol.results, n)
               /\ pol.count = n
               /\ pol.closed = Cardinality({i \in 1..n : pol.results[i].decision = "FailClosed"})
               /\ \A i \in 1..n : GemmItemOf(man, batch, i, pol.results[i])
<1> DEFINE pol == policy_gemm_batch(man, batch)
           n   == Len(batch.txs)
           item(i) == policy_gemm_item(man.mode, man.fallback, i - 1,
                                       LaneOf(batch.txs[i], i - 1),
                                       Surrogate(man, batch, i),
                                       exact_gemm_result(man, batch.txs[i]))
           res == [i \in 1..n |-> item(i)]
<1>1. n \in Nat /\ DOMAIN batch.txs = 1..n
    BY BatchTyped
<1>2. pol = GemmPolicyReport(res)
    BY <1>1 DEF policy_gemm_batch
<1>3. DOMAIN res = 1..n /\ Len(res) = n
    BY <1>1
<1>4. /\ pol.results = res
      /\ pol.count = n
      /\ pol.closed = Cardinality({i \in 1..n : res[i].decision = "FailClosed"})
    <2> HIDE DEF res
    <2>1. QED
        BY <1>2, <1>3 DEF GemmPolicyReport, CountSeq
<1>5. ASSUME NEW i \in 1..n PROVE GemmItemOf(man, batch, i, res[i])
    <2>1. man.mode \in Modes /\ man.fallback \in Fallbacks
        BY GemmTypes
    <2>2. LaneOf(batch.txs[i], i - 1) \in Nat
        <3>1. batch.txs[i].lane \in Nat \cup {Nothing}
            BY BatchTyped DEF Transaction
        <3>2. i - 1 \in Nat
            BY <1>1
        <3>3. QED
            BY <3>1, <3>2 DEF LaneOf
    <2>3. res[i] = item(i)
        OBVIOUS
    <2>4. QED
        BY <2>1, <2>2, <2>3, GemmItem DEF GemmItemOf
<1>6. Numbered(res, n)
    <2>1. \A i \in 1..n : res[i].index = i - 1
        BY <1>5 DEF GemmItemOf
    <2> HIDE DEF res
    <2>2. QED
        BY <1>1, <1>3, <2>1 DEF Numbered
<1>7. QED
    BY <1>4, <1>5, <1>6

(* What a GEMM result is not Nothing for.                                  *)
LEMMA ExactProvenance ==
    ASSUME NEW man, NEW tx, exact_gemm_result(man, tx) # Nothing
    PROVE  exact_gemm_result(man, tx).prov.exact = TRUE
BY DEF exact_gemm_result, Provenance

(* A surrogate result is marked approximate, with its manifest.            *)
LEMMA SurrogateProvenance ==
    ASSUME NEW man, NEW batch, NEW i, Surrogate(man, batch, i) # Nothing
    PROVE  Surrogate(man, batch, i).prov.exact = FALSE
BY DEF Surrogate, run_gemm_transaction, Provenance

-----------------------------------------------------------------------------
(* The GEMM plan.                                                          *)

(* What plan_runtime_gemm_for_workers makes of numbered items.             *)
LEMMA GemmPlan ==
    ASSUME NEW pol, NEW workers, NEW n, Numbered(pol.results, n)
    PROVE  LET p == plan_runtime_gemm_for_workers(pol, workers)
           IN  /\ p.schema = "gemm" /\ p.total = TotalLanes(workers)
               /\ p.workers = PlanSummaries(workers, p.items)
               /\ \A k \in DOMAIN p.items : \E i \in 1..n :
                      /\ Plannable(pol.results[i], workers)
                      /\ p.items[k] = runtime_plan_item(pol.results[i], workers)
               /\ p.ok =>
                      /\ n # 0 /\ pol.closed = 0
                      /\ workers # <<>> /\ validate_runtime_worker_specs(workers)
                      /\ \A i \in 1..n : Plannable(pol.results[i], workers)
                      /\ p.items = [k \in 1..n |-> runtime_plan_item(pol.results[k], workers)]
                      /\ Numbered(p.items, n)
<1> DEFINE p == plan_runtime_gemm_for_workers(pol, workers)
           S == {i \in DOMAIN pol.results : Plannable(pol.results[i], workers)}
           kept == InOrder(S)
           items == [k \in DOMAIN kept |-> runtime_plan_item(pol.results[kept[k]], workers)]
<1>1. n \in Nat /\ DOMAIN pol.results = 1..n /\ S \subseteq 1..n
    BY DEF Numbered
<1>2. /\ p.schema = "gemm" /\ p.total = TotalLanes(workers)
      /\ p.items = items /\ p.workers = PlanSummaries(workers, p.items)
      /\ p.ok => /\ pol.results # <<>> /\ pol.closed = 0
                 /\ workers # <<>> /\ validate_runtime_worker_specs(workers)
                 /\ \A i \in 1..n : Plannable(pol.results[i], workers)
    <2> HIDE DEF items
    <2>1. p = [schema  |-> "gemm",
               ok      |-> /\ pol.results # <<>>
                           /\ pol.closed = 0
                           /\ workers # <<>>
                           /\ validate_runtime_worker_specs(workers)
                           /\ \A i \in DOMAIN pol.results : Plannable(pol.results[i], workers),
               total   |-> TotalLanes(workers),
               workers |-> PlanSummaries(workers, items),
               items   |-> items]
        BY DEF plan_runtime_gemm_for_workers, items
    <2> HIDE DEF p
    <2>2. QED
        BY <1>1, <2>1
<1>3. DOMAIN kept = 1..Cardinality(S) /\ DOMAIN items = DOMAIN kept
    BY DEF InOrder
<1>4. ASSUME NEW k \in DOMAIN items
      PROVE  \E i \in 1..n : /\ Plannable(pol.results[i], workers)
                             /\ items[k] = runtime_plan_item(pol.results[i], workers)
    <2>1. kept[k] \in S
        <3> HIDE DEF S, kept
        <3>1. InOrder(S)[k] \in S
            BY <1>1, <1>3, InOrderMembers
        <3>2. QED
            BY <3>1 DEF kept
    <2>2. items[k] = runtime_plan_item(pol.results[kept[k]], workers)
        OBVIOUS
    <2> HIDE DEF items, kept
    <2>3. QED
        BY <1>1, <2>1, <2>2
<1>5. ASSUME p.ok
      PROVE  /\ n # 0
             /\ items = [k \in 1..n |-> runtime_plan_item(pol.results[k], workers)]
             /\ Numbered(items, n)
    <2>1. S = 1..n
        BY <1>1, <1>2, <1>5
    <2>2. kept = [k \in 1..n |-> k]
        BY <1>1, <2>1, InOrderAll
    <2>3. items = [k \in 1..n |-> runtime_plan_item(pol.results[k], workers)]
        BY <2>2
    <2>4. n # 0
        BY <1>1, <1>2, <1>5 DEF Numbered
    <2>5. \A k \in 1..n : items[k].index = k - 1
        BY <2>3 DEF Numbered, runtime_plan_item
    <2>6. DOMAIN items = 1..n /\ Len(items) = n
        BY <1>1, <2>3
    <2> HIDE DEF items
    <2>7. QED
        BY <1>1, <2>3, <2>4, <2>5, <2>6 DEF Numbered
<1>6. QED
    <2> HIDE DEF p, items
    <2>1. QED
        BY <1>2, <1>4, <1>5 DEF p

-----------------------------------------------------------------------------
(* What a surrogate result that passed says of its transaction.            *)

(* A matrix has finitely many cells.                                       *)
LEMMA CellsFinite ==
    ASSUME NEW rows \in Nat, NEW cols \in Nat, NEW c, DOMAIN c = 1..rows,
           \A r \in 1..rows : DOMAIN c[r] = 1..cols
    PROVE  /\ IsFiniteSet(Cells(c))
           /\ \A x \in Cells(c) : x[1] \in 1..rows /\ x[2] \in 1..cols
           /\ \A r \in 1..rows, k \in 1..cols : <<r, k>> \in Cells(c)
<1>1. Cells(c) = (1..rows) \X (1..cols)
    <2>1. ASSUME NEW x \in Cells(c) PROVE x \in (1..rows) \X (1..cols)
        <3>1. PICK r \in 1..rows : x \in {r} \X (DOMAIN c[r])
            BY DEF Cells
        <3>2. QED
            BY <3>1
    <2>2. ASSUME NEW r \in 1..rows, NEW k \in 1..cols PROVE <<r, k>> \in Cells(c)
        <3>1. <<r, k>> \in {r} \X (DOMAIN c[r])
            OBVIOUS
        <3>2. QED
            BY <3>1 DEF Cells
    <2>3. QED
        BY <2>1, <2>2
<1>2. IsFiniteSet(1..rows) /\ IsFiniteSet(1..cols)
    BY FS_Interval
<1>3. IsFiniteSet((1..rows) \X (1..cols))
    BY <1>2, FS_Product
<1>4. QED
    BY <1>1, <1>3

(* The largest error of a set of cells bounds each of them.                *)
LEMMA WorstError ==
    ASSUME NEW S, IsFiniteSet(S), NEW err, DOMAIN err = S, \A x \in S : err[x] \in Int,
           err = [x \in S |-> err[x]]
    PROVE  \A x \in S : err[x] <= Max({0} \cup {err[y] : y \in S})
<1> DEFINE T == {err[y] : y \in DOMAIN err}
           U == {0} \cup T
<1>1. IsFiniteSet(T)
    BY ImageFinite
<1>2. IsFiniteSet(U)
    <2> HIDE DEF T
    <2>1. IsFiniteSet({0})
        BY FS_Singleton
    <2>2. QED
        BY <1>1, <2>1, FS_Union
<1>3. U \subseteq Int /\ U # {}
    OBVIOUS
<1>4. \A x \in U : x <= Max(U)
    <2> HIDE DEF U
    <2>1. QED
        BY <1>2, <1>3, MaxOfFinite
<1>5. U = {0} \cup {err[y] : y \in S}
    OBVIOUS
<1>6. ASSUME NEW x \in S PROVE err[x] <= Max(U)
    <2>1. err[x] \in U
        OBVIOUS
    <2> HIDE DEF U
    <2>2. QED
        BY <1>4, <2>1
<1>7. QED
    BY <1>5, <1>6

(* Metrics within tolerance bound the error of every cell.                 *)
LEMMA ErrorsBounded ==
    ASSUME NEW rows \in Nat, NEW cols \in Nat, NEW c, NEW expected \in Matrix,
           NEW lat, NEW explat, NEW bound \in Int,
           DOMAIN c = 1..rows, \A r \in 1..rows : DOMAIN c[r] = 1..cols,
           \A r \in 1..rows : \A k \in 1..cols : c[r][k] \in Int,
           gemm_metrics(c, expected, lat, explat).max <= bound
    PROVE  \A r \in 1..rows : \A k \in 1..cols :
               Abs(c[r][k] - Expected(expected, r, k)) <= bound
<1> DEFINE err == [x \in Cells(c) |-> Abs(c[x[1]][x[2]] - Expected(expected, x[1], x[2]))]
           top == Max({0} \cup {err[x] : x \in Cells(c)})
<1>1. \A r, k : Expected(expected, r, k) \in Int
    <2>1. \A r \in DOMAIN expected : \A k \in DOMAIN expected[r] : expected[r][k] \in Int
        BY DEF Matrix
    <2>2. QED
        BY <2>1 DEF Expected
<1>2. \A x \in Cells(c) : x[1] \in 1..rows /\ x[2] \in 1..cols
    BY CellsFinite
<1>3. \A x \in Cells(c) : err[x] \in Int
    BY <1>1, <1>2 DEF Abs
<1>4. \A x \in Cells(c) : err[x] <= top
    <2>1. IsFiniteSet(Cells(c))
        BY CellsFinite
    <2>2. DOMAIN err = Cells(c) /\ err = [x \in Cells(c) |-> err[x]]
        OBVIOUS
    <2> HIDE DEF err
    <2>3. QED
        BY <1>3, <2>1, <2>2, WorstError
<1>5. gemm_metrics(c, expected, lat, explat).max = top
    BY DEF gemm_metrics
<1>6. top \in Int
    <2> DEFINE T == {err[x] : x \in DOMAIN err}
               U == {0} \cup T
    <2>1. IsFiniteSet(DOMAIN err) /\ err = [x \in DOMAIN err |-> err[x]]
        BY CellsFinite
    <2>2. IsFiniteSet(T)
        <3> HIDE DEF err
        <3>1. QED
            BY <2>1, ImageFinite
    <2>3. IsFiniteSet(U)
        <3> HIDE DEF T
        <3>1. IsFiniteSet({0})
            BY FS_Singleton
        <3>2. QED
            BY <2>2, <3>1, FS_Union
    <2>4. U \subseteq Int /\ U # {}
        BY <1>3
    <2>5. Max(U) \in U
        <3> HIDE DEF U
        <3>1. QED
            BY <2>3, <2>4, MaxOfFinite
    <2>6. QED
        BY <2>4, <2>5
<1>7. ASSUME NEW r \in 1..rows, NEW k \in 1..cols
      PROVE  Abs(c[r][k] - Expected(expected, r, k)) <= bound
    <2>1. <<r, k>> \in Cells(c)
        BY CellsFinite
    <2>2. err[<<r, k>>] = Abs(c[r][k] - Expected(expected, r, k))
        BY <2>1
    <2>3. err[<<r, k>>] \in Int /\ err[<<r, k>>] <= top
        BY <1>3, <1>4, <2>1
    <2> HIDE DEF err
    <2>4. top <= bound
        BY <1>5
    <2> HIDE DEF top
    <2>5. QED
        BY <1>6, <2>2, <2>3, <2>4
<1>8. QED
    BY <1>7

(* Row by row, the cells of a matrix are those of a vector.                *)
LEMMA CellOfRow ==
    ASSUME NEW rows \in Nat, NEW cols \in Nat, NEW r \in 1..rows, NEW k \in 1..cols
    PROVE  (r - 1) * cols + k \in 1..(rows * cols)
<1>1. (rows - r) * cols \in Nat /\ (r - 1) * cols \in Nat
    OBVIOUS
<1>2. rows * cols = (rows - r) * cols + (r - 1) * cols + cols
    OBVIOUS
<1>3. QED
    BY <1>1, <1>2

(* A product is a matrix of integers.                                      *)
LEMMA GemmOutputTyped ==
    ASSUME NEW man \in GemmManifests, NEW batch \in Batches, NEW i \in 1..Len(batch.txs),
           validate_transaction_domain(man, batch.txs[i]),
           GemmOutput(man, batch.txs[i]) # Nothing
    PROVE  LET tx == batch.txs[i]
               c  == GemmOutput(man, tx).c
           IN  /\ tx.rows \in Nat /\ tx.cols \in Nat
               /\ DOMAIN c = 1..tx.rows /\ \A r \in 1..tx.rows : DOMAIN c[r] = 1..tx.cols
               /\ \A r \in 1..tx.rows : \A k \in 1..tx.cols : c[r][k] \in Int
<1> DEFINE tx == batch.txs[i]
<1>1. /\ tx.rows \in Nat /\ tx.cols \in Nat /\ tx.k \in Nat
      /\ tx.a \in Matrix /\ tx.w \in Matrix
    BY BatchTyped DEF Transaction
<1>2. validate_transaction_shape(tx)
    BY DEF validate_transaction_domain
<1> DEFINE c == GemmOutput(man, tx).c
<1> SUFFICES /\ DOMAIN c = 1..tx.rows /\ \A r \in 1..tx.rows : DOMAIN c[r] = 1..tx.cols
             /\ \A r \in 1..tx.rows : \A k \in 1..tx.cols : c[r][k] \in Int
    BY <1>1
<1> HIDE DEF tx
<1>3. CASE man.format = "MockGemm"
    <2>1. GemmOutput(man, tx).c = mock_gemm(tx)
        BY <1>3 DEF GemmOutput
    <2>2. ASSUME NEW r \in 1..tx.rows, NEW k \in 1..tx.cols
          PROVE  SumOf([j \in 1..tx.k |-> tx.a[r][j] * tx.w[j][k]]) \in Int
        <3> DEFINE s == [j \in 1..tx.k |-> tx.a[r][j] * tx.w[j][k]]
        <3>1. \A j \in 1..tx.k : tx.a[r][j] \in Int /\ tx.w[j][k] \in Int
            <4>1. r \in DOMAIN tx.a /\ DOMAIN tx.w = 1..tx.k
                BY <1>1, <1>2 DEF validate_transaction_shape, Matrix
            <4>2. tx.a[r] \in Seq(Int) /\ Len(tx.a[r]) = tx.k
                BY <1>1, <1>2, <4>1 DEF validate_transaction_shape, Matrix
            <4>3. ASSUME NEW j \in 1..tx.k PROVE tx.a[r][j] \in Int /\ tx.w[j][k] \in Int
                <5>1. tx.w \in Seq(Seq(Int)) /\ Len(tx.w[j]) = tx.cols
                    BY <1>1, <1>2, <4>1 DEF validate_transaction_shape, Matrix
                <5>2. tx.w[j] \in Seq(Int)
                    <6>1. j \in 1..Len(tx.w)
                        BY <1>2 DEF validate_transaction_shape
                    <6>2. QED
                        BY <5>1, <6>1
                <5>3. k \in 1..Len(tx.w[j]) /\ j \in 1..Len(tx.a[r])
                    BY <4>2, <5>1
                <5>4. QED
                    BY <4>2, <5>2, <5>3
            <4>4. QED
                BY <4>3
        <3>2. Len(s) = tx.k /\ \A j \in 1..tx.k : s[j] \in Int
            BY <1>1, <3>1
        <3> HIDE DEF s
        <3>3. QED
            BY <1>1, <3>2, SumsInt DEF s
    <2>3. QED
        <3>1. c = [r \in 1..tx.rows |-> [k \in 1..tx.cols |->
                     SumOf([j \in 1..tx.k |-> tx.a[r][j] * tx.w[j][k]])]]
            BY <2>1, Zenon DEF mock_gemm, c
        <3> HIDE DEF c
        <3>2. DOMAIN c = 1..tx.rows /\ \A r \in 1..tx.rows : DOMAIN c[r] = 1..tx.cols
            BY <3>1
        <3>3. ASSUME NEW r \in 1..tx.rows, NEW k \in 1..tx.cols PROVE c[r][k] \in Int
            <4>1. c[r][k] = SumOf([j \in 1..tx.k |-> tx.a[r][j] * tx.w[j][k]])
                BY <3>1
            <4>2. QED
                BY <2>2, <4>1, Zenon
        <3>4. QED
            BY <3>2, <3>3
<1>4. CASE man.format # "MockGemm"
    <2>1. GemmOutput(man, tx) = run_onnx_gemm(man, tx)
        BY <1>4 DEF GemmOutput
    <2> DEFINE out == OnnxGemm(man.model, tx)
    <2>2. /\ out # Nothing /\ Len(out.values) = tx.rows * tx.cols
          /\ run_onnx_gemm(man, tx).c = [r \in 1..tx.rows |-> [k \in 1..tx.cols |->
                                            out.values[(r - 1) * tx.cols + k]]]
        BY <2>1 DEF run_onnx_gemm, tx
    <2>3. out.values \in Seq(Int)
        BY <2>2, BatchTyped, GemmTypes DEF tx
    <2>4. \A r \in 1..tx.rows : \A k \in 1..tx.cols :
              out.values[(r - 1) * tx.cols + k] \in Int
        <3>1. \A r \in 1..tx.rows : \A k \in 1..tx.cols :
                  (r - 1) * tx.cols + k \in 1..(tx.rows * tx.cols)
            BY <1>1, CellOfRow
        <3>2. \A x \in 1..(tx.rows * tx.cols) : out.values[x] \in Int
            BY <2>2, <2>3
        <3> HIDE DEF out
        <3>3. QED
            BY <3>1, <3>2
    <2>5. QED
        <3>1. c = [r \in 1..tx.rows |-> [k \in 1..tx.cols |->
                     out.values[(r - 1) * tx.cols + k]]]
            BY <2>1, <2>2, Zenon DEF c
        <3> HIDE DEF c, out
        <3>2. QED
            BY <2>4, <3>1
<1>5. QED
    BY <1>3, <1>4

(* A result that passed is of a transaction in the trained domain.         *)
LEMMA PassedWithinDomain ==
    ASSUME NEW man \in GemmManifests, NEW batch \in Batches, NEW i \in 1..Len(batch.txs),
           Passed(Surrogate(man, batch, i))
    PROVE  LET tx  == batch.txs[i]
               sur == Surrogate(man, batch, i)
           IN  /\ man.artifact = "match"
               /\ tx.k \in man.kmin..man.kmax
               /\ tx.expected # Nothing =>
                      \A r \in 1..tx.rows : \A c \in 1..tx.cols :
                          Abs(sur.c[r][c] - Expected(tx.expected, r, c)) <= man.maxErr
<1> DEFINE tx  == batch.txs[i]
           sur == Surrogate(man, batch, i)
           out == GemmOutput(man, tx)
<1>1. sur # Nothing /\ sur.ok /\ sur = run_gemm_transaction(man, tx)
    BY DEF Passed, Surrogate
<1>2. /\ validate_manifest(man) /\ validate_transaction_domain(man, tx) /\ out # Nothing
      /\ sur.c = out.c
      /\ tx.expected # Nothing =>
             MetricsOk(man, gemm_metrics(out.c, tx.expected, out.lat, tx.explat))
    <2> HIDE DEF out, tx, sur
    <2>1. /\ validate_manifest(man) /\ validate_transaction_domain(man, tx) /\ out # Nothing
          /\ sur = [ok   |-> tx.expected # Nothing =>
                                 MetricsOk(man, gemm_metrics(out.c, tx.expected,
                                                             out.lat, tx.explat)),
                    c    |-> out.c,
                    lat  |-> out.lat,
                    prov |-> Provenance(man, FALSE)]
        BY <1>1 DEF run_gemm_transaction, out
    <2>2. /\ sur.c = out.c
          /\ sur.ok = (tx.expected # Nothing =>
                           MetricsOk(man, gemm_metrics(out.c, tx.expected,
                                                       out.lat, tx.explat)))
        BY <2>1
    <2>3. QED
        BY <1>1, <2>1, <2>2, Zenon
<1>3. tx.k \in man.kmin..man.kmax
    <2>1. tx.k \in Nat /\ man.kmin \in Nat /\ man.kmax \in Nat
        BY BatchTyped, GemmTypes DEF Transaction
    <2>2. QED
        BY <1>2, <2>1 DEF validate_transaction_domain
<1>4. ASSUME tx.expected # Nothing
      PROVE  \A r \in 1..tx.rows : \A c \in 1..tx.cols :
                 Abs(sur.c[r][c] - Expected(tx.expected, r, c)) <= man.maxErr
    <2>1. tx.expected \in Matrix /\ man.maxErr \in Int
        BY <1>4, BatchTyped, GemmTypes DEF Transaction
    <2>2. gemm_metrics(out.c, tx.expected, out.lat, tx.explat).max <= man.maxErr
        BY <1>2, <1>4 DEF MetricsOk
    <2>3. /\ tx.rows \in Nat /\ tx.cols \in Nat
          /\ DOMAIN out.c = 1..tx.rows /\ \A r \in 1..tx.rows : DOMAIN out.c[r] = 1..tx.cols
          /\ \A r \in 1..tx.rows : \A k \in 1..tx.cols : out.c[r][k] \in Int
        BY <1>2, GemmOutputTyped
    <2> HIDE DEF out, tx
    <2>4. \A r \in 1..tx.rows : \A c \in 1..tx.cols :
              Abs(out.c[r][c] - Expected(tx.expected, r, c)) <= man.maxErr
        BY <2>1, <2>2, <2>3, ErrorsBounded
    <2>5. QED
        BY <1>2, <2>4
<1>5. man.artifact = "match"
    BY <1>2 DEF validate_manifest
<1>6. QED
    BY <1>3, <1>4, <1>5

-----------------------------------------------------------------------------
(* The FAST run of a GEMM batch.                                           *)

(* A FAST run has an item for every policy item.                           *)
LEMMA FastGemmItems ==
    ASSUME NEW pol, NEW n \in Nat, Numbered(pol.results, n), NEW p, NEW opts
    PROVE  LET fast == FastGemm(pol, p, opts)
           IN  /\ DOMAIN fast.results = 1..n /\ Len(fast.results) = n
               /\ \A i \in 1..n : fast.results[i] = fast_gemm_item(pol.results[i], p, opts)
               /\ fast.totals = Tally(fast.results, DOMAIN fast.results)
               /\ fast.workers = WorkerTallies(p.workers, fast.results)
               /\ fast.lanes = LaneTallies(fast.results)
               /\ fast.ok <=> /\ validate_fast_gemm_plan(pol, p, opts)
                              /\ fast.totals.closed = 0
                              /\ \A i \in 1..n : fast.results[i].result # Nothing
<1> DEFINE res == [i \in DOMAIN pol.results |-> fast_gemm_item(pol.results[i], p, opts)]
           valid == validate_fast_gemm_plan(pol, p, opts)
           fast == FastGemm(pol, p, opts)
<1>1. n \in Nat /\ DOMAIN pol.results = 1..n
    BY DEF Numbered
<1>2. /\ DOMAIN res = 1..n /\ Len(res) = n
      /\ \A i \in 1..n : res[i] = fast_gemm_item(pol.results[i], p, opts)
    BY <1>1
<1>3. fast = FastGemmReport(valid, res, p)
    BY DEF FastGemm
<1> HIDE DEF res, valid, fast
<1>4. fast.results = res /\ fast.totals = Tally(res, DOMAIN res)
      /\ fast.workers = WorkerTallies(p.workers, res) /\ fast.lanes = LaneTallies(res)
    BY <1>3 DEF FastGemmReport
<1>5. fast.ok = (/\ valid
                 /\ fast.totals.closed = 0
                 /\ \A i \in DOMAIN res : res[i].result # Nothing)
    <2>1. fast.ok = (/\ valid
                     /\ Tally(res, DOMAIN res).closed = 0
                     /\ \A i \in DOMAIN res : res[i].result # Nothing)
        BY <1>3 DEF FastGemmReport
    <2>2. QED
        BY <1>4, <2>1
<1>6. QED
    BY <1>2, <1>4, <1>5 DEF fast, valid

(* An item of a FAST run is the fresh policy's, with the plan's verdict.   *)
LEMMA FastGemmItemFields ==
    ASSUME NEW it, NEW p, NEW opts
    PROVE  LET fast == fast_gemm_item(it, p, opts)
           IN  /\ fast.index = it.index /\ fast.lane = it.lane /\ fast.decision = it.decision
               /\ fast.source = IF it.decision = "FailClosed" THEN "None"
                                ELSE fast_source_result_for_decision(it.decision)
               /\ fast.result = IF it.decision = "FailClosed" THEN Nothing ELSE ResultOf(it)
               /\ HasItem(p.items, it.index) => fast.shadow = ItemAt(p.items, it.index).shadow
BY DEF fast_gemm_item

(* A count of zero counts nothing.                                         *)
LEMMA TallyClosed ==
    ASSUME NEW items, NEW n \in Nat, DOMAIN items = 1..n
    PROVE  /\ Tally(items, DOMAIN items).items = n
           /\ Tally(items, DOMAIN items).closed = 0 <=>
                  (\A i \in 1..n : items[i].decision # "FailClosed")
           /\ (\A i \in 1..n : items[i].source # "Surrogate") =>
                  Tally(items, DOMAIN items).replaced = 0
<1> DEFINE S == {i \in 1..n : items[i].decision = "FailClosed"}
<1>1. Tally(items, DOMAIN items).items = n
    BY FS_Interval DEF Tally
<1>2. Tally(items, DOMAIN items).closed = Cardinality(S)
    BY DEF Tally
<1>3. (Cardinality(S) = 0) = (S = {})
    <2>1. S \subseteq 1..n
        OBVIOUS
    <2> HIDE DEF S
    <2>2. Cardinality(S) = 0 => S = {}
        BY <2>1, CountedNone
    <2>3. S = {} => Cardinality(S) = 0
        BY FS_EmptySet
    <2>4. QED
        BY <2>2, <2>3
<1>4. (S = {}) = (\A i \in 1..n : items[i].decision # "FailClosed")
    OBVIOUS
<1>5. ASSUME \A i \in 1..n : items[i].source # "Surrogate"
      PROVE  Tally(items, DOMAIN items).replaced = 0
    <2>1. {i \in 1..n : items[i].source = "Surrogate"} = {}
        BY <1>5
    <2>2. QED
        BY <2>1, FS_EmptySet DEF Tally
<1>6. QED
    BY <1>1, <1>2, <1>3, <1>4, <1>5

(* A valid plan has the items of the policy, one for one.                  *)
LEMMA ValidGemmPlan ==
    ASSUME NEW pol, NEW n \in Nat, Numbered(pol.results, n),
           NEW p, NEW k \in Nat, Numbered(p.items, k), NEW opts,
           validate_fast_gemm_plan(pol, p, opts),
           \A i \in 1..n : pol.results[i].decision # "FailClosed"
    PROVE  /\ n = k
           /\ \A i \in 1..n : /\ ItemAt(p.items, pol.results[i].index) = p.items[i]
                              /\ GemmItemsAgree(p.items[i], pol.results[i])
<1>1. \A i \in 1..n : HasItem(p.items, pol.results[i].index)
    BY DEF validate_fast_gemm_plan, Numbered
<1>2. \A i \in 1..k : HasItem(pol.results, p.items[i].index)
    BY DEF validate_fast_gemm_plan, Numbered
<1>3. n = k
    BY <1>1, <1>2, NumberedMatch
<1>4. ASSUME NEW i \in 1..n
      PROVE  /\ ItemAt(p.items, pol.results[i].index) = p.items[i]
             /\ GemmItemsAgree(p.items[i], pol.results[i])
    <2>1. pol.results[i].index = i - 1
        BY DEF Numbered
    <2>2. ItemAt(p.items, i - 1) = p.items[i]
        BY <1>3, NumberedItemAt
    <2>3. GemmItemsAgree(ItemAt(p.items, pol.results[i].index), pol.results[i])
        BY DEF validate_fast_gemm_plan, Numbered
    <2>4. QED
        BY <2>1, <2>2, <2>3
<1>5. QED
    BY <1>3, <1>4

-----------------------------------------------------------------------------
(* What holds of the files of the GEMM pipeline.                           *)

GemmPlanMade ==
    plan # Nothing =>
        /\ madeFor.m \in GemmManifests /\ madeFor.b \in Batches
        /\ SpecsTyped(madeFor.workers)
        /\ plan = plan_runtime_gemm_for_workers(policy_gemm_batch(madeFor.m, madeFor.b),
                                                madeFor.workers)

GemmFiles == m \in GemmManifests /\ b \in Batches /\ GemmPlanMade

(* A plan's items are policy items; an ok plan has them all.               *)
LEMMA GemmPlanItems ==
    ASSUME GemmPlanMade, plan # Nothing
    PROVE  LET pol == policy_gemm_batch(madeFor.m, madeFor.b)
               n   == Len(madeFor.b.txs)
           IN  /\ plan.schema = "gemm" /\ plan.total = TotalLanes(madeFor.workers)
               /\ plan.workers = PlanSummaries(madeFor.workers, plan.items)
               /\ \A k \in DOMAIN plan.items : \E i \in 1..n :
                      /\ GemmItemOf(madeFor.m, madeFor.b, i, pol.results[i])
                      /\ Plannable(pol.results[i], madeFor.workers)
                      /\ plan.items[k] = runtime_plan_item(pol.results[i], madeFor.workers)
               /\ plan.ok =>
                      /\ n # 0 /\ Numbered(plan.items, n)
                      /\ madeFor.workers # <<>>
                      /\ validate_runtime_worker_specs(madeFor.workers)
                      /\ \A i \in 1..n :
                             /\ GemmItemOf(madeFor.m, madeFor.b, i, pol.results[i])
                             /\ Plannable(pol.results[i], madeFor.workers)
                             /\ plan.items[i] = runtime_plan_item(pol.results[i], madeFor.workers)
<1> DEFINE pol == policy_gemm_batch(madeFor.m, madeFor.b)
           n   == Len(madeFor.b.txs)
           workers == madeFor.workers
<1>1. plan = plan_runtime_gemm_for_workers(pol, workers)
    BY DEF GemmPlanMade
<1>2. Numbered(pol.results, n) /\ \A i \in 1..n : GemmItemOf(madeFor.m, madeFor.b, i, pol.results[i])
    BY GemmPolicy DEF GemmPlanMade
<1> HIDE DEF pol, n, workers
<1>3. /\ plan.schema = "gemm" /\ plan.total = TotalLanes(workers)
      /\ plan.workers = PlanSummaries(workers, plan.items)
      /\ \A k \in DOMAIN plan.items : \E i \in 1..n :
             /\ Plannable(pol.results[i], workers)
             /\ plan.items[k] = runtime_plan_item(pol.results[i], workers)
      /\ plan.ok =>
             /\ n # 0 /\ pol.closed = 0
             /\ workers # <<>> /\ validate_runtime_worker_specs(workers)
             /\ \A i \in 1..n : Plannable(pol.results[i], workers)
             /\ plan.items = [k \in 1..n |-> runtime_plan_item(pol.results[k], workers)]
             /\ Numbered(plan.items, n)
    BY <1>1, <1>2, GemmPlan
<1>4. QED
    BY <1>2, <1>3 DEF pol, n, workers

(* A FAST run of the files on disk.                                        *)
LEMMA FastRunItems ==
    ASSUME GemmFiles, plan # Nothing, NEW fast \in FastRuns
    PROVE  LET pol == policy_gemm_batch(m, b)
               n   == Len(b.txs)
           IN  \E opts \in Samplings :
                   /\ fast = run_fast_gemm_batch_with_options(m, b, plan, opts)
                   /\ n \in Nat /\ DOMAIN fast.results = 1..n /\ Len(fast.results) = n
                   /\ \A i \in 1..n :
                          /\ fast.results[i] = fast_gemm_item(pol.results[i], plan, opts)
                          /\ GemmItemOf(m, b, i, pol.results[i])
                   /\ fast.totals = Tally(fast.results, DOMAIN fast.results)
                   /\ fast.workers = WorkerTallies(plan.workers, fast.results)
                   /\ fast.lanes = LaneTallies(fast.results)
                   /\ fast.ok => /\ validate_fast_gemm_plan(pol, plan, opts)
                                 /\ \A i \in 1..n : pol.results[i].decision # "FailClosed"
<1> DEFINE pol == policy_gemm_batch(m, b)
           n   == Len(b.txs)
<1>1. PICK opts \in Samplings : fast = run_fast_gemm_batch_with_options(m, b, plan, opts)
    BY DEF FastRuns
<1>2. fast = FastGemm(pol, plan, opts)
    BY <1>1 DEF run_fast_gemm_batch_with_options
<1>3. Numbered(pol.results, n) /\ \A i \in 1..n : GemmItemOf(m, b, i, pol.results[i])
    BY GemmPolicy DEF GemmFiles
<1> HIDE DEF pol, n
<1>4. n \in Nat
    BY <1>3 DEF Numbered
<1>5. /\ DOMAIN fast.results = 1..n /\ Len(fast.results) = n
      /\ \A i \in 1..n : fast.results[i] = fast_gemm_item(pol.results[i], plan, opts)
      /\ fast.totals = Tally(fast.results, DOMAIN fast.results)
      /\ fast.workers = WorkerTallies(plan.workers, fast.results)
      /\ fast.lanes = LaneTallies(fast.results)
      /\ fast.ok => validate_fast_gemm_plan(pol, plan, opts) /\ fast.totals.closed = 0
    <2> DEFINE run == FastGemm(pol, plan, opts)
    <2>1. DOMAIN run.results = 1..n /\ Len(run.results) = n
        BY <1>3, <1>4, FastGemmItems
    <2>2. \A i \in 1..n : run.results[i] = fast_gemm_item(pol.results[i], plan, opts)
        BY <1>3, <1>4, FastGemmItems
    <2>3. run.totals = Tally(run.results, DOMAIN run.results)
        BY <1>3, <1>4, FastGemmItems
    <2>4. run.workers = WorkerTallies(plan.workers, run.results) /\ run.lanes = LaneTallies(run.results)
        BY <1>3, <1>4, FastGemmItems
    <2>5. run.ok => validate_fast_gemm_plan(pol, plan, opts) /\ run.totals.closed = 0
        BY <1>3, <1>4, FastGemmItems
    <2>6. fast = run
        BY <1>2
    <2> HIDE DEF run
    <2>7. QED
        BY <2>1, <2>2, <2>3, <2>4, <2>5, <2>6
<1>6. ASSUME fast.ok PROVE \A i \in 1..n : pol.results[i].decision # "FailClosed"
    <2>1. \A i \in 1..n : fast.results[i].decision # "FailClosed"
        <3>1. Tally(fast.results, DOMAIN fast.results).closed = 0
            BY <1>5, <1>6
        <3>2. QED
            BY <1>4, <1>5, <3>1, TallyClosed
    <2>2. \A i \in 1..n : fast.results[i].decision = pol.results[i].decision
        BY <1>5, FastGemmItemFields
    <2>3. QED
        BY <2>1, <2>2
<1>7. QED
    BY <1>1, <1>3, <1>4, <1>5, <1>6 DEF pol, n

-----------------------------------------------------------------------------
(* The GEMM policy is safe whatever files are on disk.                     *)

(* A source is the surrogate's only for a replaced item.                   *)
LEMMA SourceOf ==
    ASSUME NEW d \in Decisions
    PROVE  /\ fast_source_result_for_decision(d) \in {"Surrogate", "Exact"}
           /\ (fast_source_result_for_decision(d) = "Surrogate") = (d = "SurrogateUsed")
BY DEF fast_source_result_for_decision

(* The result an item offers is marked as its decision says.               *)
LEMMA ResultProvenance ==
    ASSUME NEW man, NEW batch, NEW i, NEW it, GemmItemOf(man, batch, i, it),
           it.decision # "FailClosed"
    PROVE  /\ ResultOf(it) # Nothing
           /\ ResultOf(it).prov.exact = (it.decision # "SurrogateUsed")
<1>1. CASE it.decision = "SurrogateUsed"
    <2>1. ResultOf(it) = Surrogate(man, batch, i) /\ Passed(Surrogate(man, batch, i))
        BY <1>1 DEF ResultOf, GemmItemOf
    <2>2. ResultOf(it) # Nothing
        BY <2>1 DEF Passed
    <2>3. QED
        BY <1>1, <2>1, <2>2, SurrogateProvenance
<1>2. CASE it.decision # "SurrogateUsed"
    <2>1. it.decision \in {"ExactFallback", "ShadowCompare"}
        BY <1>2 DEF GemmItemOf, Decisions
    <2>2. ResultOf(it) = exact_gemm_result(man, batch.txs[i]) /\ ResultOf(it) # Nothing
        BY <1>2, <2>1 DEF ResultOf, GemmItemOf
    <2>3. QED
        BY <1>2, <2>2, ExactProvenance
<1>3. QED
    BY <1>1, <1>2

(* ProvenanceFollowsSource, of the files on disk.                          *)
LEMMA GemmProvenance == GemmFiles => ProvenanceFollowsSource
<1> SUFFICES ASSUME GemmFiles, plan # Nothing, NEW fast \in FastRuns,
                    NEW i \in DOMAIN fast.results
             PROVE  /\ (fast.results[i].source = "None") = (fast.results[i].decision = "FailClosed")
                    /\ fast.results[i].source # "None" =>
                           /\ fast.results[i].result # Nothing
                           /\ fast.results[i].result.prov.exact = (fast.results[i].source = "Exact")
    BY DEF ProvenanceFollowsSource
<1> DEFINE it == policy_gemm_batch(m, b).results[i]
<1>1. PICK opts \in Samplings : /\ fast.results[i] = fast_gemm_item(it, plan, opts)
                                /\ GemmItemOf(m, b, i, it)
    BY FastRunItems
<1> HIDE DEF it
<1>2. it.decision \in Decisions
    BY <1>1 DEF GemmItemOf
<1>3. /\ fast.results[i].decision = it.decision
      /\ fast.results[i].source = IF it.decision = "FailClosed" THEN "None"
                                  ELSE fast_source_result_for_decision(it.decision)
      /\ it.decision # "FailClosed" => fast.results[i].result = ResultOf(it)
    BY <1>1, FastGemmItemFields
<1>4. CASE it.decision = "FailClosed"
    BY <1>3, <1>4
<1>5. CASE it.decision # "FailClosed"
    <2>1. fast.results[i].source \in {"Surrogate", "Exact"}
          /\ (fast.results[i].source = "Surrogate") = (it.decision = "SurrogateUsed")
        BY <1>2, <1>3, <1>5, SourceOf
    <2>2. ResultOf(it) # Nothing /\ ResultOf(it).prov.exact = (it.decision # "SurrogateUsed")
        BY <1>1, <1>5, ResultProvenance
    <2>3. (it.decision # "SurrogateUsed") = (fast.results[i].source = "Exact")
        BY <2>1
    <2>4. QED
        BY <1>3, <1>5, <2>1, <2>2, <2>3
<1>6. QED
    BY <1>4, <1>5

(* ShadowNeverReplaces, of the files on disk.                              *)
LEMMA GemmShadow == GemmFiles => ShadowNeverReplaces
<1> SUFFICES ASSUME GemmFiles, plan # Nothing PROVE ShadowNeverReplaces
    BY DEF ShadowNeverReplaces
<1>1. ASSUME m.mode # "ApproximateWithTolerance", NEW fast \in FastRuns
      PROVE  fast.totals.replaced = 0
    <2> DEFINE pol == policy_gemm_batch(m, b)
               n == Len(b.txs)
    <2>1. PICK opts \in Samplings :
              /\ n \in Nat /\ DOMAIN fast.results = 1..n
              /\ \A i \in 1..n : /\ fast.results[i] = fast_gemm_item(pol.results[i], plan, opts)
                                 /\ GemmItemOf(m, b, i, pol.results[i])
              /\ fast.totals = Tally(fast.results, DOMAIN fast.results)
        BY FastRunItems
    <2> HIDE DEF pol, n
    <2>2. ASSUME NEW i \in 1..n PROVE fast.results[i].source # "Surrogate"
        <3>1. pol.results[i].decision \in Decisions /\ pol.results[i].decision # "SurrogateUsed"
            BY <1>1, <2>1 DEF GemmItemOf
        <3>2. fast_source_result_for_decision(pol.results[i].decision) # "Surrogate"
            BY <3>1, SourceOf
        <3>3. QED
            BY <2>1, <3>2, FastGemmItemFields
    <2>3. QED
        BY <2>1, <2>2, TallyClosed
<1>2. ASSUME madeFor.m.mode # "ApproximateWithTolerance", NEW k \in DOMAIN plan.items
      PROVE  plan.items[k].source = "Exact"
    <2> DEFINE pol == policy_gemm_batch(madeFor.m, madeFor.b)
    <2>1. PICK i \in 1..Len(madeFor.b.txs) :
              /\ GemmItemOf(madeFor.m, madeFor.b, i, pol.results[i])
              /\ plan.items[k] = runtime_plan_item(pol.results[i], madeFor.workers)
        BY GemmPlanItems DEF GemmFiles
    <2> HIDE DEF pol
    <2>2. pol.results[i].decision \in Decisions /\ pol.results[i].decision # "SurrogateUsed"
        BY <1>2, <2>1 DEF GemmItemOf
    <2>3. fast_source_result_for_decision(pol.results[i].decision) = "Exact"
        BY <2>2, SourceOf
    <2>4. QED
        BY <2>1, <2>3 DEF runtime_plan_item
<1>3. QED
    BY <1>1, <1>2 DEF ShadowNeverReplaces

(* ReplacedOnlyWithinDomain, of the files on disk.                         *)
LEMMA GemmDomain == GemmFiles => ReplacedOnlyWithinDomain
<1> SUFFICES ASSUME GemmFiles, plan # Nothing, NEW fast \in FastRuns,
                    NEW i \in DOMAIN fast.results, fast.results[i].source = "Surrogate"
             PROVE  LET tx == b.txs[i]
                    IN  /\ m.artifact = "match"
                        /\ tx.k \in m.kmin..m.kmax
                        /\ tx.expected # Nothing =>
                               \A r \in 1..tx.rows : \A c \in 1..tx.cols :
                                   Abs(fast.results[i].result.c[r][c]
                                       - Expected(tx.expected, r, c)) <= m.maxErr
    BY DEF ReplacedOnlyWithinDomain
<1> DEFINE it == policy_gemm_batch(m, b).results[i]
<1>1. PICK opts \in Samplings : /\ i \in 1..Len(b.txs)
                                /\ fast.results[i] = fast_gemm_item(it, plan, opts)
                                /\ GemmItemOf(m, b, i, it)
    BY FastRunItems
<1> HIDE DEF it
<1>2. it.decision = "SurrogateUsed"
    <2>1. it.decision \in Decisions
        BY <1>1 DEF GemmItemOf
    <2>2. fast.results[i].source = IF it.decision = "FailClosed" THEN "None"
                                   ELSE fast_source_result_for_decision(it.decision)
        BY <1>1, FastGemmItemFields
    <2>3. QED
        BY <2>1, <2>2, SourceOf
<1>3. fast.results[i].result = Surrogate(m, b, i) /\ Passed(Surrogate(m, b, i))
    <2>1. fast.results[i].result = ResultOf(it)
        BY <1>1, <1>2, FastGemmItemFields
    <2>2. QED
        BY <1>1, <1>2, <2>1 DEF ResultOf, GemmItemOf
<1>4. QED
    BY <1>1, <1>3, PassedWithinDomain DEF GemmFiles

(* A FAST run that is ok has the items of its plan, one for one.           *)
LEMMA FastRunOk ==
    ASSUME GemmFiles, plan # Nothing, plan.ok, NEW fast \in FastRuns, fast.ok
    PROVE  /\ Len(plan.items) = Len(b.txs)
           /\ Len(fast.results) = Len(b.txs) /\ DOMAIN fast.results = 1..Len(b.txs)
           /\ fast.totals.closed = 0
           /\ \A i \in 1..Len(b.txs) :
                  /\ plan.items[i].lane = fast.results[i].lane
                  /\ plan.items[i].source = fast.results[i].source
<1> DEFINE pol == policy_gemm_batch(m, b)
           n == Len(b.txs)
           k == Len(madeFor.b.txs)
<1>1. PICK opts \in Samplings :
          /\ n \in Nat /\ DOMAIN fast.results = 1..n /\ Len(fast.results) = n
          /\ \A i \in 1..n : /\ fast.results[i] = fast_gemm_item(pol.results[i], plan, opts)
                             /\ GemmItemOf(m, b, i, pol.results[i])
          /\ fast.totals = Tally(fast.results, DOMAIN fast.results)
          /\ validate_fast_gemm_plan(pol, plan, opts)
          /\ \A i \in 1..n : pol.results[i].decision # "FailClosed"
    BY FastRunItems
<1>2. Numbered(pol.results, n)
    BY GemmPolicy DEF GemmFiles
<1>3. Numbered(plan.items, k)
    BY GemmPlanItems DEF GemmFiles
<1> HIDE DEF pol, n, k
<1>4. /\ n = k
      /\ \A i \in 1..n : GemmItemsAgree(plan.items[i], pol.results[i])
    <2>1. n \in Nat /\ k \in Nat
        BY <1>1, <1>3 DEF Numbered
    <2>2. /\ validate_fast_gemm_plan(pol, plan, opts)
          /\ \A i \in 1..n : pol.results[i].decision # "FailClosed"
        BY <1>1
    <2>3. n = k
        BY <1>2, <1>3, <2>1, <2>2, ValidGemmPlan
    <2>4. \A i \in 1..n : GemmItemsAgree(plan.items[i], pol.results[i])
        BY <1>2, <1>3, <2>1, <2>2, ValidGemmPlan
    <2>5. QED
        BY <2>3, <2>4
<1>5. Len(plan.items) = n
    BY <1>3, <1>4 DEF Numbered
<1>6. ASSUME NEW i \in 1..n
      PROVE  /\ plan.items[i].lane = fast.results[i].lane
             /\ plan.items[i].source = fast.results[i].source
             /\ fast.results[i].decision # "FailClosed"
    <2>1. /\ fast.results[i].lane = pol.results[i].lane
          /\ fast.results[i].source = fast_source_result_for_decision(pol.results[i].decision)
          /\ fast.results[i].decision = pol.results[i].decision
        BY <1>1, FastGemmItemFields
    <2>2. QED
        BY <1>1, <1>4, <2>1 DEF GemmItemsAgree
<1>7. fast.totals.closed = 0
    <2>1. Tally(fast.results, DOMAIN fast.results).closed = 0
        BY <1>1, <1>6, TallyClosed
    <2>2. QED
        BY <1>1, <2>1
<1>8. QED
    BY <1>1, <1>5, <1>6, <1>7 DEF n

(* An ok FAST run ran an ok plan.                                          *)
LEMMA ValidPlanOk ==
    ASSUME NEW fast \in FastRuns, fast.ok, GemmFiles, plan # Nothing
    PROVE  plan.ok
<1>1. PICK opts \in Samplings : validate_fast_gemm_plan(policy_gemm_batch(m, b), plan, opts)
    BY FastRunItems
<1>2. QED
    BY <1>1 DEF validate_fast_gemm_plan

(* FailClosedStopsTheBatch, of the files on disk.                          *)
LEMMA GemmFailClosed == GemmFiles => FailClosedStopsTheBatch
<1> SUFFICES ASSUME GemmFiles, plan # Nothing PROVE FailClosedStopsTheBatch
    BY DEF FailClosedStopsTheBatch
<1>1. ASSUME plan.ok
      PROVE  /\ Len(plan.items) = Len(madeFor.b.txs)
             /\ \A i \in DOMAIN plan.items : plan.items[i].index = i - 1
    <2>1. Numbered(plan.items, Len(madeFor.b.txs))
        BY <1>1, GemmPlanItems DEF GemmFiles
    <2>2. QED
        BY <2>1 DEF Numbered
<1>2. ASSUME NEW fast \in FastRuns, fast.ok
      PROVE  fast.totals.closed = 0 /\ fast.totals.items = Len(plan.items)
    <2>1. plan.ok
        BY <1>2, ValidPlanOk
    <2>2. fast.totals.closed = 0 /\ Len(plan.items) = Len(b.txs) /\ DOMAIN fast.results = 1..Len(b.txs)
        BY <1>2, <2>1, FastRunOk
    <2>3. fast.totals = Tally(fast.results, DOMAIN fast.results) /\ Len(b.txs) \in Nat
        BY FastRunItems
    <2>4. Tally(fast.results, DOMAIN fast.results).items = Len(b.txs)
        BY <2>2, <2>3, TallyClosed
    <2>5. QED
        BY <2>2, <2>3, <2>4
<1>3. QED
    BY <1>1, <1>2 DEF FailClosedStopsTheBatch

(* GemmPolicySafe, of the files on disk.                                   *)
LEMMA GemmPolicyIsSafe == GemmFiles => GemmPolicySafe
BY GemmProvenance, GemmShadow, GemmDomain, GemmFailClosed DEF GemmPolicySafe

(* StalePlanSameContract, of the files on disk.                            *)
LEMMA GemmStalePlan == GemmFiles => StalePlanSameContract
<1> SUFFICES ASSUME GemmFiles, plan # Nothing, NEW fast \in FastRuns, fast.ok
             PROVE  /\ Len(plan.items) = Len(fast.results)
                    /\ \A i \in DOMAIN fast.results :
                           /\ plan.items[i].lane = fast.results[i].lane
                           /\ plan.items[i].source = fast.results[i].source
    BY DEF StalePlanSameContract
<1>1. plan.ok
    BY ValidPlanOk
<1>2. QED
    BY <1>1, FastRunOk

-----------------------------------------------------------------------------
(* Shards and the workers a plan is made for.                              *)

(* A topology is a sequence of lanes.                                      *)
LEMMA TopologyTyped ==
    ASSUME NEW topology \in Topologies
    PROVE  /\ Len(topology) \in Nat /\ DOMAIN topology = 1..Len(topology)
           /\ \A i \in 1..Len(topology) : topology[i].lanes \in Nat
<1> DEFINE Entry == [id : WorkerId, lanes : Nat]
<1>1. topology \in Seq(Entry)
    BY TopologyTypes
<1>2. \A entry \in Entry : entry.lanes \in Nat
    OBVIOUS
<1> HIDE DEF Entry
<1>3. \A i \in 1..Len(topology) : topology[i] \in Entry
    BY <1>1
<1>4. QED
    BY <1>1, <1>2, <1>3

(* Shards are contiguous from lane zero.                                   *)
LEMMA ShardsContiguous ==
    ASSUME NEW topology \in Topologies
    PROVE  SpecsTyped(ShardsOf(topology)) /\ Contiguous(ShardsOf(topology))
<1> DEFINE n == Len(topology)
           lanes == [i \in DOMAIN topology |-> topology[i].lanes]
           ws == ShardsOf(topology)
<1>1. /\ n \in Nat /\ DOMAIN topology = 1..n
      /\ \A i \in 1..n : topology[i].lanes \in Nat
    BY TopologyTyped
<1>2. Len(lanes) = n /\ \A i \in 1..n : lanes[i] = topology[i].lanes
    BY <1>1
<1>3. ws = [i \in 1..n |-> [id    |-> topology[i].id,
                            start |-> Sums(lanes)[i - 1],
                            lanes |-> topology[i].lanes]]
    BY <1>1 DEF ShardsOf
<1>4. /\ \A i \in 0..n : Sums(lanes)[i] \in Nat
      /\ Sums(lanes)[0] = 0
      /\ \A i \in 1..n : Sums(lanes)[i] = Sums(lanes)[i - 1] + topology[i].lanes
    <2> HIDE DEF lanes
    <2>1. \A i \in 1..Len(lanes) : lanes[i] \in Nat
        BY <1>1, <1>2
    <2>2. \A i \in 0..n : Sums(lanes)[i] \in Nat
        BY <1>1, <1>2, <2>1, SumsNat
    <2>3. QED
        BY <1>1, <1>2, <2>2, SumsStep
<1> HIDE DEF n, lanes, ws
<1>5. DOMAIN ws = 1..n /\ Len(ws) = n
    BY <1>1, <1>3
<1>6. \A i \in 1..n : ws[i].start = Sums(lanes)[i - 1] /\ ws[i].lanes = topology[i].lanes
    BY <1>3
<1>7. SpecsTyped(ws)
    <2>1. \A i \in 1..n : i - 1 \in 0..n
        BY <1>1
    <2>2. QED
        BY <1>1, <1>4, <1>5, <1>6, <2>1 DEF SpecsTyped
<1>8. Contiguous(ws)
    <2>1. ASSUME NEW i \in 1..n
          PROVE  ws[i].start = IF i = 1 THEN 0 ELSE ws[i - 1].start + ws[i - 1].lanes
        <3>1. CASE i = 1
            BY <1>4, <1>6, <3>1
        <3>2. CASE i # 1
            <4>1. i - 1 \in 1..n
                BY <1>1, <3>2
            <4>2. ws[i].start = Sums(lanes)[i - 1]
                BY <1>6
            <4>3. Sums(lanes)[i - 1] = Sums(lanes)[(i - 1) - 1] + topology[i - 1].lanes
                BY <1>4, <4>1
            <4>4. ws[i - 1].start = Sums(lanes)[(i - 1) - 1] /\ ws[i - 1].lanes = topology[i - 1].lanes
                BY <1>6, <4>1
            <4>5. QED
                BY <3>2, <4>2, <4>3, <4>4
        <3>3. QED
            BY <3>1, <3>2
    <2>2. QED
        BY <1>5, <2>1 DEF Contiguous
<1>9. QED
    BY <1>7, <1>8 DEF ws

(* So are the specs a caller plans for, typed.                             *)
LEMMA SpecListsTyped ==
    ASSUME NEW ws \in SpecLists
    PROVE  SpecsTyped(ws)
<1>1. ws \in Seq(WorkerSpec)
    BY TopologyTypes
<1>2. \A i \in 1..Len(ws) : ws[i] \in WorkerSpec
    BY <1>1
<1>3. QED
    BY <1>1, <1>2 DEF SpecsTyped, WorkerSpec

(* The single worker of plan_runtime_gemm is typed.                        *)
LEMMA OneWorkerTyped ==
    ASSUME NEW n \in {0, 2}
    PROVE  SpecsTyped(OneWorker(n))
<1>1. CASE n = 0
    BY <1>1 DEF SpecsTyped, OneWorker
<1>2. CASE n = 2
    <2> DEFINE ws == <<[id |-> "worker0", start |-> 0, lanes |-> 2]>>
    <2>1. Len(ws) = 1 /\ DOMAIN ws = 1..1 /\ ws[1].start = 0 /\ ws[1].lanes = 2
        OBVIOUS
    <2>2. OneWorker(n) = ws
        BY <1>2 DEF OneWorker
    <2> HIDE DEF ws
    <2>3. \A i \in 1..1 : ws[i].start \in Nat /\ ws[i].lanes \in Nat
        BY <2>1
    <2>4. SpecsTyped(ws)
        BY <2>1, <2>3 DEF SpecsTyped
    <2>5. QED
        BY <2>2, <2>4
<1>3. QED
    BY <1>1, <1>2

(* What validate_runtime_worker_specs accepts.                             *)
LEMMA ValidSpecs ==
    ASSUME NEW ws, SpecsTyped(ws), validate_runtime_worker_specs(ws)
    PROVE  /\ Contiguous(ws)
           /\ \A i, j \in 1..Len(ws) : i # j => ws[i].id # ws[j].id
           /\ \A i \in 1..Len(ws) : ws[i].lanes # 0
<1>1. Len(ws) \in Nat /\ DOMAIN ws = 1..Len(ws)
    BY DEF SpecsTyped
<1>2. Contiguous(ws) /\ \A i \in 1..Len(ws) : ws[i].lanes # 0
    BY <1>1 DEF validate_runtime_worker_specs, Contiguous
<1>3. ASSUME NEW i \in 1..Len(ws), NEW j \in 1..Len(ws), i # j PROVE ws[i].id # ws[j].id
    <2>1. CASE i < j
        <3>1. i \in 1..(j - 1)
            BY <1>1, <2>1
        <3>2. QED
            BY <1>1, <3>1 DEF validate_runtime_worker_specs
    <2>2. CASE j < i
        <3>1. j \in 1..(i - 1)
            BY <1>1, <2>2
        <3>2. QED
            BY <1>1, <3>1 DEF validate_runtime_worker_specs
    <2>3. QED
        BY <1>1, <1>3, <2>1, <2>2
<1>4. QED
    BY <1>2, <1>3

(* A shard named once is the one its name finds.                           *)
LEMMA NamedOnce ==
    ASSUME NEW ws, NEW i \in DOMAIN ws,
           \A j, k \in DOMAIN ws : j # k => ws[j].id # ws[k].id
    PROVE  KnownWorker(ws, ws[i].id) /\ ShardNamed(ws, ws[i].id) = ws[i]
<1>1. KnownWorker(ws, ws[i].id)
    BY DEF KnownWorker
<1>2. (CHOOSE j \in DOMAIN ws : ws[j].id = ws[i].id) = i
    OBVIOUS
<1>3. QED
    BY <1>1, <1>2 DEF ShardNamed

(* The owner of a covered lane is the spec that covers it.                 *)
LEMMA OwnerFound ==
    ASSUME NEW ws, SpecsTyped(ws), NEW lane, Covered(ws, lane)
    PROVE  \E i \in 1..Len(ws) : worker_for_lane(ws, lane) = ws[i] /\ Covers(ws[i], lane)
<1> DEFINE S == {i \in DOMAIN ws : Covers(ws[i], lane)}
<1>1. S \subseteq Nat /\ S # {}
    BY DEF SpecsTyped, Covered
<1>2. Least(S) \in S
    BY <1>1, LeastOf
<1>3. QED
    BY <1>2 DEF worker_for_lane, SpecsTyped

(* A plan attaches to the shards it was made for.                          *)
LEMMA OwnShards ==
    ASSUME NEW ws, SpecsTyped(ws), validate_runtime_worker_specs(ws), ws # <<>>,
           NEW p, p.total = TotalLanes(ws), p.workers = PlanSummaries(ws, p.items),
           \A i \in DOMAIN p.items : /\ Covered(ws, p.items[i].lane)
                                     /\ p.items[i].worker = worker_for_lane(ws, p.items[i].lane).id
    PROVE  /\ p.total = LanesOf(ws)
           /\ runtime_shards_by_worker(ws)
           /\ WorkersMatch(ws, p.workers)
           /\ \A i \in DOMAIN p.items : ItemOnItsShard(ws, p.items[i])
           /\ SummariesMatch(p)
<1> DEFINE n == Len(ws)
<1>1. n \in Nat /\ DOMAIN ws = 1..n
    BY DEF SpecsTyped
<1>2. /\ Contiguous(ws)
      /\ \A i, j \in DOMAIN ws : i # j => ws[i].id # ws[j].id
      /\ \A i \in DOMAIN ws : ws[i].lanes # 0
    BY <1>1, ValidSpecs
<1>3. p.total = LanesOf(ws)
    BY <1>2, ContiguousTotal
<1>4. runtime_shards_by_worker(ws)
    BY <1>2 DEF runtime_shards_by_worker
<1>5. /\ DOMAIN p.workers = 1..n /\ Len(p.workers) = n
      /\ \A i \in 1..n : p.workers[i] = PlanSummary(ws[i], p.items)
    <2>1. p.workers = [k \in 1..n |-> PlanSummary(ws[k], p.items)]
        BY <1>1 DEF PlanSummaries
    <2>2. QED
        BY <1>1, <2>1
<1>6. \A i \in 1..n : /\ p.workers[i].id = ws[i].id /\ p.workers[i].start = ws[i].start
                      /\ p.workers[i].lanes = ws[i].lanes
    <2>1. \A w : /\ PlanSummary(w, p.items).id = w.id
                 /\ PlanSummary(w, p.items).start = w.start
                 /\ PlanSummary(w, p.items).lanes = w.lanes
        BY DEF PlanSummary
    <2>2. QED
        BY <1>5, <2>1
<1>7. \A i \in 1..n : KnownWorker(ws, ws[i].id) /\ ShardNamed(ws, ws[i].id) = ws[i]
    BY <1>1, <1>2, NamedOnce
<1>8. WorkersMatch(ws, p.workers)
    BY <1>1, <1>2, <1>5, <1>6, <1>7 DEF WorkersMatch
<1>9. ASSUME NEW i \in DOMAIN p.items PROVE ItemOnItsShard(ws, p.items[i])
    <2>1. PICK j \in 1..n : /\ worker_for_lane(ws, p.items[i].lane) = ws[j]
                            /\ Covers(ws[j], p.items[i].lane)
        BY OwnerFound
    <2>2. p.items[i].worker = ws[j].id
        BY <2>1
    <2>3. QED
        BY <1>7, <2>1, <2>2 DEF ItemOnItsShard
<1>10. SummariesMatch(p)
    <2>1. ASSUME NEW i \in 1..n PROVE p.workers[i] = PlanSummary(p.workers[i], p.items)
        <3>1. PlanSummary(p.workers[i], p.items) = PlanSummary(ws[i], p.items)
            BY <1>6 DEF PlanSummary
        <3>2. QED
            BY <1>5, <3>1
    <2>2. QED
        BY <1>5, <2>1 DEF SummariesMatch
<1>11. QED
    BY <1>3, <1>4, <1>8, <1>9, <1>10

(* The owner of an attached item's lane is the worker the item names.      *)
LEMMA ItemOwner ==
    ASSUME NEW topology \in Topologies, NEW item, item.lane \in Nat,
           ItemOnItsShard(ShardsOf(topology), item)
    PROVE  /\ Covered(ShardsOf(topology), item.lane)
           /\ worker_for_lane(ShardsOf(topology), item.lane).id = item.worker
<1> DEFINE ws == ShardsOf(topology)
<1>1. SpecsTyped(ws) /\ Contiguous(ws)
    BY ShardsContiguous
<1> HIDE DEF ws
<1>2. DOMAIN ws = 1..Len(ws)
    BY <1>1 DEF SpecsTyped
<1>3. KnownWorker(ws, item.worker) /\ Covers(ShardNamed(ws, item.worker), item.lane)
    BY DEF ItemOnItsShard, ws
<1>4. PICK i \in 1..Len(ws) : ShardNamed(ws, item.worker) = ws[i] /\ ws[i].id = item.worker
    BY <1>2, <1>3 DEF KnownWorker, ShardNamed
<1>5. Covers(ws[i], item.lane)
    BY <1>3, <1>4
<1>6. worker_for_lane(ws, item.lane) = ws[i]
    BY <1>1, <1>5, OneOwner
<1>7. QED
    BY <1>2, <1>4, <1>5, <1>6 DEF Covered, ws

-----------------------------------------------------------------------------
(* A GEMM plan is accepted where it comes from.                            *)

(* A planned item agrees with the policy item it was made from.            *)
LEMMA PlannedItem ==
    ASSUME NEW it, NEW workers
    PROVE  LET item == runtime_plan_item(it, workers)
           IN  /\ item.index = it.index /\ item.lane = it.lane /\ item.decision = it.decision
               /\ item.worker = worker_for_lane(workers, it.lane).id
               /\ item.prov = ResultOf(it).prov
               /\ item.source = fast_source_result_for_decision(it.decision)
               /\ item.shadow = gemm_shadow_ok(it)
BY DEF runtime_plan_item

(* An ok plan is valid for the policy it was made from.                    *)
LEMMA OwnGemmPlanValid ==
    ASSUME NEW pol, NEW n \in Nat, Numbered(pol.results, n), pol.count = n,
           NEW p, Numbered(p.items, n), p.schema = "gemm", p.ok,
           NEW workers, p.total = TotalLanes(workers),
           \A i \in 1..n : /\ Plannable(pol.results[i], workers)
                           /\ p.items[i] = runtime_plan_item(pol.results[i], workers),
           NEW opts, opts.stride # 0
    PROVE  validate_fast_gemm_plan(pol, p, opts)
<1>1. DOMAIN pol.results = 1..n /\ DOMAIN p.items = 1..n /\ Len(pol.results) = n
    BY DEF Numbered
<1>2. \A i \in 1..n : pol.results[i].index = i - 1 /\ p.items[i].index = i - 1
    BY DEF Numbered
<1>3. \A i, j \in 1..n : i # j => i - 1 # j - 1
    OBVIOUS
<1>4. ASSUME NEW i \in 1..n
      PROVE  LET it == pol.results[i]
             IN  /\ it.lane < p.total
                 /\ it.decision # "FailClosed"
                 /\ HasItem(p.items, it.index) /\ GemmItemsAgree(ItemAt(p.items, it.index), it)
                 /\ HasItem(pol.results, p.items[i].index)
                 /\ ItemAt(pol.results, p.items[i].index).decision # "FailClosed"
    <2>1. pol.results[i].lane < p.total /\ pol.results[i].decision # "FailClosed"
        BY DEF Plannable
    <2>2. /\ HasItem(p.items, i - 1) /\ ItemAt(p.items, i - 1) = p.items[i]
          /\ HasItem(pol.results, i - 1) /\ ItemAt(pol.results, i - 1) = pol.results[i]
        BY NumberedItemAt
    <2>3. GemmItemsAgree(p.items[i], pol.results[i])
        BY PlannedItem DEF GemmItemsAgree
    <2>4. QED
        BY <1>2, <2>1, <2>2, <2>3
<1>5. QED
    BY <1>1, <1>2, <1>3, <1>4, SMTT(45) DEF validate_fast_gemm_plan

(* An ok plan gives an ok FAST run of its own files.                       *)
LEMMA OwnGemmRunOk ==
    ASSUME GemmFiles, plan # Nothing, plan.ok, madeFor.m = m, madeFor.b = b,
           NEW opts, opts.stride # 0
    PROVE  run_fast_gemm_batch_with_options(m, b, plan, opts).ok
<1> DEFINE pol == policy_gemm_batch(m, b)
           n == Len(b.txs)
           workers == madeFor.workers
           fast == FastGemm(pol, plan, opts)
<1>1. Numbered(pol.results, n) /\ pol.count = n /\ n \in Nat
    BY GemmPolicy DEF GemmFiles, Numbered
<1>2. /\ plan.schema = "gemm" /\ plan.total = TotalLanes(workers)
      /\ Numbered(plan.items, n)
      /\ \A i \in 1..n : /\ Plannable(pol.results[i], workers)
                         /\ plan.items[i] = runtime_plan_item(pol.results[i], workers)
    BY GemmPlanItems DEF GemmFiles
<1>3. fast = run_fast_gemm_batch_with_options(m, b, plan, opts)
    BY DEF run_fast_gemm_batch_with_options
<1> HIDE DEF pol, n, workers, fast
<1>4. validate_fast_gemm_plan(pol, plan, opts)
    BY <1>1, <1>2, OwnGemmPlanValid
<1>5. /\ DOMAIN fast.results = 1..n
      /\ \A i \in 1..n : fast.results[i] = fast_gemm_item(pol.results[i], plan, opts)
      /\ fast.totals = Tally(fast.results, DOMAIN fast.results)
      /\ fast.ok <=> /\ validate_fast_gemm_plan(pol, plan, opts)
                     /\ fast.totals.closed = 0
                     /\ \A i \in 1..n : fast.results[i].result # Nothing
    BY <1>1, FastGemmItems DEF fast
<1>6. ASSUME NEW i \in 1..n
      PROVE  fast.results[i].result # Nothing /\ fast.results[i].decision # "FailClosed"
    <2>1. pol.results[i].decision # "FailClosed" /\ ResultOf(pol.results[i]) # Nothing
        BY <1>2 DEF Plannable
    <2>2. QED
        BY <1>5, <2>1, FastGemmItemFields
<1>7. Tally(fast.results, DOMAIN fast.results).closed = 0
    BY <1>1, <1>5, <1>6, TallyClosed
<1>8. fast.totals.closed = 0
    BY <1>5, <1>7
<1>9. QED
    BY <1>3, <1>4, <1>5, <1>6, <1>8

(* An ok plan attaches to the shards it was made for.                      *)
LEMMA OwnGemmPlanAttaches ==
    ASSUME GemmFiles, plan # Nothing, plan.ok
    PROVE  gemm_plan_attaches(madeFor.workers, plan)
<1> DEFINE ws == madeFor.workers
<1>1. SpecsTyped(ws)
    BY DEF GemmFiles, GemmPlanMade
<1>2. /\ plan.schema = "gemm" /\ plan.total = TotalLanes(ws)
      /\ plan.workers = PlanSummaries(ws, plan.items)
      /\ ws # <<>> /\ validate_runtime_worker_specs(ws)
    BY GemmPlanItems DEF GemmFiles
<1>3. ASSUME NEW i \in DOMAIN plan.items
      PROVE  /\ Covered(ws, plan.items[i].lane)
             /\ plan.items[i].worker = worker_for_lane(ws, plan.items[i].lane).id
    <2>1. \E it : Plannable(it, ws) /\ plan.items[i] = runtime_plan_item(it, ws)
        BY GemmPlanItems DEF GemmFiles
    <2>2. QED
        BY <2>1, PlannedItem DEF Plannable
<1> HIDE DEF ws
<1>4. /\ plan.total = LanesOf(ws)
      /\ runtime_shards_by_worker(ws)
      /\ WorkersMatch(ws, plan.workers)
      /\ \A i \in DOMAIN plan.items : ItemOnItsShard(ws, plan.items[i])
      /\ SummariesMatch(plan)
    BY <1>1, <1>2, <1>3, OwnShards
<1>5. QED
    BY <1>2, <1>4 DEF gemm_plan_attaches, ws

(* OwnPlanAccepted, of the files on disk.                                  *)
LEMMA GemmOwnPlan == GemmFiles => OwnPlanAccepted
BY OwnGemmRunOk, OwnGemmPlanAttaches DEF OwnPlanAccepted

(* What is attached lies on the lanes of the runtime's shards.             *)
LEMMA GemmItemsTyped ==
    ASSUME GemmFiles, plan # Nothing, NEW i \in DOMAIN plan.items
    PROVE  /\ plan.items[i].lane \in Nat
           /\ plan.items[i].source \in {"Surrogate", "Exact"}
           /\ plan.items[i].prov.exact = (plan.items[i].source = "Exact")
<1>1. PICK it, j : /\ GemmItemOf(madeFor.m, madeFor.b, j, it)
                   /\ Plannable(it, madeFor.workers)
                   /\ plan.items[i] = runtime_plan_item(it, madeFor.workers)
    BY GemmPlanItems DEF GemmFiles
<1>2. /\ plan.items[i].lane = it.lane
      /\ plan.items[i].prov = ResultOf(it).prov
      /\ plan.items[i].source = fast_source_result_for_decision(it.decision)
    BY <1>1, PlannedItem
<1>3. it.decision \in Decisions /\ it.lane \in Nat
    BY <1>1 DEF GemmItemOf
<1>4. ResultOf(it).prov.exact = (it.decision # "SurrogateUsed")
    BY <1>1 DEF Plannable
<1>5. /\ plan.items[i].source \in {"Surrogate", "Exact"}
      /\ (plan.items[i].source = "Surrogate") = (it.decision = "SurrogateUsed")
    BY <1>2, <1>3, SourceOf
<1>6. (it.decision # "SurrogateUsed") = (plan.items[i].source = "Exact")
    BY <1>5
<1>7. plan.items[i].prov.exact = (plan.items[i].source = "Exact")
    BY <1>2, <1>4, <1>6
<1>8. QED
    BY <1>2, <1>3, <1>5, <1>7

RightlyAttached(shards, a) ==
    /\ a.total = LanesOf(shards)
    /\ \A i \in DOMAIN a.items :
           /\ Covered(shards, a.items[i].lane)
           /\ worker_for_lane(shards, a.items[i].lane).id = a.items[i].worker
           /\ a.items[i].exact = (a.items[i].source = "Exact")

-----------------------------------------------------------------------------
(* The policy of events.                                                   *)

CorpusTyped(c) ==
    /\ Len(c.events) \in Nat /\ DOMAIN c.events = 1..Len(c.events)
    /\ \A i \in 1..Len(c.events) : c.events[i].lane \in Nat \cup {Nothing}

(* What policy_event_item decides, case by case.                           *)
LEMMA EventDecision ==
    ASSUME NEW man, man.mode \in Modes, man.fallback \in Fallbacks,
           NEW index, NEW e, NEW p
    PROVE  LET it == policy_event_item(man, index, e, p)
           IN  /\ it.index = index /\ it.sample = e.sample /\ it.lane = p.lane
               /\ it.decision \in Decisions
               /\ it.ok = (it.decision # "FailClosed")
               /\ it.predicted = p.predicted /\ it.expected = p.expected
               /\ it.prov.exact = (it.decision \in {"ShadowCompare", "ExactFallback"})
               /\ (it.decision = "SurrogateUsed") =
                      (man.mode = "ApproximateWithTolerance" /\ p.expected = p.predicted)
<1>1. ASSUME NEW d \in Decisions
      PROVE  LET it == EventItem(man, index, e, p, d)
             IN  /\ it.index = index /\ it.sample = e.sample /\ it.lane = p.lane
                 /\ it.decision = d
                 /\ it.ok = (it.decision # "FailClosed")
                 /\ it.predicted = p.predicted /\ it.expected = p.expected
                 /\ it.prov.exact = (it.decision \in {"ShadowCompare", "ExactFallback"})
    BY DEF EventItem, Provenance
<1>2. CASE man.mode = "ShadowCompare"
    <2>1. policy_event_item(man, index, e, p) = EventItem(man, index, e, p, "ShadowCompare")
        BY <1>2 DEF policy_event_item
    <2>2. "ShadowCompare" \in Decisions
        BY DEF Decisions
    <2>3. QED
        BY <1>1, <1>2, <2>1, <2>2
<1>3. CASE man.mode = "TelemetryOnly"
    <2>1. policy_event_item(man, index, e, p) = EventItem(man, index, e, p, "ExactFallback")
        BY <1>3 DEF policy_event_item
    <2>2. "ExactFallback" \in Decisions
        BY DEF Decisions
    <2>3. QED
        BY <1>1, <1>3, <2>1, <2>2
<1>4. CASE man.mode = "ApproximateWithTolerance" /\ p.expected = p.predicted
    <2>1. policy_event_item(man, index, e, p) = EventItem(man, index, e, p, "SurrogateUsed")
        BY <1>4 DEF policy_event_item
    <2>2. "SurrogateUsed" \in Decisions
        BY DEF Decisions
    <2>3. QED
        BY <1>1, <1>4, <2>1, <2>2
<1>5. CASE man.mode = "ApproximateWithTolerance" /\ p.expected # p.predicted
    <2>1. policy_event_item(man, index, e, p) = EventItem(man, index, e, p, man.fallback)
        BY <1>5 DEF policy_event_item
    <2>2. man.fallback \in Decisions /\ man.fallback # "SurrogateUsed"
        BY DEF Decisions, Fallbacks
    <2>3. QED
        BY <1>1, <1>5, <2>1, <2>2
<1>6. QED
    BY <1>2, <1>3, <1>4, <1>5 DEF Modes

EventItemOf(man, c, i, it) ==
    /\ it.index = i - 1 /\ it.lane \in Nat
    /\ it.decision \in Decisions
    /\ it.ok = (it.decision # "FailClosed")
    /\ it.expected = c.events[i].label[man.task.label]
    /\ it.prov.exact = (it.decision \in {"ShadowCompare", "ExactFallback"})
    /\ (it.decision = "SurrogateUsed") =
           (man.mode = "ApproximateWithTolerance" /\ it.expected = it.predicted)

(* Predictions are of a corpus that fits the manifest.                     *)
LEMMA PredictionsOf ==
    ASSUME NEW man, NEW c, Predictions(man, c) # Nothing
    PROVE  /\ validate_manifest(man) /\ validate_event_corpus_shape(man, c)
           /\ DOMAIN Predictions(man, c) = DOMAIN c.events
           /\ \A i \in DOMAIN c.events :
                  /\ Predictions(man, c)[i].lane =
                         IF c.events[i].lane = Nothing THEN 0 ELSE c.events[i].lane
                  /\ Predictions(man, c)[i].expected = c.events[i].label[man.task.label]
<1>1. /\ validate_manifest(man) /\ validate_event_corpus_shape(man, c)
      /\ Predictions(man, c) = event_predictions(man, c)
    BY DEF Predictions
<1> DEFINE guess == [i \in DOMAIN c.events |-> event_prediction(man, c.events[i])]
<1>2. event_predictions(man, c) =
          [i \in DOMAIN guess |->
              [sample    |-> c.events[i].sample,
               lane      |-> IF c.events[i].lane = Nothing THEN 0 ELSE c.events[i].lane,
               expected  |-> c.events[i].label[man.task.label],
               predicted |-> guess[i]]]
    BY <1>1 DEF event_predictions
<1>3. DOMAIN guess = DOMAIN c.events
    OBVIOUS
<1> DEFINE said == Predictions(man, c)
<1>4. said = [i \in DOMAIN guess |->
                 [sample    |-> c.events[i].sample,
                  lane      |-> IF c.events[i].lane = Nothing THEN 0 ELSE c.events[i].lane,
                  expected  |-> c.events[i].label[man.task.label],
                  predicted |-> guess[i]]]
    BY <1>1, <1>2, Zenon
<1> HIDE DEF guess, said
<1>5. DOMAIN said = DOMAIN c.events
    BY <1>3, <1>4
<1>6. ASSUME NEW i \in DOMAIN c.events
      PROVE  /\ said[i].lane = (IF c.events[i].lane = Nothing THEN 0 ELSE c.events[i].lane)
             /\ said[i].expected = c.events[i].label[man.task.label]
    BY <1>3, <1>4
<1>7. QED
    BY <1>1, <1>5, <1>6, Zenon DEF said

(* A policy report has an item for every event, or none.                   *)
LEMMA EventPolicy ==
    ASSUME NEW man \in EventManifests, NEW c, CorpusTyped(c)
    PROVE  LET pol == policy_event_corpus(man, c)
               n   == Len(pol.results)
           IN  /\ n \in Nat /\ Numbered(pol.results, n)
               /\ pol.count = n
               /\ pol.closed = Cardinality({i \in 1..n : pol.results[i].decision = "FailClosed"})
               /\ pol.ok <=> Predictions(man, c) # Nothing /\ pol.closed = 0
               /\ IF Predictions(man, c) = Nothing THEN n = 0
                  ELSE /\ n = Len(c.events)
                       /\ validate_manifest(man) /\ validate_event_corpus_shape(man, c)
                       /\ \A i \in 1..n : EventItemOf(man, c, i, pol.results[i])
<1> DEFINE pol == policy_event_corpus(man, c)
           preds == Predictions(man, c)
           all == OrEmpty(preds)
           item(i) == policy_event_item(man, i - 1, c.events[i], preds[i])
           res == [i \in DOMAIN all |-> item(i)]
           n == IF preds = Nothing THEN 0 ELSE Len(c.events)
<1>1. pol = EventPolicyReport(res, preds # Nothing)
    BY DEF policy_event_corpus
<1>2. n \in Nat /\ DOMAIN all = 1..n
    <2>1. CASE preds = Nothing
        BY <2>1 DEF OrEmpty
    <2>2. CASE preds # Nothing
        BY <2>2, PredictionsOf DEF OrEmpty, CorpusTyped
    <2>3. QED
        BY <2>1, <2>2
<1>3. /\ DOMAIN res = 1..n /\ Len(res) = n
      /\ \A i \in 1..n : res[i] = item(i)
    <2> HIDE DEF all, n
    <2>1. QED
        BY <1>2
<1>4. /\ pol.results = res /\ pol.count = Len(res)
      /\ pol.closed = Cardinality({i \in DOMAIN res : res[i].decision = "FailClosed"})
      /\ pol.ok <=> preds # Nothing /\ pol.closed = 0
    <2> HIDE DEF res, preds
    <2>1. pol = [ok      |-> preds # Nothing
                             /\ CountSeq(res, LAMBDA it : it.decision = "FailClosed") = 0,
                 count   |-> Len(res),
                 used    |-> CountSeq(res, LAMBDA it : it.decision = "SurrogateUsed"),
                 exacts  |-> CountSeq(res, LAMBDA it :
                                          it.decision \in {"ExactFallback", "ShadowCompare"}),
                 closed  |-> CountSeq(res, LAMBDA it : it.decision = "FailClosed"),
                 results |-> res]
        BY <1>1 DEF EventPolicyReport, CountSeq
    <2> HIDE DEF pol
    <2>2. QED
        BY <2>1 DEF CountSeq
<1>5. man.mode \in Modes /\ man.fallback \in Fallbacks
    BY EventTypes
<1>6. \A i \in 1..n : res[i].index = i - 1
    BY <1>3, <1>5, EventDecision
<1>7. ASSUME preds # Nothing, NEW i \in 1..n PROVE EventItemOf(man, c, i, res[i])
    <2>1. n = Len(c.events) /\ DOMAIN c.events = 1..n /\ c.events[i].lane \in Nat \cup {Nothing}
        BY <1>7 DEF CorpusTyped
    <2>2. /\ preds[i].lane = IF c.events[i].lane = Nothing THEN 0 ELSE c.events[i].lane
          /\ preds[i].expected = c.events[i].label[man.task.label]
        BY <1>7, <2>1, PredictionsOf
    <2>3. preds[i].lane \in Nat
        BY <2>1, <2>2
    <2>4. res[i] = policy_event_item(man, i - 1, c.events[i], preds[i])
        BY <1>3
    <2> HIDE DEF res, preds, n
    <2>5. QED
        BY <1>5, <2>2, <2>3, <2>4, EventDecision DEF EventItemOf
<1>8. preds # Nothing => validate_manifest(man) /\ validate_event_corpus_shape(man, c)
    BY PredictionsOf
<1>9. Numbered(res, n)
    <2> HIDE DEF res, n
    <2>1. QED
        BY <1>2, <1>3, <1>6 DEF Numbered
<1>10. n = IF preds = Nothing THEN 0 ELSE Len(c.events)
    OBVIOUS
<1> HIDE DEF pol, preds, res, n
<1>11. n = Len(pol.results)
    BY <1>3, <1>4
<1>12. QED
    BY <1>2, <1>3, <1>4, <1>7, <1>8, <1>9, <1>10, <1>11 DEF pol, preds

-----------------------------------------------------------------------------
(* The event plan and its FAST run.                                        *)

(* What plan_runtime_events_for_workers makes of numbered items.           *)
LEMMA EventPlanOf ==
    ASSUME NEW pol, NEW workers, NEW n \in Nat, Numbered(pol.results, n)
    PROVE  LET p == plan_runtime_events_for_workers(pol, workers)
           IN  /\ p.schema = "event" /\ p.total = TotalLanes(workers)
               /\ p.workers = PlanSummaries(workers, p.items)
               /\ \A k \in DOMAIN p.items : \E i \in 1..n :
                      /\ EventPlannable(pol.results[i], workers)
                      /\ p.items[k] = runtime_event_plan_item(pol.results[i], workers)
               /\ p.ok =>
                      /\ n # 0 /\ pol.closed = 0
                      /\ workers # <<>> /\ validate_runtime_worker_specs(workers)
                      /\ \A i \in 1..n : EventPlannable(pol.results[i], workers)
                      /\ p.items = [k \in 1..n |-> runtime_event_plan_item(pol.results[k], workers)]
                      /\ Numbered(p.items, n)
<1> DEFINE p == plan_runtime_events_for_workers(pol, workers)
           S == {i \in DOMAIN pol.results : EventPlannable(pol.results[i], workers)}
           kept == InOrder(S)
           items == [k \in DOMAIN kept |-> runtime_event_plan_item(pol.results[kept[k]], workers)]
<1>1. n \in Nat /\ DOMAIN pol.results = 1..n /\ S \subseteq 1..n
    BY DEF Numbered
<1>2. /\ p.schema = "event" /\ p.total = TotalLanes(workers)
      /\ p.items = items /\ p.workers = PlanSummaries(workers, p.items)
      /\ p.ok => /\ pol.results # <<>> /\ pol.closed = 0
                 /\ workers # <<>> /\ validate_runtime_worker_specs(workers)
                 /\ \A i \in 1..n : EventPlannable(pol.results[i], workers)
    <2> HIDE DEF items
    <2>1. p = [schema  |-> "event",
               ok      |-> /\ pol.results # <<>>
                           /\ pol.closed = 0
                           /\ workers # <<>>
                           /\ validate_runtime_worker_specs(workers)
                           /\ \A i \in DOMAIN pol.results : EventPlannable(pol.results[i], workers),
               total   |-> TotalLanes(workers),
               workers |-> PlanSummaries(workers, items),
               items   |-> items]
        BY DEF plan_runtime_events_for_workers, items
    <2> HIDE DEF p
    <2>2. QED
        BY <1>1, <2>1
<1>3. DOMAIN kept = 1..Cardinality(S) /\ DOMAIN items = DOMAIN kept
    BY DEF InOrder
<1>4. ASSUME NEW k \in DOMAIN items
      PROVE  \E i \in 1..n : /\ EventPlannable(pol.results[i], workers)
                             /\ items[k] = runtime_event_plan_item(pol.results[i], workers)
    <2>1. kept[k] \in S
        <3> HIDE DEF S, kept
        <3>1. InOrder(S)[k] \in S
            BY <1>1, <1>3, InOrderMembers
        <3>2. QED
            BY <3>1 DEF kept
    <2>2. items[k] = runtime_event_plan_item(pol.results[kept[k]], workers)
        OBVIOUS
    <2> HIDE DEF items, kept
    <2>3. QED
        BY <1>1, <2>1, <2>2
<1>5. ASSUME p.ok
      PROVE  /\ n # 0
             /\ items = [k \in 1..n |-> runtime_event_plan_item(pol.results[k], workers)]
             /\ Numbered(items, n)
    <2>1. S = 1..n
        BY <1>1, <1>2, <1>5
    <2>2. kept = [k \in 1..n |-> k]
        BY <1>1, <2>1, InOrderAll
    <2>3. items = [k \in 1..n |-> runtime_event_plan_item(pol.results[k], workers)]
        BY <2>2
    <2>4. n # 0
        BY <1>1, <1>2, <1>5 DEF Numbered
    <2>5. \A k \in 1..n : items[k].index = k - 1
        <3> SUFFICES ASSUME NEW k \in 1..n PROVE items[k].index = k - 1
            OBVIOUS
        <3>1. items[k] = runtime_event_plan_item(pol.results[k], workers)
            BY <2>3
        <3> HIDE DEF items
        <3>2. runtime_event_plan_item(pol.results[k], workers).index = pol.results[k].index
            BY DEF runtime_event_plan_item
        <3>3. pol.results[k].index = k - 1
            BY DEF Numbered
        <3>4. QED
            BY <3>1, <3>2, <3>3
    <2>6. DOMAIN items = 1..n /\ Len(items) = n
        BY <1>1, <2>3
    <2> HIDE DEF items
    <2>7. QED
        BY <1>1, <2>3, <2>4, <2>5, <2>6 DEF Numbered
<1>6. QED
    <2> HIDE DEF p, items
    <2>1. QED
        BY <1>2, <1>4, <1>5 DEF p

(* A FAST run has an item for every policy item.                           *)
LEMMA FastEventItems ==
    ASSUME NEW pol, NEW n \in Nat, Numbered(pol.results, n), NEW p, NEW opts,
           NEW fast, fast = FastEvents(pol, p, opts)
    PROVE  /\ DOMAIN fast.results = 1..n /\ Len(fast.results) = n
           /\ \A i \in 1..n : fast.results[i] = fast_event_item(pol.results[i], p, opts)
           /\ fast.totals = Tally(fast.results, DOMAIN fast.results)
           /\ fast.workers = WorkerTallies(p.workers, fast.results)
           /\ fast.lanes = LaneTallies(fast.results)
           /\ fast.ok <=> validate_fast_event_plan(pol, p, opts) /\ fast.totals.closed = 0
<1> DEFINE res == [i \in DOMAIN pol.results |-> fast_event_item(pol.results[i], p, opts)]
           valid == validate_fast_event_plan(pol, p, opts)
<1>1. n \in Nat /\ DOMAIN pol.results = 1..n
    BY DEF Numbered
<1>2. /\ DOMAIN res = 1..n /\ Len(res) = n
      /\ \A i \in 1..n : res[i] = fast_event_item(pol.results[i], p, opts)
    BY <1>1
<1>3. fast = FastEventReport(valid, res, p)
    BY DEF FastEvents
<1> HIDE DEF res, valid
<1>4. fast.results = res /\ fast.totals = Tally(res, DOMAIN res)
      /\ fast.workers = WorkerTallies(p.workers, res) /\ fast.lanes = LaneTallies(res)
    BY <1>3 DEF FastEventReport
<1>5. fast.ok = (valid /\ fast.totals.closed = 0)
    <2>1. fast.ok = (valid /\ Tally(res, DOMAIN res).closed = 0)
        BY <1>3 DEF FastEventReport
    <2>2. QED
        BY <1>4, <2>1
<1>6. QED
    BY <1>2, <1>4, <1>5 DEF valid

(* An item is the fresh policy's but for its shadow verdict.               *)
LEMMA FastEventItemFields ==
    ASSUME NEW it, NEW p, NEW opts
    PROVE  LET fast == fast_event_item(it, p, opts)
           IN  /\ fast.index = it.index /\ fast.lane = it.lane /\ fast.decision = it.decision
               /\ fast.source = IF it.decision = "FailClosed" THEN "None"
                                ELSE fast_source_result_for_event_decision(it.decision)
               /\ fast.predicted = it.predicted /\ fast.expected = it.expected
               /\ fast.prov = it.prov
               /\ HasItem(p.items, it.index) => fast.shadow = ItemAt(p.items, it.index).shadow
BY DEF fast_event_item

(* A planned event agrees with the policy item it was made from.           *)
LEMMA PlannedEvent ==
    ASSUME NEW it, NEW workers
    PROVE  LET item == runtime_event_plan_item(it, workers)
           IN  /\ item.index = it.index /\ item.sample = it.sample /\ item.lane = it.lane
               /\ item.decision = it.decision
               /\ item.worker = worker_for_lane(workers, it.lane).id
               /\ item.prov = it.prov
               /\ item.source = fast_source_result_for_event_decision(it.decision)
               /\ item.predicted = it.predicted /\ item.expected = it.expected
               /\ item.shadow = IF it.decision # "ShadowCompare" THEN "none"
                                ELSE IF it.expected = it.predicted THEN "agreed" ELSE "diverged"
BY DEF runtime_event_plan_item

(* A source is the surrogate's only for a replaced event.                  *)
LEMMA EventSourceOf ==
    ASSUME NEW d \in Decisions
    PROVE  /\ fast_source_result_for_event_decision(d) \in {"Surrogate", "Exact"}
           /\ (fast_source_result_for_event_decision(d) = "Surrogate") = (d = "SurrogateUsed")
BY DEF fast_source_result_for_event_decision

(* A valid plan has the items of the policy, one for one.                  *)
LEMMA ValidEventPlan ==
    ASSUME NEW pol, NEW n \in Nat, Numbered(pol.results, n),
           NEW p, NEW k \in Nat, Numbered(p.items, k), NEW opts,
           validate_fast_event_plan(pol, p, opts),
           \A i \in 1..n : pol.results[i].decision # "FailClosed"
    PROVE  /\ n = k
           /\ \A i \in 1..n : /\ HasItem(p.items, pol.results[i].index)
                              /\ ItemAt(p.items, pol.results[i].index) = p.items[i]
                              /\ EventItemsAgree(p.items[i], pol.results[i])
<1>1. \A i \in 1..n : HasItem(p.items, pol.results[i].index)
    BY DEF validate_fast_event_plan, Numbered
<1>2. \A i \in 1..k : HasItem(pol.results, p.items[i].index)
    BY DEF validate_fast_event_plan, Numbered
<1>3. n = k
    BY <1>1, <1>2, NumberedMatch
<1>4. ASSUME NEW i \in 1..n
      PROVE  /\ ItemAt(p.items, pol.results[i].index) = p.items[i]
             /\ EventItemsAgree(p.items[i], pol.results[i])
    <2>1. pol.results[i].index = i - 1
        BY DEF Numbered
    <2>2. ItemAt(p.items, i - 1) = p.items[i]
        BY <1>3, NumberedItemAt
    <2>3. EventItemsAgree(ItemAt(p.items, pol.results[i].index), pol.results[i])
        BY DEF validate_fast_event_plan, Numbered
    <2>4. QED
        BY <2>1, <2>2, <2>3
<1>5. QED
    BY <1>1, <1>3, <1>4

-----------------------------------------------------------------------------
(* What holds of the files of the event pipeline.                          *)

EventPlanMade ==
    plan # Nothing =>
        /\ madeFor.m \in EventManifests /\ CorpusTyped(madeFor.corpus)
        /\ SpecsTyped(madeFor.workers)
        /\ plan = plan_runtime_events_for_workers(
                      policy_event_corpus(madeFor.m, madeFor.corpus), madeFor.workers)

EventFiles ==
    /\ m \in EventManifests
    /\ corpus # Nothing => CorpusTyped(corpus)
    /\ EventPlanMade

(* A plan's items are policy items; an ok plan has them all.               *)
LEMMA EventPlanItems ==
    ASSUME EventPlanMade, plan # Nothing
    PROVE  LET pol == policy_event_corpus(madeFor.m, madeFor.corpus)
               n   == Len(pol.results)
           IN  /\ n \in Nat
               /\ plan.schema = "event" /\ plan.total = TotalLanes(madeFor.workers)
               /\ plan.workers = PlanSummaries(madeFor.workers, plan.items)
               /\ \A k \in DOMAIN plan.items : \E i \in 1..n :
                      /\ EventItemOf(madeFor.m, madeFor.corpus, i, pol.results[i])
                      /\ EventPlannable(pol.results[i], madeFor.workers)
                      /\ plan.items[k] = runtime_event_plan_item(pol.results[i], madeFor.workers)
               /\ plan.ok =>
                      /\ n # 0 /\ n = Len(madeFor.corpus.events)
                      /\ Numbered(plan.items, n)
                      /\ madeFor.workers # <<>>
                      /\ validate_runtime_worker_specs(madeFor.workers)
                      /\ \A i \in 1..n :
                             /\ EventItemOf(madeFor.m, madeFor.corpus, i, pol.results[i])
                             /\ EventPlannable(pol.results[i], madeFor.workers)
                             /\ plan.items[i] =
                                    runtime_event_plan_item(pol.results[i], madeFor.workers)
<1> DEFINE pol == policy_event_corpus(madeFor.m, madeFor.corpus)
           n   == Len(pol.results)
           workers == madeFor.workers
<1>1. plan = plan_runtime_events_for_workers(pol, workers)
    BY DEF EventPlanMade
<1>2. /\ n \in Nat /\ Numbered(pol.results, n)
      /\ \A i \in 1..n : EventItemOf(madeFor.m, madeFor.corpus, i, pol.results[i])
      /\ n # 0 => n = Len(madeFor.corpus.events)
    <2>1. /\ n \in Nat /\ Numbered(pol.results, n)
          /\ IF Predictions(madeFor.m, madeFor.corpus) = Nothing THEN n = 0
             ELSE /\ n = Len(madeFor.corpus.events)
                  /\ \A i \in 1..n : EventItemOf(madeFor.m, madeFor.corpus, i, pol.results[i])
        BY EventPolicy DEF EventPlanMade
    <2> HIDE DEF pol, n
    <2>2. QED
        BY <2>1
<1> HIDE DEF pol, n, workers
<1>3. /\ plan.schema = "event" /\ plan.total = TotalLanes(workers)
      /\ plan.workers = PlanSummaries(workers, plan.items)
      /\ \A k \in DOMAIN plan.items : \E i \in 1..n :
             /\ EventPlannable(pol.results[i], workers)
             /\ plan.items[k] = runtime_event_plan_item(pol.results[i], workers)
      /\ plan.ok =>
             /\ n # 0 /\ pol.closed = 0
             /\ workers # <<>> /\ validate_runtime_worker_specs(workers)
             /\ \A i \in 1..n : EventPlannable(pol.results[i], workers)
             /\ plan.items = [k \in 1..n |-> runtime_event_plan_item(pol.results[k], workers)]
             /\ Numbered(plan.items, n)
    BY <1>1, <1>2, EventPlanOf
<1>4. QED
    BY <1>2, <1>3 DEF pol, n, workers

(* A FAST run of the files on disk.                                        *)
LEMMA FastEventRunItems ==
    ASSUME EventFiles, plan # Nothing, NEW fast \in FastEventRuns
    PROVE  LET pol == policy_event_corpus(m, corpus)
               n   == Len(pol.results)
           IN  \E opts \in EventSamplings :
                   /\ fast = run_fast_event_corpus_with_options(m, corpus, plan, opts)
                   /\ CorpusTyped(corpus)
                   /\ n \in Nat /\ DOMAIN fast.results = 1..n /\ Len(fast.results) = n
                   /\ n # 0 => /\ n = Len(corpus.events)
                               /\ validate_manifest(m) /\ validate_event_corpus_shape(m, corpus)
                   /\ \A i \in 1..n :
                          /\ fast.results[i] = fast_event_item(pol.results[i], plan, opts)
                          /\ EventItemOf(m, corpus, i, pol.results[i])
                   /\ fast.totals = Tally(fast.results, DOMAIN fast.results)
                   /\ fast.workers = WorkerTallies(plan.workers, fast.results)
                   /\ fast.lanes = LaneTallies(fast.results)
                   /\ fast.ok => /\ validate_fast_event_plan(pol, plan, opts)
                                 /\ \A i \in 1..n : pol.results[i].decision # "FailClosed"
<1> DEFINE pol == policy_event_corpus(m, corpus)
           n   == Len(pol.results)
<1>1. PICK opts \in EventSamplings :
          fast = run_fast_event_corpus_with_options(m, corpus, plan, opts)
    BY DEF FastEventRuns
<1>2. fast = FastEvents(pol, plan, opts)
    BY <1>1 DEF run_fast_event_corpus_with_options
<1>3. CorpusTyped(corpus) /\ m \in EventManifests
    BY DEF FastEventRuns, EventFiles
<1>4. /\ n \in Nat /\ Numbered(pol.results, n)
      /\ n # 0 => /\ n = Len(corpus.events)
                  /\ validate_manifest(m) /\ validate_event_corpus_shape(m, corpus)
      /\ \A i \in 1..n : EventItemOf(m, corpus, i, pol.results[i])
    <2>1. /\ n \in Nat /\ Numbered(pol.results, n)
          /\ IF Predictions(m, corpus) = Nothing THEN n = 0
             ELSE /\ n = Len(corpus.events)
                  /\ validate_manifest(m) /\ validate_event_corpus_shape(m, corpus)
                  /\ \A i \in 1..n : EventItemOf(m, corpus, i, pol.results[i])
        BY <1>3, EventPolicy
    <2> HIDE DEF pol, n
    <2>2. QED
        BY <2>1
<1> HIDE DEF pol, n
<1>5. /\ DOMAIN fast.results = 1..n /\ Len(fast.results) = n
      /\ \A i \in 1..n : fast.results[i] = fast_event_item(pol.results[i], plan, opts)
      /\ fast.totals = Tally(fast.results, DOMAIN fast.results)
      /\ fast.workers = WorkerTallies(plan.workers, fast.results)
      /\ fast.lanes = LaneTallies(fast.results)
      /\ fast.ok => validate_fast_event_plan(pol, plan, opts) /\ fast.totals.closed = 0
    <2>1. n \in Nat /\ Numbered(pol.results, n)
        BY <1>4
    <2>2. QED
        BY <1>2, <2>1, FastEventItems
<1>6. ASSUME fast.ok PROVE \A i \in 1..n : pol.results[i].decision # "FailClosed"
    <2>1. \A i \in 1..n : fast.results[i].decision # "FailClosed"
        <3>1. Tally(fast.results, DOMAIN fast.results).closed = 0
            BY <1>5, <1>6
        <3>2. QED
            BY <1>4, <1>5, <3>1, TallyClosed
    <2>2. \A i \in 1..n : fast.results[i].decision = pol.results[i].decision
        BY <1>5, FastEventItemFields
    <2>3. QED
        BY <2>1, <2>2
<1>7. QED
    BY <1>1, <1>3, <1>4, <1>5, <1>6 DEF pol, n

-----------------------------------------------------------------------------
(* The event policy is safe whatever files are on disk.                    *)

(* ReplacedOnlyWhenRight, of the files on disk.                            *)
LEMMA EventsRight == EventFiles => ReplacedOnlyWhenRight
<1> SUFFICES ASSUME EventFiles, plan # Nothing, NEW fast \in FastEventRuns,
                    NEW i \in DOMAIN fast.results
             PROVE  /\ fast.results[i].source = "Surrogate" =>
                           /\ fast.results[i].predicted = corpus.events[i].label[m.task.label]
                           /\ m.mode = "ApproximateWithTolerance"
                           /\ m.artifact = "match"
                           /\ corpus.hash = m.hash
                           /\ corpus.events[i].window = m.task.window
                    /\ fast.results[i].source # "None" =>
                           fast.results[i].prov.exact = (fast.results[i].source = "Exact")
    BY DEF ReplacedOnlyWhenRight
<1> DEFINE it == policy_event_corpus(m, corpus).results[i]
<1>1. PICK opts \in EventSamplings :
          /\ fast.results[i] = fast_event_item(it, plan, opts)
          /\ EventItemOf(m, corpus, i, it)
          /\ validate_manifest(m) /\ validate_event_corpus_shape(m, corpus)
          /\ i \in 1..Len(corpus.events) /\ CorpusTyped(corpus)
    <2> DEFINE n == Len(policy_event_corpus(m, corpus).results)
    <2>1. PICK opts \in EventSamplings :
              /\ CorpusTyped(corpus)
              /\ n \in Nat /\ DOMAIN fast.results = 1..n
              /\ n # 0 => /\ n = Len(corpus.events)
                          /\ validate_manifest(m) /\ validate_event_corpus_shape(m, corpus)
              /\ \A j \in 1..n :
                     /\ fast.results[j] =
                            fast_event_item(policy_event_corpus(m, corpus).results[j], plan, opts)
                     /\ EventItemOf(m, corpus, j, policy_event_corpus(m, corpus).results[j])
        BY FastEventRunItems
    <2> HIDE DEF n
    <2>2. i \in 1..n /\ n # 0
        BY <2>1
    <2>3. QED
        BY <2>1, <2>2
<1> HIDE DEF it
<1>2. it.decision \in Decisions
    BY <1>1 DEF EventItemOf
<1>3. /\ fast.results[i].source = IF it.decision = "FailClosed" THEN "None"
                                  ELSE fast_source_result_for_event_decision(it.decision)
      /\ fast.results[i].predicted = it.predicted
      /\ fast.results[i].prov = it.prov
    BY <1>1, FastEventItemFields
<1>4. ASSUME fast.results[i].source = "Surrogate"
      PROVE  /\ fast.results[i].predicted = corpus.events[i].label[m.task.label]
             /\ m.mode = "ApproximateWithTolerance"
             /\ m.artifact = "match"
             /\ corpus.hash = m.hash
             /\ corpus.events[i].window = m.task.window
    <2>1. it.decision = "SurrogateUsed"
        BY <1>2, <1>3, <1>4, EventSourceOf
    <2>2. /\ m.mode = "ApproximateWithTolerance" /\ it.expected = it.predicted
          /\ it.expected = corpus.events[i].label[m.task.label]
        BY <1>1, <2>1 DEF EventItemOf
    <2>3. m.artifact = "match"
        BY <1>1 DEF validate_manifest
    <2>4. corpus.hash = m.hash /\ corpus.events[i].window = m.task.window
        BY <1>1 DEF validate_event_corpus_shape, CorpusTyped
    <2>5. QED
        BY <1>3, <2>2, <2>3, <2>4
<1>5. ASSUME fast.results[i].source # "None"
      PROVE  fast.results[i].prov.exact = (fast.results[i].source = "Exact")
    <2>1. it.decision # "FailClosed"
        BY <1>3, <1>5
    <2>2. (fast.results[i].source = "Surrogate") = (it.decision = "SurrogateUsed")
          /\ fast.results[i].source \in {"Surrogate", "Exact"}
        BY <1>2, <1>3, <2>1, EventSourceOf
    <2>3. it.prov.exact = (it.decision \in {"ShadowCompare", "ExactFallback"})
        BY <1>1 DEF EventItemOf
    <2>4. (it.decision \in {"ShadowCompare", "ExactFallback"}) = (fast.results[i].source = "Exact")
        BY <1>2, <2>1, <2>2 DEF Decisions
    <2>5. QED
        BY <1>3, <2>3, <2>4
<1>6. QED
    BY <1>4, <1>5

(* A FAST run that is ok has the items of its plan, one for one.           *)
LEMMA FastEventRunOk ==
    ASSUME EventFiles, plan # Nothing, NEW fast \in FastEventRuns, fast.ok
    PROVE  /\ policy_event_corpus(m, corpus).ok
           /\ Len(fast.results) = Len(corpus.events)
           /\ Len(plan.items) = Len(fast.results)
           /\ \A i \in DOMAIN fast.results :
                  /\ plan.items[i].lane = fast.results[i].lane
                  /\ fast.results[i].shadow =
                         IF fast.results[i].decision # "ShadowCompare" THEN "none"
                         ELSE IF fast.results[i].predicted = fast.results[i].expected
                              THEN "agreed" ELSE "diverged"
<1> DEFINE pol == policy_event_corpus(m, corpus)
           n == Len(pol.results)
           own == policy_event_corpus(madeFor.m, madeFor.corpus)
           k == Len(own.results)
<1>1. PICK opts \in EventSamplings :
          /\ CorpusTyped(corpus)
          /\ n \in Nat /\ DOMAIN fast.results = 1..n /\ Len(fast.results) = n
          /\ n # 0 => n = Len(corpus.events)
          /\ \A i \in 1..n : fast.results[i] = fast_event_item(pol.results[i], plan, opts)
          /\ validate_fast_event_plan(pol, plan, opts)
          /\ \A i \in 1..n : pol.results[i].decision # "FailClosed"
    BY FastEventRunItems
<1>2. plan.ok
    BY <1>1 DEF validate_fast_event_plan
<1>3. /\ k \in Nat /\ k # 0 /\ Numbered(plan.items, k)
      /\ \A i \in 1..k : plan.items[i] = runtime_event_plan_item(own.results[i], madeFor.workers)
    BY <1>2, EventPlanItems DEF EventFiles
<1>4. /\ Numbered(pol.results, n)
      /\ pol.closed = Cardinality({i \in 1..n : pol.results[i].decision = "FailClosed"})
      /\ pol.ok <=> Predictions(m, corpus) # Nothing /\ pol.closed = 0
      /\ Predictions(m, corpus) = Nothing => n = 0
    <2>1. m \in EventManifests
        BY DEF EventFiles
    <2>2. QED
        BY <1>1, <2>1, EventPolicy
<1> HIDE DEF pol, n, own, k
<1>5. /\ n = k
      /\ \A i \in 1..n : /\ HasItem(plan.items, pol.results[i].index)
                         /\ ItemAt(plan.items, pol.results[i].index) = plan.items[i]
                         /\ EventItemsAgree(plan.items[i], pol.results[i])
    <2>1. /\ n \in Nat /\ validate_fast_event_plan(pol, plan, opts)
          /\ \A i \in 1..n : pol.results[i].decision # "FailClosed"
        BY <1>1
    <2>2. k \in Nat /\ Numbered(plan.items, k)
        BY <1>3
    <2>3. n = k
        BY <1>4, <2>1, <2>2, ValidEventPlan
    <2>4. QED
        BY <1>4, <2>1, <2>2, <2>3, ValidEventPlan
<1>6. pol.ok
    <2>1. {i \in 1..n : pol.results[i].decision = "FailClosed"} = {}
        BY <1>1
    <2>2. pol.closed = 0
        BY <1>4, <2>1, FS_EmptySet
    <2>3. QED
        BY <1>3, <1>4, <1>5, <2>2
<1>7. Len(plan.items) = n
    BY <1>3, <1>5 DEF Numbered
<1>8. ASSUME NEW i \in 1..n
      PROVE  /\ plan.items[i].lane = fast.results[i].lane
             /\ fast.results[i].shadow =
                    IF fast.results[i].decision # "ShadowCompare" THEN "none"
                    ELSE IF fast.results[i].predicted = fast.results[i].expected
                         THEN "agreed" ELSE "diverged"
    <2> DEFINE it == pol.results[i]
               planned == plan.items[i]
    <2>1. /\ planned.lane = it.lane /\ planned.decision = it.decision
          /\ planned.predicted = it.predicted /\ planned.expected = it.expected
        BY <1>5 DEF EventItemsAgree
    <2>2. planned.shadow = IF planned.decision # "ShadowCompare" THEN "none"
                           ELSE IF planned.expected = planned.predicted
                                THEN "agreed" ELSE "diverged"
        BY <1>3, <1>5, PlannedEvent
    <2>3. /\ fast.results[i].lane = it.lane /\ fast.results[i].decision = it.decision
          /\ fast.results[i].predicted = it.predicted /\ fast.results[i].expected = it.expected
          /\ fast.results[i].shadow = planned.shadow
        BY <1>1, <1>5, FastEventItemFields
    <2> HIDE DEF it, planned
    <2>4. QED
        BY <2>1, <2>2, <2>3 DEF planned
<1>9. QED
    BY <1>1, <1>3, <1>5, <1>6, <1>7, <1>8 DEF pol

(* FastOkMeansFresh, of the files on disk.                                 *)
LEMMA EventsFresh == EventFiles => FastOkMeansFresh
BY FastEventRunOk DEF FastOkMeansFresh

(* EventPolicySafe, of the files on disk.                                  *)
LEMMA EventPolicyIsSafe == EventFiles => EventPolicySafe
BY EventsRight, EventsFresh DEF EventPolicySafe

-----------------------------------------------------------------------------
(* An event plan is accepted where it comes from.                          *)

(* An ok plan is valid for the policy it was made from.                    *)
LEMMA OwnEventPlanValid ==
    ASSUME NEW pol, NEW n \in Nat, Numbered(pol.results, n), pol.count = n,
           NEW p, Numbered(p.items, n), p.schema = "event", p.ok,
           NEW workers, p.total = TotalLanes(workers),
           \A i \in 1..n : /\ EventPlannable(pol.results[i], workers)
                           /\ p.items[i] = runtime_event_plan_item(pol.results[i], workers),
           NEW opts, opts.stride # 0
    PROVE  validate_fast_event_plan(pol, p, opts)
<1>1. DOMAIN pol.results = 1..n /\ DOMAIN p.items = 1..n /\ Len(pol.results) = n
    BY DEF Numbered
<1>2. \A i \in 1..n : pol.results[i].index = i - 1 /\ p.items[i].index = i - 1
    BY DEF Numbered
<1>3. \A i, j \in 1..n : i # j => i - 1 # j - 1
    OBVIOUS
<1>4. ASSUME NEW i \in 1..n
      PROVE  LET it == pol.results[i]
             IN  /\ it.lane < p.total
                 /\ it.decision # "FailClosed"
                 /\ HasItem(p.items, it.index) /\ EventItemsAgree(ItemAt(p.items, it.index), it)
                 /\ HasItem(pol.results, p.items[i].index)
                 /\ ItemAt(pol.results, p.items[i].index).decision # "FailClosed"
    <2>1. pol.results[i].lane < p.total /\ pol.results[i].decision # "FailClosed"
        BY DEF EventPlannable
    <2>2. /\ HasItem(p.items, i - 1) /\ ItemAt(p.items, i - 1) = p.items[i]
          /\ HasItem(pol.results, i - 1) /\ ItemAt(pol.results, i - 1) = pol.results[i]
        BY NumberedItemAt
    <2>3. EventItemsAgree(p.items[i], pol.results[i])
        BY PlannedEvent DEF EventItemsAgree
    <2>4. QED
        BY <1>2, <2>1, <2>2, <2>3
<1>5. QED
    BY <1>1, <1>2, <1>3, <1>4, SMTT(45) DEF validate_fast_event_plan

(* An ok plan gives an ok FAST run of its own files.                       *)
LEMMA OwnEventRunOk ==
    ASSUME EventFiles, plan # Nothing, plan.ok, madeFor.m = m, madeFor.corpus = corpus,
           NEW opts, opts.stride # 0
    PROVE  run_fast_event_corpus_with_options(m, corpus, plan, opts).ok
<1> DEFINE pol == policy_event_corpus(m, corpus)
           n == Len(pol.results)
           workers == madeFor.workers
           fast == FastEvents(pol, plan, opts)
<1>1. Numbered(pol.results, n) /\ pol.count = n /\ n \in Nat
    BY EventPolicy DEF EventFiles, EventPlanMade
<1>2. /\ plan.schema = "event" /\ plan.total = TotalLanes(workers)
      /\ Numbered(plan.items, n)
      /\ \A i \in 1..n : /\ EventPlannable(pol.results[i], workers)
                         /\ plan.items[i] = runtime_event_plan_item(pol.results[i], workers)
    BY EventPlanItems DEF EventFiles
<1>3. fast = run_fast_event_corpus_with_options(m, corpus, plan, opts)
    BY DEF run_fast_event_corpus_with_options
<1> HIDE DEF pol, n, workers, fast
<1>4. validate_fast_event_plan(pol, plan, opts)
    BY <1>1, <1>2, OwnEventPlanValid
<1>5. /\ DOMAIN fast.results = 1..n
      /\ \A i \in 1..n : fast.results[i] = fast_event_item(pol.results[i], plan, opts)
      /\ fast.totals = Tally(fast.results, DOMAIN fast.results)
      /\ fast.ok <=> validate_fast_event_plan(pol, plan, opts) /\ fast.totals.closed = 0
    <2>1. fast = FastEvents(pol, plan, opts)
        BY DEF fast
    <2>2. QED
        BY <1>1, <2>1, FastEventItems
<1>6. ASSUME NEW i \in 1..n PROVE fast.results[i].decision # "FailClosed"
    <2>1. pol.results[i].decision # "FailClosed"
        BY <1>2 DEF EventPlannable
    <2>2. QED
        BY <1>5, <2>1, FastEventItemFields
<1>7. fast.totals.closed = 0
    <2>1. Tally(fast.results, DOMAIN fast.results).closed = 0
        BY <1>1, <1>5, <1>6, TallyClosed
    <2>2. QED
        BY <1>5, <2>1
<1>8. QED
    BY <1>3, <1>4, <1>5, <1>7

(* What an event plan's items are.                                         *)
LEMMA EventItemsTyped ==
    ASSUME EventFiles, plan # Nothing, NEW i \in DOMAIN plan.items
    PROVE  /\ plan.items[i].lane \in Nat
           /\ plan.items[i].source \in {"Surrogate", "Exact"}
           /\ plan.items[i].prov.exact = (plan.items[i].source = "Exact")
<1>1. PICK it, j : /\ EventItemOf(madeFor.m, madeFor.corpus, j, it)
                   /\ EventPlannable(it, madeFor.workers)
                   /\ plan.items[i] = runtime_event_plan_item(it, madeFor.workers)
    BY EventPlanItems DEF EventFiles
<1>2. /\ plan.items[i].lane = it.lane
      /\ plan.items[i].prov = it.prov
      /\ plan.items[i].source = fast_source_result_for_event_decision(it.decision)
    BY <1>1, PlannedEvent
<1>3. it.decision \in Decisions /\ it.lane \in Nat
    BY <1>1 DEF EventItemOf
<1>4. it.prov.exact = (it.decision # "SurrogateUsed")
    BY <1>1 DEF EventPlannable
<1>5. /\ plan.items[i].source \in {"Surrogate", "Exact"}
      /\ (plan.items[i].source = "Surrogate") = (it.decision = "SurrogateUsed")
    BY <1>2, <1>3, EventSourceOf
<1>6. (it.decision # "SurrogateUsed") = (plan.items[i].source = "Exact")
    BY <1>5
<1>7. QED
    BY <1>2, <1>3, <1>4, <1>5, <1>6

(* An ok plan attaches to the shards it was made for.                      *)
LEMMA OwnEventPlanAttaches ==
    ASSUME EventFiles, plan # Nothing, plan.ok, NEW topology \in Topologies,
           ShardsOf(topology) = madeFor.workers
    PROVE  event_plan_attaches(ShardsOf(topology), plan)
<1> DEFINE ws == madeFor.workers
           n == Len(policy_event_corpus(madeFor.m, madeFor.corpus).results)
<1>1. SpecsTyped(ws)
    BY DEF EventFiles, EventPlanMade
<1>2. /\ plan.schema = "event" /\ plan.total = TotalLanes(ws)
      /\ plan.workers = PlanSummaries(ws, plan.items)
      /\ Numbered(plan.items, n)
      /\ ws # <<>> /\ validate_runtime_worker_specs(ws)
      /\ \A i \in 1..n : \E it :
             /\ EventPlannable(it, ws)
             /\ plan.items[i] = runtime_event_plan_item(it, ws)
    BY EventPlanItems DEF EventFiles
<1> HIDE DEF ws, n
<1>3. DOMAIN plan.items = 1..n
    BY <1>2 DEF Numbered
<1>4. \A i \in DOMAIN plan.items :
          /\ Covered(ws, plan.items[i].lane)
          /\ plan.items[i].worker = worker_for_lane(ws, plan.items[i].lane).id
    BY <1>2, <1>3, PlannedEvent DEF EventPlannable
<1>5. /\ plan.total = LanesOf(ws)
      /\ runtime_shards_by_worker(ws)
      /\ WorkersMatch(ws, plan.workers)
      /\ \A i \in DOMAIN plan.items : ItemOnItsShard(ws, plan.items[i])
      /\ SummariesMatch(plan)
    BY <1>1, <1>2, <1>4, OwnShards
<1>6. \A i \in DOMAIN plan.items : ProvenanceFits(plan.items[i])
    BY EventItemsTyped DEF ProvenanceFits
<1>7. QED
    BY <1>2, <1>5, <1>6 DEF event_plan_attaches, ws

(* OwnEventPlanAccepted, of the files on disk.                             *)
LEMMA EventOwnPlan == EventFiles => OwnEventPlanAccepted
<1> SUFFICES ASSUME EventFiles, plan # Nothing, plan.ok PROVE OwnEventPlanAccepted
    BY DEF OwnEventPlanAccepted
<1>1. Len(plan.items) = Len(madeFor.corpus.events)
    BY EventPlanItems DEF EventFiles, Numbered
<1>2. QED
    BY <1>1, OwnEventRunOk, OwnEventPlanAttaches DEF OwnEventPlanAccepted

-----------------------------------------------------------------------------
(* Counts by class add up.                                                 *)

(* Disjoint sets are counted one after the other.                          *)
LEMMA DisjointUnion ==
    ASSUME NEW A, NEW B, IsFiniteSet(A), IsFiniteSet(B), A \cap B = {}
    PROVE  /\ Cardinality(A \cup B) = Cardinality(A) + Cardinality(B)
           /\ Cardinality(A) \in Nat /\ Cardinality(B) \in Nat
<1>1. Cardinality(A \cup B) = Cardinality(A) + Cardinality(B) - Cardinality(A \cap B)
    BY FS_Union
<1>2. Cardinality(A) \in Nat /\ Cardinality(B) \in Nat
    BY FS_CardinalityType
<1>3. Cardinality(A \cap B) = 0
    BY FS_EmptySet
<1>4. QED
    BY <1>1, <1>2, <1>3

ClassOf(T, f, k) == {i \in T : f[i] = k}

ClassesUpto(T, f, k) == {i \in T : f[i] \in 1..k}

(* The sizes of the classes of a set add up to its size.                   *)
LEMMA PartitionSum ==
    ASSUME NEW T, IsFiniteSet(T), NEW f, NEW s, Len(s) \in Nat,
           \A i \in T : f[i] \in 1..Len(s),
           \A k \in 1..Len(s) : s[k] = Cardinality(ClassOf(T, f, k))
    PROVE  SumOf(s) = Cardinality(T)
<1> DEFINE S == {k \in Nat : k <= Len(s) => Sums(s)[k] = Cardinality(ClassesUpto(T, f, k))}
<1>1. \A k : IsFiniteSet(ClassesUpto(T, f, k)) /\ IsFiniteSet(ClassOf(T, f, k))
    BY FS_Subset DEF ClassOf, ClassesUpto
<1>2. Sums(s)[0] = 0 /\ \A i \in 1..Len(s) : Sums(s)[i] = Sums(s)[i - 1] + s[i]
    BY SumsStep
<1>3. 0 \in S
    <2>1. ClassesUpto(T, f, 0) = {}
        BY DEF ClassesUpto
    <2>2. QED
        BY <1>2, <2>1, FS_EmptySet
<1>4. ASSUME NEW k \in Nat, k \in S PROVE k + 1 \in S
    <2>1. CASE k + 1 <= Len(s)
        <3> DEFINE A == ClassesUpto(T, f, k)
                   B == ClassOf(T, f, k + 1)
        <3>1. Sums(s)[k] = Cardinality(A) /\ k + 1 \in 1..Len(s) /\ (k + 1) - 1 = k
            BY <1>4, <2>1
        <3>2. Sums(s)[k + 1] = Cardinality(A) + Cardinality(B)
            BY <1>2, <3>1
        <3>3. ClassesUpto(T, f, k + 1) = A \cup B /\ A \cap B = {}
            BY DEF ClassOf, ClassesUpto
        <3>4. IsFiniteSet(A) /\ IsFiniteSet(B)
            BY <1>1
        <3> HIDE DEF A, B
        <3>5. Cardinality(A \cup B) = Cardinality(A) + Cardinality(B)
            BY <3>3, <3>4, DisjointUnion
        <3>6. Sums(s)[k + 1] = Cardinality(ClassesUpto(T, f, k + 1))
            BY <3>2, <3>3, <3>5
        <3>7. QED
            BY <3>6
    <2>2. QED
        BY <2>1
<1>5. Len(s) \in S
    <2> HIDE DEF S
    <2>1. QED
        BY <1>3, <1>4, NatSetInduction
<1>6. ClassesUpto(T, f, Len(s)) = T
    BY DEF ClassesUpto
<1>7. Sums(s)[Len(s)] = Cardinality(ClassesUpto(T, f, Len(s)))
    BY <1>5
<1>8. QED
    BY <1>6, <1>7 DEF SumOf

Counted(items, S, field) ==
    CASE field = "items"    -> S
      [] field = "replaced" -> {i \in S : items[i].source = "Surrogate"}
      [] field = "exacts"   -> {i \in S : items[i].source = "Exact"}
      [] field = "closed"   -> {i \in S : items[i].decision = "FailClosed"}
      [] field = "compared" -> {i \in S : items[i].shadow # "none"}
      [] field = "failed"   -> {i \in S : items[i].shadow = "diverged"}

(* A tally counts the items that count.                                    *)
LEMMA TallyOf ==
    ASSUME NEW items, NEW S, NEW field \in Counters
    PROVE  Tally(items, S)[field] = Cardinality(Counted(items, S, field))
<1>1. CASE field = "items"
    BY <1>1 DEF Tally, Counted
<1>2. CASE field = "replaced"
    BY <1>2 DEF Tally, Counted
<1>3. CASE field = "exacts"
    BY <1>3 DEF Tally, Counted
<1>4. CASE field = "closed"
    BY <1>4 DEF Tally, Counted
<1>5. CASE field = "compared"
    BY <1>5 DEF Tally, Counted
<1>6. CASE field = "failed"
    BY <1>6 DEF Tally, Counted
<1>7. QED
    BY <1>1, <1>2, <1>3, <1>4, <1>5, <1>6 DEF Counters

(* Of a class, the items that count are the class's.                       *)
LEMMA CountedPart ==
    ASSUME NEW items, NEW S, NEW f, NEW k, NEW field \in Counters
    PROVE  /\ Counted(items, S, field) \subseteq S
           /\ Counted(items, ClassOf(S, f, k), field) = ClassOf(Counted(items, S, field), f, k)
<1>1. CASE field = "items"
    BY <1>1 DEF Counted, ClassOf
<1>2. CASE field = "replaced"
    BY <1>2 DEF Counted, ClassOf
<1>3. CASE field = "exacts"
    BY <1>3 DEF Counted, ClassOf
<1>4. CASE field = "closed"
    BY <1>4 DEF Counted, ClassOf
<1>5. CASE field = "compared"
    BY <1>5 DEF Counted, ClassOf
<1>6. CASE field = "failed"
    BY <1>6 DEF Counted, ClassOf
<1>7. QED
    BY <1>1, <1>2, <1>3, <1>4, <1>5, <1>6 DEF Counters

TalliesByClass(items, f, s, field) ==
    /\ IsFiniteSet(DOMAIN items) /\ Len(s) \in Nat
    /\ \A i \in DOMAIN items : f[i] \in 1..Len(s)
    /\ \A k \in 1..Len(s) : s[k] = Tally(items, ClassOf(DOMAIN items, f, k))[field]

(* A tally is the sum of the tallies of the classes.                       *)
LEMMA TallyPartition ==
    ASSUME NEW items, NEW f, NEW s, NEW field \in Counters,
           TalliesByClass(items, f, s, field)
    PROVE  SumOf(s) = Tally(items, DOMAIN items)[field]
<1> DEFINE T == Counted(items, DOMAIN items, field)
<1> USE DEF TalliesByClass
<1>1. T \subseteq DOMAIN items /\ IsFiniteSet(T)
    <2>1. T \subseteq DOMAIN items
        BY CountedPart
    <2>2. QED
        BY <2>1, FS_Subset
<1>2. ASSUME NEW k \in 1..Len(s) PROVE s[k] = Cardinality(ClassOf(T, f, k))
    <2>1. s[k] = Cardinality(Counted(items, ClassOf(DOMAIN items, f, k), field))
        BY TallyOf
    <2>2. Counted(items, ClassOf(DOMAIN items, f, k), field) = ClassOf(T, f, k)
        BY CountedPart
    <2>3. QED
        BY <2>1, <2>2
<1>3. Tally(items, DOMAIN items)[field] = Cardinality(T)
    BY TallyOf
<1> HIDE DEF T
<1>4. \A i \in T : f[i] \in 1..Len(s)
    BY <1>1
<1>5. SumOf(s) = Cardinality(T)
    BY <1>1, <1>2, <1>4, PartitionSum
<1>6. QED
    BY <1>3, <1>5

-----------------------------------------------------------------------------
(* The workers' and the lanes' counters.                                   *)

(* Workers' tallies add up when each item lies on some lane.               *)
LEMMA WorkersAddUp ==
    ASSUME NEW ws, SpecsTyped(ws), Contiguous(ws),
           NEW items, IsFiniteSet(DOMAIN items),
           \A i \in DOMAIN items : items[i].lane \in Nat /\ Covered(ws, items[i].lane),
           NEW tallies, tallies = WorkerTallies(ws, items), NEW field \in Counters
    PROVE  SumOf([k \in DOMAIN tallies |-> tallies[k].counts[field]]) =
               Tally(items, DOMAIN items)[field]
<1> DEFINE N == Len(ws)
           f == [i \in DOMAIN items |-> CHOOSE k \in 1..N : Covers(ws[k], items[i].lane)]
           s == [k \in DOMAIN tallies |-> tallies[k].counts[field]]
<1>1. N \in Nat /\ DOMAIN ws = 1..N
    BY DEF SpecsTyped
<1>2. tallies = [k \in 1..N |-> [id     |-> ws[k].id,
                                 start  |-> ws[k].start,
                                 lanes  |-> ws[k].lanes,
                                 counts |-> Tally(items, OnWorker(items, ws[k]))]]
    BY <1>1 DEF WorkerTallies
<1>3. DOMAIN tallies = 1..N /\ \A k \in 1..N : tallies[k].counts = Tally(items, OnWorker(items, ws[k]))
    BY <1>2
<1>4. /\ Len(s) = N
      /\ \A k \in 1..N : s[k] = Tally(items, OnWorker(items, ws[k]))[field]
    BY <1>1, <1>3
<1>5. ASSUME NEW i \in DOMAIN items
      PROVE  /\ f[i] \in 1..N
             /\ \A k \in 1..N : Covers(ws[k], items[i].lane) <=> f[i] = k
    <2>1. PICK j \in 1..N : Covers(ws[j], items[i].lane)
        BY <1>1 DEF Covered
    <2>2. f[i] \in 1..N /\ Covers(ws[f[i]], items[i].lane)
        BY <2>1
    <2>3. items[i].lane \in Nat
        OBVIOUS
    <2> HIDE DEF f
    <2>4. \A k \in 1..N : Covers(ws[k], items[i].lane) => k = f[i]
        BY <2>2, <2>3, OneOwner
    <2>5. QED
        BY <2>2, <2>4
<1> HIDE DEF f, s, N
<1>6. \A k \in 1..N : OnWorker(items, ws[k]) = ClassOf(DOMAIN items, f, k)
    BY <1>5 DEF OnWorker, ClassOf
<1>7. \A k \in 1..N : s[k] = Tally(items, ClassOf(DOMAIN items, f, k))[field]
    BY <1>4, <1>6
<1>8. SumOf(s) = Tally(items, DOMAIN items)[field]
    <2>1. Len(s) \in Nat /\ \A i \in DOMAIN items : f[i] \in 1..Len(s)
        BY <1>1, <1>4, <1>5
    <2>2. \A k \in 1..Len(s) : s[k] = Tally(items, ClassOf(DOMAIN items, f, k))[field]
        BY <1>4, <1>7
    <2>3. TalliesByClass(items, f, s, field)
        BY <2>1, <2>2 DEF TalliesByClass
    <2>4. QED
        BY <2>3, TallyPartition
<1>9. QED
    BY <1>8 DEF s

LaneFunction(items) == [i \in DOMAIN items |-> items[i].lane]

(* What is counted lane by lane adds up to what is counted.                *)
LEMMA LanesSum ==
    ASSUME NEW items, IsFiniteSet(DOMAIN items),
           \A i \in DOMAIN items : items[i].lane \in Nat,
           NEW T, T \subseteq DOMAIN items,
           NEW lanes, DOMAIN lanes = LanesUsed(items), NEW field,
           \A lane \in DOMAIN lanes :
               lanes[lane][field] = Cardinality(ClassOf(T, LaneFunction(items), lane))
    PROVE  SumOverLanes(lanes, field) = Cardinality(T)
<1> DEFINE U == {0} \cup DOMAIN lanes
           N == Max(U) + 1
           s == [k \in 1..N |-> IF k - 1 \in DOMAIN lanes THEN lanes[k - 1][field] ELSE 0]
           f == [i \in DOMAIN items |-> items[i].lane + 1]
<1>1. IsFiniteSet(U) /\ U \subseteq Int /\ U # {} /\ \A x \in U : x \in Nat
    <2>1. LanesUsed(items) = {LaneFunction(items)[i] : i \in DOMAIN LaneFunction(items)}
        BY DEF LanesUsed, LaneFunction
    <2>2. /\ IsFiniteSet(DOMAIN LaneFunction(items))
          /\ LaneFunction(items) = [i \in DOMAIN LaneFunction(items) |-> LaneFunction(items)[i]]
        BY DEF LaneFunction
    <2>3. IsFiniteSet(LanesUsed(items))
        BY <2>1, <2>2, ImageFinite
    <2>4. IsFiniteSet({0})
        BY FS_Singleton
    <2>5. IsFiniteSet(U)
        BY <2>3, <2>4, FS_Union
    <2>6. \A x \in U : x \in Nat
        BY DEF LanesUsed
    <2>7. 0 \in U
        OBVIOUS
    <2> HIDE DEF U
    <2>8. \A x \in U : x \in Int
        BY <2>6
    <2>9. QED
        BY <2>5, <2>6, <2>7, <2>8
<1>2. Max(U) \in U /\ \A x \in U : x <= Max(U)
    <2> HIDE DEF U
    <2>1. QED
        BY <1>1, MaxOfFinite
<1>3. Max(U) \in Nat
    BY <1>1, <1>2
<1> HIDE DEF U
<1>4. N \in Nat /\ N = Max(U) + 1
    BY <1>3
<1>5. ASSUME NEW i \in DOMAIN items PROVE f[i] \in 1..N
    <2>1. items[i].lane \in DOMAIN lanes
        BY DEF LanesUsed
    <2>2. items[i].lane \in Nat /\ items[i].lane <= Max(U)
        BY <1>2, <2>1 DEF U
    <2>3. QED
        BY <1>3, <1>4, <2>2
<1>6. SumOverLanes(lanes, field) = SumOf(s)
    BY DEF SumOverLanes, U
<1>7. Len(s) = N
    BY <1>4
<1>8. ASSUME NEW k \in 1..N PROVE s[k] = Cardinality(ClassOf(T, f, k))
    <2>1. k \in Nat
        BY <1>4
    <2>2. ClassOf(T, f, k) = ClassOf(T, LaneFunction(items), k - 1)
        <3>1. \A i \in T : f[i] = items[i].lane + 1 /\ LaneFunction(items)[i] = items[i].lane
                           /\ items[i].lane \in Nat
            BY DEF LaneFunction
        <3> HIDE DEF f
        <3>2. QED
            BY <2>1, <3>1 DEF ClassOf
    <2>3. CASE k - 1 \in DOMAIN lanes
        BY <2>2, <2>3
    <2>4. CASE k - 1 \notin DOMAIN lanes
        <3>1. ClassOf(T, LaneFunction(items), k - 1) = {}
            BY <2>4 DEF ClassOf, LaneFunction, LanesUsed
        <3>2. QED
            BY <2>2, <2>4, <3>1, FS_EmptySet
    <2>5. QED
        BY <2>3, <2>4
<1>0. IsFiniteSet(T)
    BY FS_Subset
<1> HIDE DEF N, s, f
<1>9. SumOf(s) = Cardinality(T)
    BY <1>0, <1>4, <1>5, <1>7, <1>8, PartitionSum
<1>10. QED
    BY <1>6, <1>9

(* Lanes' tallies add up.                                                  *)
LEMMA LanesAddUp ==
    ASSUME NEW items, IsFiniteSet(DOMAIN items),
           \A i \in DOMAIN items : items[i].lane \in Nat,
           NEW lanes, DOMAIN lanes = LanesUsed(items), NEW field \in Counters,
           \A lane \in DOMAIN lanes :
               lanes[lane][field] = Tally(items, OnLane(items, lane))[field]
    PROVE  SumOverLanes(lanes, field) = Tally(items, DOMAIN items)[field]
<1> DEFINE T == Counted(items, DOMAIN items, field)
<1>1. T \subseteq DOMAIN items
    BY CountedPart
<1>2. ASSUME NEW lane \in DOMAIN lanes
      PROVE  lanes[lane][field] = Cardinality(ClassOf(T, LaneFunction(items), lane))
    <2>1. OnLane(items, lane) = ClassOf(DOMAIN items, LaneFunction(items), lane)
        BY DEF OnLane, ClassOf, LaneFunction
    <2>2. lanes[lane][field] =
              Cardinality(Counted(items, ClassOf(DOMAIN items, LaneFunction(items), lane), field))
        BY <2>1, TallyOf
    <2>3. Counted(items, ClassOf(DOMAIN items, LaneFunction(items), lane), field) =
              ClassOf(T, LaneFunction(items), lane)
        BY CountedPart
    <2>4. QED
        BY <2>2, <2>3
<1>3. Tally(items, DOMAIN items)[field] = Cardinality(T)
    BY TallyOf
<1> HIDE DEF T
<1>4. SumOverLanes(lanes, field) = Cardinality(T)
    BY <1>1, <1>2, LanesSum
<1>5. QED
    BY <1>3, <1>4

-----------------------------------------------------------------------------
(* What is attached to a runtime.                                          *)

ItemSound(it) ==
    /\ it.lane \in Nat
    /\ it.source \in {"Surrogate", "Exact"}
    /\ it.shadow \in {"none", "agreed", "diverged"}
    /\ it.decision = "ShadowCompare" => it.shadow # "none"

TalliesById(ws, items, s, field) ==
    /\ Len(s) = Len(ws)
    /\ \A k \in 1..Len(ws) : s[k] = Tally(items, OfWorker(items, ws[k].id))[field]

Named(ws, items) ==
    /\ Len(ws) \in Nat /\ DOMAIN ws = 1..Len(ws)
    /\ \A j, k \in DOMAIN ws : j # k => ws[j].id # ws[k].id
    /\ IsFiniteSet(DOMAIN items)
    /\ \A i \in DOMAIN items : KnownWorker(ws, items[i].worker)

SoundAttachment(shards, a) ==
    /\ RightlyAttached(shards, a)
    /\ a.ready = TRUE /\ a.total \in Nat /\ a.total # 0
    /\ a.schema \in {"gemm", "event"}
    /\ IsFiniteSet(DOMAIN a.items) /\ Len(a.items) = Cardinality(DOMAIN a.items)
    /\ a.items = <<>> <=> Len(a.items) = 0
    /\ \A i \in DOMAIN a.items : ItemSound(a.items[i])
    /\ a.used = Tally(a.items, DOMAIN a.items)["replaced"]
    /\ a.exacts = Tally(a.items, DOMAIN a.items)["exacts"]
    /\ Named(a.workers, a.items)

(* An interval from one is finite.                                         *)
LEMMA UptoFinite ==
    ASSUME NEW n \in Nat
    PROVE  IsFiniteSet(1..n) /\ Cardinality(1..n) = n
<1>1. IsFiniteSet(1..n) /\ Cardinality(1..n) = IF 1 > n THEN 0 ELSE n - 1 + 1
    BY FS_Interval
<1>2. QED
    BY <1>1

(* The tallies of the workers the items name add up.                       *)
LEMMA IdsAddUp ==
    ASSUME NEW ws, NEW items, Named(ws, items), NEW field \in Counters,
           NEW s, TalliesById(ws, items, s, field)
    PROVE  SumOf(s) = Tally(items, DOMAIN items)[field]
<1> USE DEF Named, TalliesById
<1> DEFINE f == [i \in DOMAIN items |-> CHOOSE k \in DOMAIN ws : ws[k].id = items[i].worker]
<1>1. ASSUME NEW i \in DOMAIN items
      PROVE  /\ f[i] \in 1..Len(s)
             /\ \A k \in 1..Len(s) : items[i].worker = ws[k].id <=> f[i] = k
    <2>1. f[i] \in DOMAIN ws /\ ws[f[i]].id = items[i].worker
        BY DEF KnownWorker
    <2> HIDE DEF f
    <2>2. QED
        BY <2>1
<1> HIDE DEF f
<1>2. ASSUME NEW k \in 1..Len(s)
      PROVE  s[k] = Tally(items, ClassOf(DOMAIN items, f, k))[field]
    <2>1. OfWorker(items, ws[k].id) = ClassOf(DOMAIN items, f, k)
        BY <1>1 DEF OfWorker, ClassOf
    <2>2. QED
        BY <2>1
<1>3. Len(s) \in Nat /\ \A i \in DOMAIN items : f[i] \in 1..Len(s)
    BY <1>1
<1>4. \A k \in 1..Len(s) : s[k] = Tally(items, ClassOf(DOMAIN items, f, k))[field]
    BY <1>2
<1>5. TalliesByClass(items, f, s, field)
    BY <1>3, <1>4 DEF TalliesByClass
<1> HIDE DEF Named, TalliesById
<1>6. QED
    BY <1>5, TallyPartition

(* Items alike in what is counted have the same tallies.                   *)
LEMMA SameTallies ==
    ASSUME NEW xs, NEW ys, DOMAIN xs = DOMAIN ys,
           \A i \in DOMAIN ys : /\ xs[i].worker = ys[i].worker
                                /\ xs[i].source = ys[i].source
                                /\ xs[i].decision = ys[i].decision
                                /\ xs[i].shadow = ys[i].shadow
    PROVE  \A id : /\ OfWorker(xs, id) = OfWorker(ys, id)
                   /\ Tally(xs, OfWorker(xs, id)) = Tally(ys, OfWorker(ys, id))
<1> SUFFICES ASSUME NEW id
             PROVE  /\ OfWorker(xs, id) = OfWorker(ys, id)
                    /\ Tally(xs, OfWorker(xs, id)) = Tally(ys, OfWorker(ys, id))
    OBVIOUS
<1> DEFINE S == OfWorker(ys, id)
<1>1. OfWorker(xs, id) = S /\ S \subseteq DOMAIN ys
    BY DEF OfWorker
<1> HIDE DEF S
<1>2. /\ {i \in S : xs[i].source = "Surrogate"} = {i \in S : ys[i].source = "Surrogate"}
      /\ {i \in S : xs[i].source = "Exact"} = {i \in S : ys[i].source = "Exact"}
      /\ {i \in S : xs[i].decision = "FailClosed"} = {i \in S : ys[i].decision = "FailClosed"}
      /\ {i \in S : xs[i].shadow # "none"} = {i \in S : ys[i].shadow # "none"}
      /\ {i \in S : xs[i].shadow = "diverged"} = {i \in S : ys[i].shadow = "diverged"}
    BY <1>1
<1>3. Tally(xs, S) = Tally(ys, S)
    BY <1>2 DEF Tally
<1>4. QED
    BY <1>1, <1>3 DEF S

(* Shards without an empty one have a lane.                                *)
LEMMA ShardsHaveLanes ==
    ASSUME NEW ws, SpecsTyped(ws), Contiguous(ws), ws # <<>>,
           \A i \in DOMAIN ws : ws[i].lanes # 0
    PROVE  LanesOf(ws) \in Nat /\ LanesOf(ws) # 0
<1> DEFINE s == LanesIn(ws)
           n == Len(ws)
<1>1. n \in Nat /\ DOMAIN ws = 1..n /\ n # 0
    BY DEF SpecsTyped
<1>2. Len(s) = n /\ \A i \in 1..n : s[i] = ws[i].lanes /\ s[i] \in Nat
    BY LanesInLength
<1>3. LanesOf(ws) = SumOf(s)
    BY DEF LanesOf, LanesIn
<1> HIDE DEF s, n
<1>4. Sums(s)[0] = 0 /\ Sums(s)[1] = Sums(s)[0] + s[1]
    <2>1. Sums(s)[0] = 0 /\ \A i \in 1..n : Sums(s)[i] = Sums(s)[i - 1] + s[i]
        BY <1>1, <1>2, SumsStep
    <2>2. 1 \in 1..n /\ 1 - 1 = 0
        BY <1>1
    <2>3. QED
        BY <2>1, <2>2
<1>5. s[1] # 0 /\ s[1] \in Nat
    BY <1>1, <1>2
<1>6. Sums(s)[1] <= Sums(s)[n]
    BY <1>1, <1>2, SumsMonotone
<1>7. Sums(s)[n] \in Nat
    BY <1>1, <1>2, SumsNat
<1>8. SumOf(s) = Sums(s)[n]
    BY <1>2 DEF SumOf
<1>9. QED
    BY <1>3, <1>4, <1>5, <1>6, <1>7, <1>8

(* The two kinds of attachments differ in what their items show.           *)
LEMMA AttachmentIsSound ==
    ASSUME NEW topology \in Topologies, topology # <<>>,
           NEW p, NEW items, NEW n \in Nat, Numbered(p.items, n),
           items = [i \in 1..n |-> items[i]],
           p.schema \in {"gemm", "event"},
           runtime_shards_by_worker(ShardsOf(topology)),
           \A i \in DOMAIN p.items :
               /\ ItemOnItsShard(ShardsOf(topology), p.items[i])
               /\ ItemSound(p.items[i])
               /\ items[i].lane = p.items[i].lane
               /\ items[i].worker = p.items[i].worker
               /\ items[i].source = p.items[i].source
               /\ items[i].decision = p.items[i].decision
               /\ items[i].shadow = p.items[i].shadow
               /\ items[i].exact = (p.items[i].source = "Exact")
    PROVE  SoundAttachment(ShardsOf(topology), Attachment(ShardsOf(topology), p, items))
<1> DEFINE ws == ShardsOf(topology)
           a == Attachment(ws, p, items)
           N == Len(ws)
<1>1. SpecsTyped(ws) /\ Contiguous(ws)
    BY ShardsContiguous
<1>2. N \in Nat /\ DOMAIN ws = 1..N
    BY <1>1 DEF SpecsTyped
<1>3. ws # <<>>
    <2>1. DOMAIN ws = DOMAIN topology
        BY DEF ShardsOf
    <2>2. Len(topology) \in Nat /\ DOMAIN topology = 1..Len(topology) /\ topology \in Seq([id : WorkerId, lanes : Nat])
        BY TopologyTyped, TopologyTypes
    <2>3. Len(topology) # 0
        BY <2>2
    <2>4. 1 \in DOMAIN ws
        BY <2>1, <2>2, <2>3
    <2> HIDE DEF ws
    <2>5. QED
        BY <2>4
<1>4. /\ \A i \in DOMAIN ws : ws[i].lanes # 0
      /\ \A i, j \in DOMAIN ws : i # j => ws[i].id # ws[j].id
    BY DEF runtime_shards_by_worker
<1> HIDE DEF ws
<1>5. /\ a.schema = p.schema /\ a.total = LanesOf(ws) /\ a.items = items /\ a.ready = TRUE
      /\ a.workers = PlanSummaries(ws, p.items)
      /\ a.used = SumOf([k \in DOMAIN ws |-> PlanSummary(ws[k], p.items).used])
      /\ a.exacts = SumOf([k \in DOMAIN ws |-> PlanSummary(ws[k], p.items).exacts])
    BY DEF Attachment
<1> HIDE DEF a
<1>6. /\ DOMAIN p.items = 1..n /\ DOMAIN items = 1..n /\ Len(items) = n
      /\ items = <<>> <=> n = 0
    BY DEF Numbered
<1>7. IsFiniteSet(DOMAIN items) /\ Cardinality(DOMAIN items) = n
    <2>1. IsFiniteSet(1..n) /\ Cardinality(1..n) = n
        BY UptoFinite
    <2>2. QED
        BY <1>6, <2>1
<1>8. a.total # 0 /\ a.total \in Nat
    BY <1>1, <1>3, <1>4, <1>5, ShardsHaveLanes
<1>9. RightlyAttached(ws, a)
    <2>1. ASSUME NEW i \in 1..n
          PROVE  /\ Covered(ws, items[i].lane)
                 /\ worker_for_lane(ws, items[i].lane).id = items[i].worker
                 /\ items[i].exact = (items[i].source = "Exact")
        <3>1. ItemOnItsShard(ShardsOf(topology), p.items[i]) /\ p.items[i].lane \in Nat
            BY <1>6 DEF ItemSound
        <3>2. /\ Covered(ws, p.items[i].lane)
              /\ worker_for_lane(ws, p.items[i].lane).id = p.items[i].worker
            BY <3>1, ItemOwner DEF ws
        <3>3. QED
            BY <1>6, <3>2
    <2>2. QED
        BY <1>5, <1>6, <2>1 DEF RightlyAttached
<1>10. \A i \in DOMAIN items : ItemSound(items[i])
    BY <1>6 DEF ItemSound
<1>11. \A i \in DOMAIN items : KnownWorker(ws, items[i].worker)
    BY <1>6 DEF ItemOnItsShard, ws
<1>12. \A id : /\ OfWorker(items, id) = OfWorker(p.items, id)
               /\ Tally(items, OfWorker(items, id)) = Tally(p.items, OfWorker(p.items, id))
    BY <1>6, SameTallies
<1>13. \A w : /\ PlanSummary(w, p.items).used = Tally(items, OfWorker(items, w.id))["replaced"]
              /\ PlanSummary(w, p.items).exacts = Tally(items, OfWorker(items, w.id))["exacts"]
              /\ PlanSummary(w, p.items).id = w.id
    BY <1>12 DEF PlanSummary
<1>14. "replaced" \in Counters /\ "exacts" \in Counters
    BY DEF Counters
<1>15. Named(ws, items)
    BY <1>2, <1>4, <1>7, <1>11 DEF Named
<1>16. a.used = Tally(items, DOMAIN items)["replaced"]
    <2> DEFINE s == [k \in 1..N |-> PlanSummary(ws[k], p.items).used]
    <2>1. Len(s) = N /\ \A k \in 1..N : s[k] = PlanSummary(ws[k], p.items).used
        BY <1>2
    <2>2. a.used = SumOf(s)
        BY <1>2, <1>5
    <2> HIDE DEF s
    <2>3. TalliesById(ws, items, s, "replaced")
        BY <1>13, <2>1 DEF TalliesById
    <2>4. QED
        BY <1>14, <1>15, <2>2, <2>3, IdsAddUp
<1>17. a.exacts = Tally(items, DOMAIN items)["exacts"]
    <2> DEFINE s == [k \in 1..N |-> PlanSummary(ws[k], p.items).exacts]
    <2>1. Len(s) = N /\ \A k \in 1..N : s[k] = PlanSummary(ws[k], p.items).exacts
        BY <1>2
    <2>2. a.exacts = SumOf(s)
        BY <1>2, <1>5
    <2> HIDE DEF s
    <2>3. TalliesById(ws, items, s, "exacts")
        BY <1>13, <2>1 DEF TalliesById
    <2>4. QED
        BY <1>14, <1>15, <2>2, <2>3, IdsAddUp
<1>18. Named(a.workers, items)
    <2>1. a.workers = [k \in 1..N |-> PlanSummary(ws[k], p.items)]
        BY <1>2, <1>5 DEF PlanSummaries
    <2>2. /\ Len(a.workers) = N /\ DOMAIN a.workers = 1..N
          /\ \A k \in 1..N : a.workers[k].id = ws[k].id
        BY <1>2, <1>13, <2>1
    <2>3. \A i \in DOMAIN items : KnownWorker(a.workers, items[i].worker)
        BY <1>2, <1>11, <2>2 DEF KnownWorker
    <2>4. QED
        BY <1>2, <1>4, <1>7, <2>2, <2>3 DEF Named
<1>19. SoundAttachment(ws, a)
    BY <1>5, <1>6, <1>7, <1>8, <1>9, <1>10, <1>16, <1>17, <1>18 DEF SoundAttachment
<1>20. QED
    BY <1>19 DEF ws, a

(* A planned GEMM item is sound.                                           *)
LEMMA GemmItemSound ==
    ASSUME GemmFiles, plan # Nothing, NEW i \in DOMAIN plan.items
    PROVE  ItemSound(plan.items[i])
<1>1. PICK it : plan.items[i] = runtime_plan_item(it, madeFor.workers)
    BY GemmPlanItems DEF GemmFiles
<1>2. plan.items[i].shadow = gemm_shadow_ok(it) /\ plan.items[i].decision = it.decision
    BY <1>1, PlannedItem
<1>3. /\ gemm_shadow_ok(it) \in {"none", "agreed", "diverged"}
      /\ it.decision = "ShadowCompare" => gemm_shadow_ok(it) # "none"
    BY DEF gemm_shadow_ok
<1>4. QED
    BY <1>2, <1>3, GemmItemsTyped DEF ItemSound

(* A planned event is sound.                                               *)
LEMMA EventItemSound ==
    ASSUME EventFiles, plan # Nothing, NEW i \in DOMAIN plan.items
    PROVE  ItemSound(plan.items[i])
<1>1. PICK it : plan.items[i] = runtime_event_plan_item(it, madeFor.workers)
    BY EventPlanItems DEF EventFiles
<1>2. /\ plan.items[i].decision = it.decision
      /\ plan.items[i].shadow = IF it.decision # "ShadowCompare" THEN "none"
                                ELSE IF it.expected = it.predicted THEN "agreed" ELSE "diverged"
    BY <1>1, PlannedEvent
<1>3. QED
    BY <1>2, EventItemsTyped DEF ItemSound

(* What an accepted GEMM plan attaches.                                    *)
LEMMA GemmAttached ==
    ASSUME GemmFiles, plan # Nothing, NEW topology \in Topologies, topology # <<>>,
           gemm_plan_attaches(ShardsOf(topology), plan)
    PROVE  LET a == attach_gemm_runtime_plan_to_shard_infos(ShardsOf(topology), plan)
           IN  SoundAttachment(ShardsOf(topology), a) /\ a.schema = "gemm"
<1> DEFINE ws == ShardsOf(topology)
           n == Len(madeFor.b.txs)
           items == [i \in DOMAIN plan.items |->
                        LET it == plan.items[i]
                        IN  [index |-> it.index, sample |-> Nothing, target |-> Nothing,
                             lane |-> it.lane, worker |-> it.worker, decision |-> it.decision,
                             source |-> it.source, exact |-> it.prov.exact,
                             surrogate |-> it.prov.surrogate, shadow |-> it.shadow,
                             predicted |-> Nothing, expected |-> Nothing]]
<1>1. attach_gemm_runtime_plan_to_shard_infos(ws, plan) = Attachment(ws, plan, items)
    BY DEF attach_gemm_runtime_plan_to_shard_infos
<1>2. /\ plan.ok /\ plan.schema = "gemm" /\ runtime_shards_by_worker(ws)
      /\ \A i \in DOMAIN plan.items : ItemOnItsShard(ws, plan.items[i])
    BY DEF gemm_plan_attaches
<1>3. Numbered(plan.items, n)
    BY <1>2, GemmPlanItems DEF GemmFiles
<1>4. n \in Nat /\ DOMAIN plan.items = 1..n
    BY <1>3 DEF Numbered
<1>5. \A i \in DOMAIN plan.items :
          /\ items[i].lane = plan.items[i].lane /\ items[i].worker = plan.items[i].worker
          /\ items[i].source = plan.items[i].source /\ items[i].decision = plan.items[i].decision
          /\ items[i].shadow = plan.items[i].shadow
          /\ items[i].exact = plan.items[i].prov.exact
    OBVIOUS
<1>6. items = [i \in 1..n |-> items[i]]
    BY <1>4
<1>7. \A i \in DOMAIN plan.items :
          /\ ItemSound(plan.items[i])
          /\ items[i].exact = (plan.items[i].source = "Exact")
    BY <1>5, GemmItemSound, GemmItemsTyped
<1> HIDE DEF items, n, ws
<1>8. SoundAttachment(ws, Attachment(ws, plan, items))
    BY <1>2, <1>3, <1>4, <1>5, <1>6, <1>7, AttachmentIsSound DEF ws
<1>9. Attachment(ws, plan, items).schema = "gemm"
    BY <1>2 DEF Attachment
<1>10. QED
    BY <1>1, <1>8, <1>9 DEF ws

(* What an accepted event plan attaches.                                   *)
LEMMA EventAttached ==
    ASSUME EventFiles, plan # Nothing, NEW topology \in Topologies, topology # <<>>,
           event_plan_attaches(ShardsOf(topology), plan)
    PROVE  LET a == attach_event_runtime_plan_to_shard_infos(ShardsOf(topology), plan)
           IN  SoundAttachment(ShardsOf(topology), a) /\ a.schema = "event"
<1> DEFINE ws == ShardsOf(topology)
           n == Len(policy_event_corpus(madeFor.m, madeFor.corpus).results)
           items == [i \in DOMAIN plan.items |->
                        LET it == plan.items[i]
                        IN  [index |-> it.index, sample |-> it.sample,
                             target |-> IF it.target = "" THEN Nothing ELSE it.target,
                             lane |-> it.lane, worker |-> it.worker, decision |-> it.decision,
                             source |-> it.source, exact |-> it.prov.exact,
                             surrogate |-> it.prov.surrogate, shadow |-> it.shadow,
                             predicted |-> it.predicted, expected |-> it.expected]]
<1>1. attach_event_runtime_plan_to_shard_infos(ws, plan) = Attachment(ws, plan, items)
    BY DEF attach_event_runtime_plan_to_shard_infos
<1>2. /\ plan.ok /\ plan.schema = "event" /\ runtime_shards_by_worker(ws)
      /\ \A i \in DOMAIN plan.items : ItemOnItsShard(ws, plan.items[i])
    BY DEF event_plan_attaches
<1>3. Numbered(plan.items, n)
    BY <1>2, EventPlanItems DEF EventFiles
<1>4. n \in Nat /\ DOMAIN plan.items = 1..n
    BY <1>3 DEF Numbered
<1>5. \A i \in DOMAIN plan.items :
          /\ items[i].lane = plan.items[i].lane /\ items[i].worker = plan.items[i].worker
          /\ items[i].source = plan.items[i].source /\ items[i].decision = plan.items[i].decision
          /\ items[i].shadow = plan.items[i].shadow
          /\ items[i].exact = plan.items[i].prov.exact
    OBVIOUS
<1>6. items = [i \in 1..n |-> items[i]]
    BY <1>4
<1>7. \A i \in DOMAIN plan.items :
          /\ ItemSound(plan.items[i])
          /\ items[i].exact = (plan.items[i].source = "Exact")
    BY <1>5, EventItemSound, EventItemsTyped
<1> HIDE DEF items, n, ws
<1>8. SoundAttachment(ws, Attachment(ws, plan, items))
    BY <1>2, <1>3, <1>4, <1>5, <1>6, <1>7, AttachmentIsSound DEF ws
<1>9. Attachment(ws, plan, items).schema = "event"
    BY <1>2 DEF Attachment
<1>10. QED
    BY <1>1, <1>8, <1>9 DEF ws

-----------------------------------------------------------------------------
(* The execution report of an attachment.                                  *)

(* The tallies of sound items fit together.                                *)
LEMMA SoundTallies ==
    ASSUME NEW items, IsFiniteSet(DOMAIN items), \A i \in DOMAIN items : ItemSound(items[i])
    PROVE  LET tally == Tally(items, DOMAIN items)
               passed == CountSeq(items, LAMBDA it : it.shadow = "agreed")
           IN  /\ tally.items = Cardinality(DOMAIN items) /\ tally.items \in Nat
               /\ tally.replaced \in Nat /\ tally.exacts \in Nat
               /\ tally.replaced + tally.exacts = tally.items
               /\ passed + tally.failed = tally.compared
               /\ tally.compared \in Nat /\ tally.compared <= tally.items
               /\ Unavailable(items) = 0
<1> DEFINE D == DOMAIN items
           sur == {i \in D : items[i].source = "Surrogate"}
           exa == {i \in D : items[i].source = "Exact"}
           agr == {i \in D : items[i].shadow = "agreed"}
           div == {i \in D : items[i].shadow = "diverged"}
           com == {i \in D : items[i].shadow # "none"}
           una == {i \in D : items[i].decision = "ShadowCompare" /\ items[i].shadow = "none"}
<1>1. /\ sur \cup exa = D /\ sur \cap exa = {}
      /\ agr \cup div = com /\ agr \cap div = {}
      /\ una = {} /\ com \subseteq D
      /\ sur \subseteq D /\ exa \subseteq D /\ agr \subseteq D /\ div \subseteq D
    BY DEF ItemSound
<1>2. LET tally == Tally(items, DOMAIN items)
      IN  /\ tally.items = Cardinality(D) /\ tally.replaced = Cardinality(sur)
          /\ tally.exacts = Cardinality(exa) /\ tally.compared = Cardinality(com)
          /\ tally.failed = Cardinality(div)
    BY DEF Tally
<1>3. CountSeq(items, LAMBDA it : it.shadow = "agreed") = Cardinality(agr)
    BY DEF CountSeq
<1>4. Unavailable(items) = Cardinality(una)
    BY DEF Unavailable
<1>5. IsFiniteSet(D)
    OBVIOUS
<1> HIDE DEF D, sur, exa, agr, div, com, una
<1>6. /\ IsFiniteSet(sur) /\ IsFiniteSet(exa) /\ IsFiniteSet(agr) /\ IsFiniteSet(div)
      /\ IsFiniteSet(com)
    BY <1>1, <1>5, FS_Subset
<1>7. Cardinality(D) = Cardinality(sur) + Cardinality(exa)
      /\ Cardinality(sur) \in Nat /\ Cardinality(exa) \in Nat
    BY <1>1, <1>6, DisjointUnion
<1>8. Cardinality(com) = Cardinality(agr) + Cardinality(div)
      /\ Cardinality(agr) \in Nat /\ Cardinality(div) \in Nat
    BY <1>1, <1>6, DisjointUnion
<1>9. Cardinality(com) <= Cardinality(D)
    BY <1>1, <1>5, FS_Subset
<1>10. Cardinality(una) = 0
    BY <1>1, FS_EmptySet
<1>11. Cardinality(D) \in Nat
    BY <1>7
<1> DEFINE tally == Tally(items, DOMAIN items)
<1>12. /\ tally.items = Cardinality(D) /\ tally.replaced = Cardinality(sur)
       /\ tally.exacts = Cardinality(exa) /\ tally.compared = Cardinality(com)
       /\ tally.failed = Cardinality(div)
    BY <1>2
<1> HIDE DEF tally
<1>13. QED
    BY <1>3, <1>4, <1>7, <1>8, <1>9, <1>10, <1>11, <1>12 DEF tally, D

ReportFits(a, r, count) ==
    /\ r.ready /\ r.executed = (a.items # <<>>)
    /\ r.attached = Len(a.items) /\ r.invalid = 0
    /\ r.eligible = a.used /\ r.fallback = a.exacts
    /\ r.eligible + r.fallback = r.attached
    /\ r.passed + r.failed = r.compared
    /\ r.compared + r.unavailable <= r.attached
    /\ r.count = count

(* An execution report fits its attachment and its count.                  *)
LEMMA ExecutionFits ==
    ASSUME NEW shards, NEW a, SoundAttachment(shards, a), NEW kind, NEW count
    PROVE  LET r == from_attachment(a, kind, count)
           IN  ReportFits(a, r, count) /\ r.kind = kind
<1> DEFINE tally == Tally(a.items, DOMAIN a.items)
           event == a.schema = "event"
           r == from_attachment(a, kind, count)
           passed == CountSeq(a.items, LAMBDA it : it.shadow = "agreed")
<1>1. /\ a.ready = TRUE /\ a.total # 0
      /\ IsFiniteSet(DOMAIN a.items) /\ Len(a.items) = Cardinality(DOMAIN a.items)
      /\ a.items = <<>> <=> Len(a.items) = 0
      /\ \A i \in DOMAIN a.items : ItemSound(a.items[i])
      /\ a.used = tally["replaced"] /\ a.exacts = tally["exacts"]
    BY DEF SoundAttachment
<1>2. /\ tally.items = Len(a.items) /\ tally.items \in Nat
      /\ tally.replaced \in Nat /\ tally.exacts \in Nat
      /\ tally.replaced + tally.exacts = tally.items
      /\ passed + tally.failed = tally.compared
      /\ tally.compared \in Nat /\ tally.compared <= tally.items
      /\ Unavailable(a.items) = 0
    <2>1. /\ tally.items = Cardinality(DOMAIN a.items) /\ tally.items \in Nat
          /\ tally.replaced \in Nat /\ tally.exacts \in Nat
          /\ tally.replaced + tally.exacts = tally.items
          /\ passed + tally.failed = tally.compared
          /\ tally.compared \in Nat /\ tally.compared <= tally.items
          /\ Unavailable(a.items) = 0
        BY <1>1, SoundTallies
    <2>2. QED
        BY <1>1, <2>1
<1> HIDE DEF tally, passed
<1>3. r = [ready       |-> a.ready /\ a.total # 0,
           executed    |-> (a.ready /\ a.total # 0) /\ tally.items > 0,
           schema      |-> a.schema,
           total       |-> a.total,
           attached    |-> tally.items,
           eligible    |-> tally.replaced,
           fallback    |-> tally.exacts,
           invalid     |-> Less(tally.items, tally.replaced + tally.exacts),
           compared    |-> tally.compared,
           passed      |-> passed,
           failed      |-> tally.failed,
           unavailable |-> Unavailable(a.items),
           kind        |-> kind,
           count       |-> count,
           workers     |-> IF event THEN runtime_surrogate_event_workers(a) ELSE <<>>,
           lanes       |-> IF event THEN runtime_surrogate_event_lanes(a) ELSE <<>>,
           items       |-> IF event THEN a.items ELSE <<>>]
    BY DEF from_attachment, ExecutionReport, tally, passed
<1> HIDE DEF r
<1>4. /\ r.ready = (a.ready /\ a.total # 0)
      /\ r.executed = ((a.ready /\ a.total # 0) /\ tally.items > 0)
      /\ r.attached = tally.items /\ r.eligible = tally.replaced /\ r.fallback = tally.exacts
      /\ r.invalid = Less(tally.items, tally.replaced + tally.exacts)
      /\ r.compared = tally.compared /\ r.passed = passed /\ r.failed = tally.failed
      /\ r.unavailable = Unavailable(a.items) /\ r.kind = kind /\ r.count = count
    BY <1>3
<1>5. r.invalid = 0
    BY <1>2, <1>4 DEF Less
<1>6. r.executed = (a.items # <<>>)
    <2>1. (tally.items > 0) = (Len(a.items) # 0)
        BY <1>2
    <2>2. QED
        BY <1>1, <1>4, <2>1
<1>7. r.ready
    BY <1>1, <1>4
<1>8. r.attached = Len(a.items) /\ r.eligible = a.used /\ r.fallback = a.exacts
    BY <1>1, <1>2, <1>4
<1>9. /\ r.eligible + r.fallback = r.attached
      /\ r.passed + r.failed = r.compared
      /\ r.compared + r.unavailable <= r.attached
    BY <1>2, <1>4
<1>10. QED
    BY <1>4, <1>5, <1>6, <1>7, <1>8, <1>9 DEF ReportFits, r

CountersFit(r) ==
    /\ r.unavailable = 0
    /\ SumOf([k \in DOMAIN r.workers |-> r.workers[k].counts.items]) = r.attached
    /\ SumOf([k \in DOMAIN r.workers |-> r.workers[k].counts.replaced]) = r.eligible
    /\ SumOf([k \in DOMAIN r.workers |-> r.workers[k].counts.compared]) = r.compared
    /\ SumOf([k \in DOMAIN r.workers |-> r.workers[k].counts.failed]) = r.failed
    /\ SumOverLanes(r.lanes, "items") = r.attached
    /\ SumOverLanes(r.lanes, "compared") = r.passed + r.failed

(* The workers' and lanes' counters of an event report add up.             *)
LEMMA ExecutionCounters ==
    ASSUME NEW shards, NEW a, SoundAttachment(shards, a), a.schema = "event",
           NEW kind, NEW count
    PROVE  CountersFit(from_attachment(a, kind, count))
<1> DEFINE tally == Tally(a.items, DOMAIN a.items)
           r == from_attachment(a, kind, count)
           N == Len(a.workers)
<1>1. /\ IsFiniteSet(DOMAIN a.items)
      /\ \A i \in DOMAIN a.items : ItemSound(a.items[i])
      /\ Named(a.workers, a.items)
    BY DEF SoundAttachment
<1>2. /\ r.attached = tally.items /\ r.eligible = tally.replaced
      /\ r.compared = tally.compared /\ r.failed = tally.failed
      /\ r.workers = runtime_surrogate_event_workers(a)
      /\ r.lanes = runtime_surrogate_event_lanes(a)
      /\ r.unavailable = Unavailable(a.items)
    BY DEF from_attachment, ExecutionReport
<1>3. N \in Nat /\ DOMAIN a.workers = 1..N
    BY <1>1 DEF Named
<1>4. \A S : \A field \in Counters \ {"closed"} :
          Reported(Tally(a.items, S))[field] = Tally(a.items, S)[field]
    BY DEF Reported
<1>5. /\ DOMAIN r.workers = 1..N
      /\ \A k \in 1..N : r.workers[k].counts =
             Reported(Tally(a.items, OfWorker(a.items, a.workers[k].id)))
    <2>1. r.workers =
              [k \in 1..N |->
                  [id     |-> a.workers[k].id,
                   start  |-> a.workers[k].start,
                   lanes  |-> a.workers[k].lanes,
                   counts |-> Reported(Tally(a.items, OfWorker(a.items, a.workers[k].id)))]]
        BY <1>2, <1>3 DEF runtime_surrogate_event_workers
    <2> HIDE DEF r
    <2>2. QED
        BY <2>1
<1>6. /\ DOMAIN r.lanes = LanesUsed(a.items)
      /\ \A lane \in DOMAIN r.lanes :
             r.lanes[lane] = Reported(Tally(a.items, OnLane(a.items, lane)))
    <2>1. r.lanes = [lane \in LanesUsed(a.items) |-> Reported(Tally(a.items, OnLane(a.items, lane)))]
        BY <1>2 DEF runtime_surrogate_event_lanes
    <2> HIDE DEF r
    <2>2. QED
        BY <2>1
<1>7. ASSUME NEW field \in Counters \ {"closed"}
      PROVE  SumOf([k \in DOMAIN r.workers |-> r.workers[k].counts[field]]) = tally[field]
    <2> DEFINE s == [k \in 1..N |-> r.workers[k].counts[field]]
    <2> HIDE DEF r
    <2>1. Len(s) = N /\ \A k \in 1..N : s[k] = r.workers[k].counts[field]
        BY <1>3
    <2>2. [k \in DOMAIN r.workers |-> r.workers[k].counts[field]] = s
        BY <1>5
    <2> HIDE DEF s
    <2>3. TalliesById(a.workers, a.items, s, field)
        BY <1>4, <1>5, <2>1 DEF TalliesById
    <2>4. SumOf(s) = Tally(a.items, DOMAIN a.items)[field]
        BY <1>1, <2>3, IdsAddUp
    <2>5. QED
        BY <2>2, <2>4
<1>8. ASSUME NEW field \in Counters \ {"closed"}
      PROVE  SumOverLanes(r.lanes, field) = tally[field]
    <2>1. \A lane \in DOMAIN r.lanes :
              r.lanes[lane][field] = Tally(a.items, OnLane(a.items, lane))[field]
        BY <1>4, <1>6
    <2>2. \A i \in DOMAIN a.items : a.items[i].lane \in Nat
        BY <1>1 DEF ItemSound
    <2> HIDE DEF r
    <2>3. QED
        BY <1>1, <1>6, <2>1, <2>2, LanesAddUp
<1>9. /\ "items" \in Counters \ {"closed"} /\ "replaced" \in Counters \ {"closed"}
      /\ "compared" \in Counters \ {"closed"} /\ "failed" \in Counters \ {"closed"}
    BY DEF Counters
<1>10. r.passed + r.failed = r.compared
    BY ExecutionFits DEF ReportFits
<1>11. r.unavailable = 0
    BY <1>1, <1>2, SoundTallies
<1> HIDE DEF r, tally
<1>12. /\ SumOf([k \in DOMAIN r.workers |-> r.workers[k].counts["items"]]) = tally["items"]
       /\ SumOf([k \in DOMAIN r.workers |-> r.workers[k].counts["replaced"]]) = tally["replaced"]
       /\ SumOf([k \in DOMAIN r.workers |-> r.workers[k].counts["compared"]]) = tally["compared"]
       /\ SumOf([k \in DOMAIN r.workers |-> r.workers[k].counts["failed"]]) = tally["failed"]
    BY <1>7, <1>9
<1>13. SumOverLanes(r.lanes, "items") = tally["items"]
       /\ SumOverLanes(r.lanes, "compared") = tally["compared"]
    BY <1>8, <1>9
<1>14. QED
    BY <1>2, <1>10, <1>11, <1>12, <1>13 DEF CountersFit, r

-----------------------------------------------------------------------------
(* Traces and what is emitted from them.                                   *)

StepTyped(step) ==
    /\ \A field \in DOMAIN step.inputs : step.inputs[field] \in Int
    /\ \A field \in DOMAIN step.outputs : step.outputs[field] \in Int

(* Joined fields are integers.                                             *)
LEMMA OverTyped ==
    ASSUME NEW f, \A x \in DOMAIN f : f[x] \in Int, NEW g, \A x \in DOMAIN g : g[x] \in Int
    PROVE  \A x \in DOMAIN Over(f, g) : Over(f, g)[x] \in Int
BY DEF Over

(* So are the fields both maps begin with.                                 *)
LEMMA SeenTyped ==
    ASSUME NEW step, step.cycle \in Nat, step.lane \in Nat \cup {Nothing},
           \A x \in DOMAIN step.signals : step.signals[x] \in Int
    PROVE  \A x \in DOMAIN Seen(step) : Seen(step)[x] \in Int
<1> DEFINE lane  == IF step.lane = Nothing THEN <<>> ELSE [name \in {"lane"} |-> step.lane]
           cycle == [name \in {"cycle"} |-> step.cycle]
<1>1. \A x \in DOMAIN lane : lane[x] \in Int
    <2>1. CASE step.lane = Nothing
        BY <2>1
    <2>2. CASE step.lane # Nothing
        BY <2>2
    <2>3. QED
        BY <2>1, <2>2
<1>2. \A x \in DOMAIN cycle : cycle[x] \in Int
    OBVIOUS
<1>3. Seen(step) = Over(step.signals, Over(lane, cycle))
    BY DEF Seen
<1> HIDE DEF lane, cycle
<1>4. \A x \in DOMAIN Over(lane, cycle) : Over(lane, cycle)[x] \in Int
    BY <1>1, <1>2, OverTyped
<1>5. QED
    BY <1>3, <1>4, OverTyped

(* A normalized trace has a step of integers for every step.               *)
LEMMA TraceTyped ==
    ASSUME NEW trace \in Traces, NEW steps, steps = normalize_rrtl_instrumentation_trace(trace)
    PROVE  /\ Len(steps) \in Nat /\ DOMAIN steps = 1..Len(steps)
           /\ Len(steps) = Len(trace.steps)
           /\ steps = <<>> <=> trace.steps = <<>>
           /\ \A i \in 1..Len(steps) : StepTyped(steps[i])
<1> DEFINE n == Len(trace.steps)
<1>1. /\ trace.steps \in Seq(ToSet(trace.steps))
      /\ \A i \in DOMAIN trace.steps :
             LET step == trace.steps[i]
             IN  /\ step.cycle \in Nat /\ step.lane \in Nat \cup {Nothing}
                 /\ Fields(step.signals) /\ Fields(step.program) /\ Fields(step.labels)
    BY EventTypes
<1>2. n \in Nat /\ DOMAIN trace.steps = 1..n /\ (trace.steps = <<>> <=> n = 0)
    <2> DEFINE S == ToSet(trace.steps)
    <2> HIDE DEF S
    <2>1. trace.steps \in Seq(S)
        BY <1>1 DEF S
    <2>2. QED
        BY <2>1
<1>3. steps = [i \in 1..n |-> [inputs  |-> Over(trace.steps[i].program, Seen(trace.steps[i])),
                              outputs |-> Over(trace.steps[i].labels, Seen(trace.steps[i]))]]
    BY <1>2 DEF normalize_rrtl_instrumentation_trace
<1>4. ASSUME NEW i \in 1..n
      PROVE  StepTyped(steps[i])
    <2> DEFINE step == trace.steps[i]
    <2>1. /\ \A x \in DOMAIN step.signals : step.signals[x] \in Int
          /\ \A x \in DOMAIN step.program : step.program[x] \in Int
          /\ \A x \in DOMAIN step.labels : step.labels[x] \in Int
          /\ step.cycle \in Nat /\ step.lane \in Nat \cup {Nothing}
        BY <1>1, <1>2 DEF Fields
    <2>2. \A x \in DOMAIN Seen(step) : Seen(step)[x] \in Int
        BY <2>1, SeenTyped
    <2>3. /\ \A x \in DOMAIN Over(step.program, Seen(step)) :
                 Over(step.program, Seen(step))[x] \in Int
          /\ \A x \in DOMAIN Over(step.labels, Seen(step)) :
                 Over(step.labels, Seen(step))[x] \in Int
        BY <2>1, <2>2, OverTyped
    <2>4. steps[i].inputs = Over(step.program, Seen(step))
          /\ steps[i].outputs = Over(step.labels, Seen(step))
        BY <1>3
    <2>5. QED
        BY <2>3, <2>4 DEF StepTyped
<1>5. Len(steps) = n /\ DOMAIN steps = 1..n /\ (steps = <<>> <=> n = 0)
    <2> HIDE DEF n
    <2>1. QED
        BY <1>2, <1>3
<1>6. QED
    BY <1>2, <1>4, <1>5

(* What a config's windows and mappings are.                               *)
LEMMA ConfigTyped ==
    ASSUME NEW config \in Configs
    PROVE  /\ config.window \in Nat /\ config.horizon \in Nat
           /\ DOMAIN config.signals = 1..Len(config.signals) /\ Len(config.signals) \in Nat
           /\ DOMAIN config.program = 1..Len(config.program) /\ Len(config.program) \in Nat
           /\ config.label.const \in Int \cup {Nothing}
           /\ config.label.src \in {"inputs", "outputs", Nothing}
           /\ config.lane # Nothing =>
                  /\ config.lane.const \in Int \cup {Nothing}
                  /\ config.lane.src \in {"inputs", "outputs", Nothing}
<1>1. /\ config.window \in Nat /\ config.horizon \in Nat
      /\ config.signals \in Seq(ToSet(config.signals))
      /\ config.program \in Seq(ToSet(config.program))
      /\ \A map \in ToSet(config.signals) \cup ToSet(config.program)
                    \cup {config.label} \cup ({config.lane} \ {Nothing}) :
             /\ map.const \in Int \cup {Nothing}
             /\ map.src \in {"inputs", "outputs", Nothing}
    BY EventTypes
<1>2. /\ DOMAIN config.signals = 1..Len(config.signals) /\ Len(config.signals) \in Nat
    <2> DEFINE S == ToSet(config.signals)
    <2> HIDE DEF S
    <2>1. config.signals \in Seq(S)
        BY <1>1 DEF S
    <2>2. QED
        BY <2>1
<1>3. /\ DOMAIN config.program = 1..Len(config.program) /\ Len(config.program) \in Nat
    <2> DEFINE S == ToSet(config.program)
    <2> HIDE DEF S
    <2>1. config.program \in Seq(S)
        BY <1>1 DEF S
    <2>2. QED
        BY <2>1
<1>4. QED
    BY <1>1, <1>2, <1>3

(* A mapping a step has the field of resolves to an integer.               *)
LEMMA ResolveTyped ==
    ASSUME NEW step, StepTyped(step), NEW map, map.const \in Int \cup {Nothing},
           map.src \in {"inputs", "outputs", Nothing},
           validate_event_feature_mapping(map), ~Missing(step, map)
    PROVE  resolve_feature(step, map) \in Int
<1>1. CASE map.const # Nothing
    BY <1>1 DEF resolve_feature
<1>2. CASE map.const = Nothing
    <2>1. map.src # Nothing /\ map.field # Nothing
        BY <1>2 DEF validate_event_feature_mapping
    <2>2. map.field \in DOMAIN step[map.src]
        BY <1>2, <2>1 DEF Missing
    <2>3. step[map.src][map.field] \in Int
        BY <2>1, <2>2 DEF StepTyped
    <2>4. QED
        BY <1>2, <2>3 DEF resolve_feature
<1>3. QED
    BY <1>1, <1>2

(* How many samples a trace has.                                           *)
LEMMA SamplesTyped ==
    ASSUME NEW steps, Len(steps) \in Nat, NEW config \in Configs
    PROVE  /\ Samples(steps, config) \in Nat
           /\ Samples(steps, config) # 0 =>
                  Samples(steps, config) = Len(steps) - config.window - config.horizon + 1
           /\ Samples(steps, config) = 0 => Len(steps) < config.window + config.horizon
BY ConfigTyped DEF Samples

(* What is emitted, and when.                                              *)
EmittedEvent(steps, config, i) ==
    [schema  |-> TRUE,
     sample  |-> i - 1,
     lane    |-> resolve_lane(steps[i], config),
     target  |-> config.target,
     window  |-> config.window,
     horizon |-> config.horizon,
     program |-> FeatureMap(steps[i], config.program),
     signals |-> [o \in 1..config.window |-> FeatureMap(steps[i + o - 1], config.signals)],
     label   |-> FeatureMap(steps[LabelStep(i - 1, config)], <<config.label>>)]

Emittable(trace, steps, config) ==
    /\ trace.schema /\ validate_event_emitter_config(config)
    /\ \A sample \in 0..(Samples(steps, config) - 1) :
           ~SampleMissing(steps, config, sample) /\ LaneFits(steps[sample + 1], config)

(* Emission succeeds on what is emittable, with a sample's events.         *)
LEMMA Emission ==
    ASSUME NEW trace, NEW config, NEW steps, steps = normalize_rrtl_instrumentation_trace(trace),
           NEW news, news = emit_instrumented_event_corpus(trace, config)
    PROVE  /\ ~Emittable(trace, steps, config) => news = {}
           /\ Emittable(trace, steps, config) =>
                  news = {[schema |-> TRUE, hash |-> config.hash, top |-> config.top,
                           events |-> [i \in 1..Samples(steps, config) |->
                                          EmittedEvent(steps, config, i)]]}
<1> DEFINE good == [schema |-> TRUE, hash |-> config.hash, top |-> config.top,
                    events |-> [i \in 1..Samples(steps, config) |->
                                   EmittedEvent(steps, config, i)]]
           bad  == \/ ~validate_event_emitter_config(config)
                   \/ \E sample \in 0..(Samples(steps, config) - 1) :
                          SampleMissing(steps, config, sample)
                              \/ ~LaneFits(steps[sample + 1], config)
<1>1. emit_event_corpus(steps, config) = IF bad THEN {} ELSE {good}
    BY Zenon DEF emit_event_corpus, EmittedEvent
<1>2. news = IF trace.schema THEN emit_event_corpus(steps, config) ELSE {}
    BY Zenon DEF emit_instrumented_event_corpus
<1> HIDE DEF good
<1>3. Emittable(trace, steps, config) <=> trace.schema /\ ~bad
    BY Zenon DEF Emittable
<1> HIDE DEF bad
<1>4. news = IF trace.schema /\ ~bad THEN {good} ELSE {}
    BY <1>1, <1>2, Zenon
<1>5. QED
    BY <1>3, <1>4, Zenon DEF good

(* A sample that lacks nothing has the fields its mappings name.           *)
LEMMA EmittedLane ==
    ASSUME NEW trace \in Traces, NEW config \in Configs,
           NEW steps, steps = normalize_rrtl_instrumentation_trace(trace),
           Emittable(trace, steps, config), NEW i \in 1..Samples(steps, config)
    PROVE  resolve_lane(steps[i], config) \in Nat \cup {Nothing}
<1> DEFINE sample == i - 1
<1>1. Len(steps) \in Nat /\ \A k \in 1..Len(steps) : StepTyped(steps[k])
    BY TraceTyped
<1>2. /\ Samples(steps, config) \in Nat
      /\ Samples(steps, config) # 0 =>
             Samples(steps, config) = Len(steps) - config.window - config.horizon + 1
      /\ config.window \in Nat /\ config.horizon \in Nat
    BY <1>1, SamplesTyped, ConfigTyped
<1>3. sample \in 0..(Samples(steps, config) - 1) /\ sample + 1 = i
    BY <1>2
<1>4. config.window # 0 /\ config.horizon # 0
    BY DEF Emittable, validate_event_emitter_config
<1>5. i \in 1..Len(steps)
    BY <1>1, <1>2, <1>4
<1>6. ~SampleMissing(steps, config, sample) /\ LaneFits(steps[i], config)
    BY <1>3 DEF Emittable
<1>7. CASE config.lane = Nothing
    BY <1>7 DEF resolve_lane
<1>8. CASE config.lane # Nothing
    <2>1. ~Missing(steps[i], config.lane)
        BY <1>3, <1>6, <1>8 DEF SampleMissing
    <2>2. validate_event_feature_mapping(config.lane)
        BY <1>8 DEF Emittable, validate_event_emitter_config, Mappings
    <2>3. resolve_feature(steps[i], config.lane) \in Int
        BY <1>1, <1>5, <1>8, <2>1, <2>2, ConfigTyped, ResolveTyped
    <2>4. QED
        BY <1>6, <1>8, <2>3 DEF LaneFits, resolve_lane
<1>9. QED
    BY <1>7, <1>8

(* What is emitted is a corpus.                                            *)
LEMMA EmittedCorpus ==
    ASSUME NEW trace \in Traces, NEW config \in Configs,
           NEW steps, steps = normalize_rrtl_instrumentation_trace(trace),
           NEW new \in emit_instrumented_event_corpus(trace, config),
           NEW n, n = Samples(steps, config)
    PROVE  /\ CorpusTyped(new)
           /\ Emittable(trace, steps, config)
           /\ n \in Nat /\ Len(new.events) = n /\ DOMAIN new.events = 1..n
           /\ new.events = [i \in 1..n |-> EmittedEvent(steps, config, i)]
<1>1. n \in Nat
    BY TraceTyped, SamplesTyped
<1>2. Emittable(trace, steps, config)
    BY Emission, Zenon
<1>3. new.events = [i \in 1..n |-> EmittedEvent(steps, config, i)]
    <2> DEFINE only == [schema |-> TRUE, hash |-> config.hash, top |-> config.top,
                        events |-> [i \in 1..Samples(steps, config) |->
                                       EmittedEvent(steps, config, i)]]
    <2> DEFINE news == emit_instrumented_event_corpus(trace, config)
    <2>1. news = {only}
        <3>1. /\ steps = normalize_rrtl_instrumentation_trace(trace)
              /\ news = emit_instrumented_event_corpus(trace, config)
            OBVIOUS
        <3> HIDE DEF news
        <3>2. QED
            BY <1>2, <3>1, Emission
    <2>2. only.events = [i \in 1..Samples(steps, config) |-> EmittedEvent(steps, config, i)]
        OBVIOUS
    <2> HIDE DEF only
    <2>3. new = only
        BY <2>1
    <2>4. QED
        BY <2>2, <2>3
<1>4. \A i \in 1..n : resolve_lane(steps[i], config) \in Nat \cup {Nothing}
    BY <1>2, EmittedLane
<1>5. \A i \in 1..n : EmittedEvent(steps, config, i).lane \in Nat \cup {Nothing}
    BY <1>4 DEF EmittedEvent
<1>6. Len(new.events) = n /\ DOMAIN new.events = 1..n
    BY <1>1, <1>3
<1>7. QED
    BY <1>1, <1>2, <1>3, <1>5, <1>6 DEF CorpusTyped

(* So is what another tool writes.                                         *)
LEMMA WrittenCorpus ==
    ASSUME NEW c \in Corpora
    PROVE  CorpusTyped(c)
<1>1. /\ c.events \in Seq(ToSet(c.events))
      /\ \A i \in DOMAIN c.events : c.events[i].lane \in Nat \cup {Nothing}
    BY EventTypes
<1>2. Len(c.events) \in Nat /\ DOMAIN c.events = 1..Len(c.events)
    <2> DEFINE S == ToSet(c.events)
    <2> HIDE DEF S
    <2>1. c.events \in Seq(S)
        BY <1>1 DEF S
    <2>2. QED
        BY <2>1
<1>3. QED
    BY <1>1, <1>2 DEF CorpusTyped

-----------------------------------------------------------------------------
(* The inductive invariant.  A file is one of those a user writes, a       *)
(* policy report and a plan are what the commands make of some of them,    *)
(* and a runtime's attachment and execution report are sound for its       *)
(* shards, whatever happened to the files since.                           *)
Described(a, r) ==
    \E kind \in ActionKinds \cup {"None"} :
        r = from_attachment(a, kind, acted) /\ (kind = "None" <=> acted = 0)

RuntimeSide ==
    /\ t \in Topologies /\ rt \in Topologies \cup {<<>>}
    /\ acted \in Nat
    /\ \A a \in att : rt # <<>> /\ SoundAttachment(ShardsOf(rt), a)
    /\ \A a, other \in att : a = other
    /\ exec = {} <=> att = {}
    /\ \A r \in exec, a \in att : Described(a, r)

GemmSide ==
    /\ GemmFiles
    /\ policy # Nothing =>
           /\ policy.m \in GemmManifests /\ policy.b \in Batches
           /\ policy.report = policy_gemm_batch(policy.m, policy.b)

EventSide ==
    /\ EventFiles
    /\ tr \in Traces /\ cf \in Configs
    /\ policy # Nothing =>
           /\ policy.m \in EventManifests /\ CorpusTyped(policy.corpus)
           /\ policy.report = policy_event_corpus(policy.m, policy.corpus)
    /\ \A a \in att : a.schema = "event"

SurrogatesInv ==
    /\ part \in {"gemm", "events"}
    /\ RuntimeSide
    /\ part = "gemm" => GemmSide
    /\ part = "events" => EventSide

-----------------------------------------------------------------------------
(* The runtime.                                                            *)

(* A step that leaves the runtime alone keeps its side.                    *)
LEMMA RuntimeKept ==
    ASSUME RuntimeSide, t' \in Topologies, UNCHANGED <<rt, att, exec, acted>>
    PROVE  RuntimeSide'
BY DEF RuntimeSide, Described

(* So does a new runtime,                                                  *)
LEMMA RuntimeBuilt ==
    ASSUME RuntimeSide, BuildRuntime
    PROVE  RuntimeSide'
BY DEF RuntimeSide, BuildRuntime

(* an accepted attachment,                                                 *)
LEMMA RuntimeAttached ==
    ASSUME RuntimeSide, rt # <<>>, NEW new, SoundAttachment(ShardsOf(rt), new), Attached(new)
    PROVE  RuntimeSide'
<1>1. exec' = {from_attachment(new, "None", 0)} /\ att' = {new} /\ acted' = 0
      /\ rt' = rt /\ t' = t
    BY DEF Attached, inspect_attachment
<1>2. Described(new, from_attachment(new, "None", 0))'
    BY <1>1 DEF Described
<1>3. QED
    BY <1>1, <1>2 DEF RuntimeSide

(* reset statistics,                                                       *)
LEMMA RuntimeReset ==
    ASSUME RuntimeSide, ResetStats
    PROVE  RuntimeSide'
<1>1. exec' = {from_attachment(a, "None", 0) : a \in att} /\ att' = att /\ acted' = 0
      /\ rt' = rt /\ t' = t
    BY DEF ResetStats, inspect_attachment
<1>2. ASSUME NEW r \in exec', NEW a \in att'
      PROVE  Described(a, r)'
    <2>1. r = from_attachment(a, "None", 0)
        BY <1>1, <1>2 DEF RuntimeSide
    <2>2. QED
        BY <1>1, <2>1 DEF Described
<1>3. exec' = {} <=> att' = {}
    BY <1>1
<1>4. QED
    BY <1>1, <1>2, <1>3 DEF RuntimeSide

(* and an action, which counts one more.                                   *)
LEMMA RuntimeActed ==
    ASSUME RuntimeSide, NEW kind \in ActionKinds, RuntimeAction(kind)
    PROVE  RuntimeSide'
<1>1. att' = att /\ rt' = rt /\ t' = t
      /\ exec' = record_surrogate_execution(att, exec, kind)
      /\ acted' = IF att = {} THEN acted ELSE acted + 1
    BY DEF RuntimeAction
<1>2. CASE att = {}
    <2>1. exec' = exec /\ acted' = acted
        BY <1>1, <1>2 DEF record_surrogate_execution
    <2>2. QED
        BY <1>1, <2>1, RuntimeKept DEF RuntimeSide
<1>3. CASE att # {}
    <2>1. PICK a \in att : TRUE
        BY <1>3
    <2>2. att = {a}
        BY <2>1 DEF RuntimeSide
    <2>3. exec # {} /\ \A r \in exec : r.count = acted
        <3>1. \A r \in exec : Described(a, r)
            BY DEF RuntimeSide
        <3>2. \A known : from_attachment(a, known, acted).count = acted
            BY ExecutionFits DEF RuntimeSide, ReportFits
        <3>3. QED
            BY <1>3, <3>1, <3>2 DEF RuntimeSide, Described
    <2>4. ActionCount(exec) = acted
        BY <2>3 DEF ActionCount
    <2>5. exec' = {from_attachment(a, kind, acted + 1)}
        BY <1>1, <1>3, <2>2, <2>4 DEF record_surrogate_execution
    <2>6. acted' = acted + 1 /\ acted \in Nat
        BY <1>1, <1>3 DEF RuntimeSide
    <2>7. kind # "None"
        BY DEF ActionKinds
    <2>8. ASSUME NEW r \in exec', NEW one \in att'
          PROVE  Described(one, r)'
        <3>1. one = a /\ r = from_attachment(a, kind, acted + 1)
            BY <1>1, <2>2, <2>5
        <3>2. r = from_attachment(one, kind, acted')
            BY <2>6, <3>1
        <3>3. acted' # 0
            BY <2>6
        <3>4. QED
            BY <2>7, <3>2, <3>3, Zenon DEF Described
    <2>9. exec' # {} /\ att' # {} /\ acted' \in Nat
        BY <1>1, <1>3, <2>5, <2>6
    <2>10. /\ t' \in Topologies /\ rt' \in Topologies \cup {<<>>}
           /\ \A one \in att' : rt' # <<>> /\ SoundAttachment(ShardsOf(rt'), one)
           /\ \A one, other \in att' : one = other
        BY <1>1 DEF RuntimeSide
    <2>11. QED
        BY <2>8, <2>9, <2>10 DEF RuntimeSide
<1>4. QED
    BY <1>2, <1>3

(* Every step of the runtime does.                                         *)
LEMMA RuntimeStep ==
    ASSUME RuntimeSide, RuntimeNext
    PROVE  RuntimeSide'
BY RuntimeBuilt, RuntimeReset, RuntimeActed DEF RuntimeNext

(* Nothing is attached at the start.                                       *)
LEMMA RuntimeStarts ==
    ASSUME RuntimeInit, t \in Topologies
    PROVE  RuntimeSide
BY DEF RuntimeInit, RuntimeSide

(* What a step of the runtime leaves alone.                                *)
LEMMA RuntimeLeaves ==
    ASSUME RuntimeNext
    PROVE  /\ UNCHANGED <<m, t, policy, plan, madeFor>>
           /\ att' = {} \/ att' = att
BY DEF RuntimeNext, BuildRuntime, ResetStats, RuntimeAction

-----------------------------------------------------------------------------
(* GEMM.                                                                   *)

(* The GEMM pipeline starts in the invariant.                              *)
LEMMA GemmStarts ==
    ASSUME GemmInit
    PROVE  RuntimeSide /\ GemmSide
<1>1. RuntimeSide
    BY RuntimeStarts DEF GemmInit
<1>2. GemmSide
    BY DEF GemmInit, RuntimeInit, GemmSide, GemmFiles, GemmPlanMade
<1>3. QED
    BY <1>1, <1>2

(* A new plan is made of the files of its policy report.                   *)
LEMMA GemmPlanned ==
    ASSUME GemmSide, policy # Nothing, NEW workers, SpecsTyped(workers), Plan(workers)
    PROVE  GemmSide'
<1>1. GemmPlanMade'
    BY DEF GemmSide, Plan, GemmPlanMade
<1>2. QED
    BY <1>1 DEF GemmSide, GemmFiles, Plan

(* Every step of the GEMM pipeline keeps the invariant.                    *)
LEMMA GemmStep ==
    ASSUME RuntimeSide, GemmSide, GemmNext
    PROVE  RuntimeSide' /\ GemmSide'
<1>1. CASE GemmEdit
    <2>1. t' \in Topologies /\ m' \in GemmManifests /\ b' \in Batches
        BY <1>1 DEF GemmEdit, RuntimeSide, GemmSide, GemmFiles
    <2>2. UNCHANGED <<policy, plan, rt, att, exec, madeFor, acted>>
        BY <1>1 DEF GemmEdit
    <2>3. RuntimeSide'
        BY <2>1, <2>2, RuntimeKept
    <2>4. GemmPlanMade'
        BY <2>2 DEF GemmSide, GemmFiles, GemmPlanMade
    <2>5. QED
        BY <2>1, <2>2, <2>3, <2>4 DEF GemmSide, GemmFiles
<1>2. CASE PolicyGemmBatch
    <2>1. RuntimeSide'
        BY <1>2, RuntimeKept DEF PolicyGemmBatch, RuntimeSide
    <2>2. GemmPlanMade'
        BY <1>2 DEF PolicyGemmBatch, GemmSide, GemmFiles, GemmPlanMade
    <2>3. QED
        BY <1>2, <2>1, <2>2 DEF PolicyGemmBatch, GemmSide, GemmFiles
<1>3. CASE PlanRuntimeGemm
    <2>1. PICK workers : Plan(workers) /\ SpecsTyped(workers)
        BY <1>3, ShardsContiguous, SpecListsTyped, OneWorkerTyped
        DEF PlanRuntimeGemm, RuntimeSide
    <2>2. RuntimeSide'
        BY <2>1, RuntimeKept DEF Plan, RuntimeSide
    <2>3. policy # Nothing
        BY <1>3 DEF PlanRuntimeGemm
    <2>4. QED
        BY <2>1, <2>2, <2>3, GemmPlanned
<1>4. CASE AttachSurrogatePlan
    <2>1. GemmSide'
        <3>1. UNCHANGED <<m, b, policy, plan, madeFor>>
            BY <1>4 DEF AttachSurrogatePlan, Attached, runtimeVars
        <3>2. QED
            BY <3>1 DEF GemmSide, GemmFiles, GemmPlanMade
    <2>2. CASE gemm_plan_attaches(ShardsOf(rt), plan)
        <3> DEFINE new == attach_gemm_runtime_plan_to_shard_infos(ShardsOf(rt), plan)
        <3>1. Attached(new) /\ plan # Nothing /\ rt # <<>> /\ rt \in Topologies
            BY <1>4, <2>2 DEF AttachSurrogatePlan, RuntimeSide
        <3>2. SoundAttachment(ShardsOf(rt), new)
            BY <2>2, <3>1, GemmAttached DEF GemmSide
        <3>3. QED
            BY <2>1, <3>1, <3>2, RuntimeAttached
    <2>3. CASE ~gemm_plan_attaches(ShardsOf(rt), plan)
        <3>1. UNCHANGED runtimeVars
            BY <1>4, <2>3 DEF AttachSurrogatePlan
        <3>2. QED
            BY <2>1, <3>1, RuntimeKept DEF runtimeVars, RuntimeSide
    <2>4. QED
        BY <2>2, <2>3
<1>5. CASE RuntimeNext /\ UNCHANGED b
    <2>1. UNCHANGED <<m, b, policy, plan, madeFor>>
        BY <1>5, RuntimeLeaves
    <2>2. GemmSide'
        BY <2>1 DEF GemmSide, GemmFiles, GemmPlanMade
    <2>3. QED
        BY <1>5, <2>2, RuntimeStep
<1>6. QED
    BY <1>1, <1>2, <1>3, <1>4, <1>5 DEF GemmNext

-----------------------------------------------------------------------------
(* Events.                                                                 *)

(* The event pipeline starts in the invariant.                             *)
LEMMA EventStarts ==
    ASSUME EventInit
    PROVE  RuntimeSide /\ EventSide
<1>1. RuntimeSide
    BY RuntimeStarts DEF EventInit
<1>2. PICK w \in Workspaces : tr = w.tr /\ cf = w.cf /\ corpus = w.corpus
    BY DEF EventInit
<1>3. tr \in Traces /\ cf \in Configs /\ corpus \in Corpora \cup {Nothing}
    BY <1>2, EventTypes
<1>4. corpus # Nothing => CorpusTyped(corpus)
    BY <1>3, WrittenCorpus
<1>5. QED
    BY <1>1, <1>3, <1>4 DEF EventInit, RuntimeInit, EventSide, EventFiles, EventPlanMade

(* A new plan is made of the files of its policy report.                   *)
LEMMA EventPlanned ==
    ASSUME EventSide, policy # Nothing, NEW workers, SpecsTyped(workers), EventPlan(workers)
    PROVE  EventSide'
<1>1. EventPlanMade'
    BY DEF EventSide, EventPlan, EventPlanMade
<1>2. UNCHANGED <<m, policy, att, tr, cf, corpus>>
    BY DEF EventPlan
<1>3. QED
    BY <1>1, <1>2 DEF EventSide, EventFiles

(* What leaves the plan and the policy report alone keeps both as made.    *)
LEMMA EventKept ==
    ASSUME EventSide, UNCHANGED <<policy, plan, madeFor>>,
           m' \in EventManifests, tr' \in Traces, cf' \in Configs,
           (corpus # Nothing => CorpusTyped(corpus))',
           \A a \in att' : a.schema = "event"
    PROVE  EventSide'
<1>1. EventPlanMade'
    BY DEF EventSide, EventFiles, EventPlanMade
<1>2. QED
    BY <1>1 DEF EventSide, EventFiles

(* Every step of the event pipeline keeps the invariant.                   *)
LEMMA EventStep ==
    ASSUME RuntimeSide, EventSide, EventNext
    PROVE  RuntimeSide' /\ EventSide'
<1>1. CASE EventEdit
    <2>1. /\ t' \in Topologies /\ m' \in EventManifests /\ tr' \in Traces /\ cf' \in Configs
          /\ corpus' \in Corpora \cup {corpus}
        BY <1>1 DEF EventEdit, RuntimeSide, EventSide, EventFiles
    <2>2. UNCHANGED <<policy, plan, rt, att, exec, madeFor, acted>>
        BY <1>1 DEF EventEdit
    <2>3. RuntimeSide'
        BY <2>1, <2>2, RuntimeKept
    <2>4. (corpus # Nothing => CorpusTyped(corpus))'
        BY <2>1, WrittenCorpus DEF EventSide, EventFiles
    <2>5. QED
        BY <2>1, <2>2, <2>3, <2>4, EventKept DEF EventSide
<1>2. CASE EmitInstrumented
    <2>1. UNCHANGED runtimeVars /\ UNCHANGED <<tr, cf>>
        BY <1>2 DEF EmitInstrumented
    <2>2. RuntimeSide'
        BY <2>1, RuntimeKept DEF RuntimeSide, runtimeVars
    <2>3. corpus' \in emit_instrumented_event_corpus(tr, cf)
        BY <1>2 DEF EmitInstrumented
    <2>4. CorpusTyped(corpus)'
        BY <2>3, EmittedCorpus DEF EventSide
    <2>5. QED
        BY <2>1, <2>2, <2>4, EventKept DEF EventSide, EventFiles, runtimeVars
<1>3. CASE PolicyEvents
    <2>1. /\ UNCHANGED <<m, t, plan, rt, att, exec, madeFor, acted, edits, tr, cf, corpus>>
          /\ corpus # Nothing
          /\ policy' = [m |-> m, corpus |-> corpus, report |-> policy_event_corpus(m, corpus)]
        BY <1>3 DEF PolicyEvents
    <2>2. RuntimeSide'
        BY <2>1, RuntimeKept DEF RuntimeSide
    <2>3. EventPlanMade'
        BY <2>1 DEF EventSide, EventFiles, EventPlanMade
    <2>4. QED
        BY <2>1, <2>2, <2>3 DEF EventSide, EventFiles
<1>4. CASE PlanRuntimeEvents
    <2>1. PICK workers : EventPlan(workers) /\ SpecsTyped(workers)
        BY <1>4, ShardsContiguous, SpecListsTyped, OneWorkerTyped
        DEF PlanRuntimeEvents, RuntimeSide
    <2>2. RuntimeSide'
        BY <2>1, RuntimeKept DEF EventPlan, RuntimeSide
    <2>3. policy # Nothing
        BY <1>4 DEF PlanRuntimeEvents
    <2>4. QED
        BY <2>1, <2>2, <2>3, EventPlanned
<1>5. CASE AttachEventSurrogatePlan
    <2>1. UNCHANGED <<m, policy, plan, madeFor, tr, cf, corpus>>
        BY <1>5 DEF AttachEventSurrogatePlan, Attached, runtimeVars
    <2>2. CASE event_plan_attaches(ShardsOf(rt), plan)
        <3> DEFINE new == attach_event_runtime_plan_to_shard_infos(ShardsOf(rt), plan)
        <3>1. Attached(new) /\ plan # Nothing /\ rt # <<>> /\ rt \in Topologies
            BY <1>5, <2>2 DEF AttachEventSurrogatePlan, RuntimeSide
        <3>2. SoundAttachment(ShardsOf(rt), new) /\ new.schema = "event"
            BY <2>2, <3>1, EventAttached DEF EventSide
        <3>3. RuntimeSide'
            BY <3>1, <3>2, RuntimeAttached
        <3>4. \A a \in att' : a.schema = "event"
            BY <3>1, <3>2 DEF Attached
        <3>5. QED
            BY <2>1, <3>3, <3>4, EventKept DEF EventSide, EventFiles
    <2>3. CASE ~event_plan_attaches(ShardsOf(rt), plan)
        <3>1. UNCHANGED runtimeVars
            BY <1>5, <2>3 DEF AttachEventSurrogatePlan
        <3>2. QED
            BY <2>1, <3>1, RuntimeKept, EventKept DEF runtimeVars, RuntimeSide, EventSide, EventFiles
    <2>4. QED
        BY <2>2, <2>3
<1>6. CASE RuntimeNext /\ UNCHANGED <<tr, cf, corpus>>
    <2>1. UNCHANGED <<m, policy, plan, madeFor>> /\ (att' = {} \/ att' = att)
        BY <1>6, RuntimeLeaves
    <2>2. EventSide'
        BY <1>6, <2>1, EventKept DEF EventSide, EventFiles
    <2>3. QED
        BY <1>6, <2>2, RuntimeStep
<1>7. QED
    BY <1>1, <1>2, <1>3, <1>4, <1>5, <1>6 DEF EventNext

-----------------------------------------------------------------------------
(* The surrogates.                                                         *)

(* SurrogatesInv holds of every state.                                     *)
THEOREM SurrogatesSafe == SurrogatesSpec => []SurrogatesInv
<1>1. SurrogatesInit => SurrogatesInv
    BY GemmStarts, EventStarts DEF SurrogatesInit, SurrogatesInv
<1>2. SurrogatesInv /\ [SurrogatesNext]_surrogatesVars => SurrogatesInv'
    <2> SUFFICES ASSUME SurrogatesInv, [SurrogatesNext]_surrogatesVars
                 PROVE  SurrogatesInv'
        OBVIOUS
    <2>1. CASE part = "events" /\ EventNext /\ UNCHANGED <<part, b>>
        BY <2>1, EventStep DEF SurrogatesInv
    <2>2. CASE part = "gemm" /\ GemmNext /\ UNCHANGED <<part, tr, cf, corpus>>
        BY <2>2, GemmStep DEF SurrogatesInv
    <2>3. CASE UNCHANGED surrogatesVars
        <3>1. /\ UNCHANGED <<part, b, tr, cf, corpus>>
              /\ UNCHANGED <<m, t, policy, plan, rt, att, exec, madeFor, acted, edits>>
            BY <2>3 DEF surrogatesVars, runtimeVars
        <3>2. RuntimeSide'
            BY <3>1, RuntimeKept DEF SurrogatesInv, RuntimeSide
        <3>3. part = "gemm" => GemmSide'
            BY <3>1 DEF SurrogatesInv, GemmSide, GemmFiles, GemmPlanMade
        <3>4. part = "events" => EventSide'
            BY <3>1, EventKept DEF SurrogatesInv, EventSide, EventFiles
        <3>5. QED
            BY <3>1, <3>2, <3>3, <3>4 DEF SurrogatesInv
    <2>4. QED
        BY <2>1, <2>2, <2>3 DEF SurrogatesNext
<1>3. QED
    BY <1>1, <1>2, PTL DEF SurrogatesSpec

(* PoliciesSafe, of every manifest, trace, batch and corpus.               *)
THEOREM SurrogatePolicies == SurrogatesSpec => []PoliciesSafe
<1>1. SurrogatesInv => PoliciesSafe
    BY GemmPolicyIsSafe, EventPolicyIsSafe
    DEF SurrogatesInv, GemmSide, EventSide, PoliciesSafe
<1>2. QED
    BY <1>1, SurrogatesSafe, PTL

(* PlansHonoured, of every topology.                                       *)
THEOREM SurrogatePlans == SurrogatesSpec => []PlansHonoured
<1>1. RuntimeSide => AttachedOnOwnedLanes
    BY DEF RuntimeSide, AttachedOnOwnedLanes, SoundAttachment, RightlyAttached
<1>2. SurrogatesInv => PlansHonoured
    BY <1>1, GemmOwnPlan, GemmStalePlan, EventOwnPlan
    DEF SurrogatesInv, GemmSide, EventSide, PlansHonoured, GemmPlansHonoured, EventPlansHonoured
<1>3. QED
    BY <1>2, SurrogatesSafe, PTL

-----------------------------------------------------------------------------
(* The counters of FAST runs.                                              *)

(* A plan's workers are the specs it was made for.                         *)
LEMMA SummariesCover ==
    ASSUME NEW ws, SpecsTyped(ws), validate_runtime_worker_specs(ws),
           NEW items, NEW sums, sums = PlanSummaries(ws, items)
    PROVE  /\ SpecsTyped(sums) /\ Contiguous(sums)
           /\ \A lane : Covered(ws, lane) => Covered(sums, lane)
<1> DEFINE N == Len(ws)
<1>1. N \in Nat /\ DOMAIN ws = 1..N
    BY DEF SpecsTyped
<1>2. sums = [k \in 1..N |-> PlanSummary(ws[k], items)]
    BY <1>1 DEF PlanSummaries
<1>3. \A k \in 1..N : sums[k].start = ws[k].start /\ sums[k].lanes = ws[k].lanes
    BY <1>2 DEF PlanSummary
<1>4. Len(sums) = N /\ DOMAIN sums = 1..N
    <2> HIDE DEF N
    <2>1. QED
        BY <1>1, <1>2
<1>5. Contiguous(ws)
    BY ValidSpecs
<1>6. SpecsTyped(sums)
    BY <1>1, <1>3, <1>4 DEF SpecsTyped
<1>7. Contiguous(sums)
    <2> SUFFICES ASSUME NEW i \in 1..N
                 PROVE  sums[i].start = IF i = 1 THEN 0 ELSE sums[i - 1].start + sums[i - 1].lanes
        BY <1>4 DEF Contiguous
    <2>1. i # 1 => i - 1 \in 1..N
        BY <1>1
    <2>2. QED
        BY <1>3, <1>5, <2>1 DEF Contiguous
<1>8. \A lane : Covered(ws, lane) => Covered(sums, lane)
    BY <1>1, <1>3, <1>4 DEF Covered, Covers
<1>9. QED
    BY <1>6, <1>7, <1>8

(* A FAST report whose items lie on its plan's lanes adds up.              *)
LEMMA FastTallies ==
    ASSUME NEW ws, SpecsTyped(ws), validate_runtime_worker_specs(ws),
           NEW items, NEW fast, IsFiniteSet(DOMAIN fast.results),
           \A i \in DOMAIN fast.results :
               fast.results[i].lane \in Nat /\ Covered(ws, fast.results[i].lane),
           fast.totals = Tally(fast.results, DOMAIN fast.results),
           fast.workers = WorkerTallies(PlanSummaries(ws, items), fast.results),
           fast.lanes = LaneTallies(fast.results)
    PROVE  TalliesAddUp(fast)
<1> DEFINE sums == PlanSummaries(ws, items)
<1>1. /\ SpecsTyped(sums) /\ Contiguous(sums)
      /\ \A lane : Covered(ws, lane) => Covered(sums, lane)
    BY SummariesCover
<1> HIDE DEF sums
<1>2. ASSUME NEW field \in Counters
      PROVE  SumOf([k \in DOMAIN fast.workers |-> fast.workers[k].counts[field]])
                 = fast.totals[field]
    BY <1>1, WorkersAddUp DEF sums
<1>3. ASSUME NEW field \in Counters
      PROVE  SumOverLanes(fast.lanes, field) = fast.totals[field]
    <2>1. DOMAIN fast.lanes = LanesUsed(fast.results)
        BY DEF LaneTallies
    <2>2. \A lane \in DOMAIN fast.lanes :
              fast.lanes[lane][field] = Tally(fast.results, OnLane(fast.results, lane))[field]
        BY DEF LaneTallies
    <2>3. QED
        BY <2>1, <2>2, LanesAddUp
<1>4. QED
    BY <1>2, <1>3 DEF TalliesAddUp

(* CountersAddUp, of the files on disk.                                    *)
LEMMA GemmCounters ==
    ASSUME GemmFiles
    PROVE  CountersAddUp
<1> SUFFICES ASSUME plan # Nothing, NEW fast \in FastRuns, fast.ok
             PROVE  TalliesAddUp(fast)
    BY DEF CountersAddUp
<1> DEFINE ws == madeFor.workers
           n  == Len(b.txs)
<1>1. /\ n \in Nat /\ DOMAIN fast.results = 1..n
      /\ fast.totals = Tally(fast.results, DOMAIN fast.results)
      /\ fast.workers = WorkerTallies(plan.workers, fast.results)
      /\ fast.lanes = LaneTallies(fast.results)
      /\ plan.ok
    BY FastRunItems DEF validate_fast_gemm_plan
<1>2. Len(plan.items) = n /\ \A i \in 1..n : plan.items[i].lane = fast.results[i].lane
    BY <1>1, FastRunOk
<1>3. /\ SpecsTyped(ws) /\ validate_runtime_worker_specs(ws)
      /\ plan.workers = PlanSummaries(ws, plan.items)
      /\ Numbered(plan.items, Len(madeFor.b.txs))
      /\ \A i \in 1..Len(madeFor.b.txs) :
             plan.items[i].lane \in Nat /\ Covered(ws, plan.items[i].lane)
    <2> DEFINE pol == policy_gemm_batch(madeFor.m, madeFor.b)
               k   == Len(madeFor.b.txs)
    <2>1. /\ plan.workers = PlanSummaries(ws, plan.items) /\ Numbered(plan.items, k)
          /\ validate_runtime_worker_specs(ws) /\ SpecsTyped(ws)
          /\ \A i \in 1..k : /\ GemmItemOf(madeFor.m, madeFor.b, i, pol.results[i])
                             /\ Plannable(pol.results[i], ws)
                             /\ plan.items[i] = runtime_plan_item(pol.results[i], ws)
        BY <1>1, GemmPlanItems DEF GemmFiles, GemmPlanMade
    <2>2. \A i \in 1..k : plan.items[i].lane = pol.results[i].lane
        <3>1. \A it : runtime_plan_item(it, ws).lane = it.lane
            BY DEF runtime_plan_item
        <3>2. QED
            BY <2>1, <3>1
    <2>3. \A i \in 1..k : pol.results[i].lane \in Nat /\ Covered(ws, pol.results[i].lane)
        BY <2>1 DEF GemmItemOf, Plannable
    <2>4. QED
        BY <2>1, <2>2, <2>3
<1>4. Len(madeFor.b.txs) = n
    BY <1>2, <1>3 DEF Numbered
<1>5. \A i \in DOMAIN fast.results :
          fast.results[i].lane \in Nat /\ Covered(ws, fast.results[i].lane)
    BY <1>1, <1>2, <1>3, <1>4
<1>6. IsFiniteSet(DOMAIN fast.results)
    BY <1>1, FS_Interval
<1>7. QED
    BY <1>1, <1>3, <1>5, <1>6, FastTallies

(* The counters of an ok FAST report of events add up.                     *)
LEMMA EventTallies ==
    ASSUME EventFiles, plan # Nothing, NEW fast \in FastEventRuns, fast.ok
    PROVE  TalliesAddUp(fast)
<1> DEFINE ws  == madeFor.workers
           pol == policy_event_corpus(madeFor.m, madeFor.corpus)
           k   == Len(pol.results)
<1>1. /\ IsFiniteSet(DOMAIN fast.results)
      /\ DOMAIN fast.results = 1..Len(fast.results)
      /\ fast.totals = Tally(fast.results, DOMAIN fast.results)
      /\ fast.workers = WorkerTallies(plan.workers, fast.results)
      /\ fast.lanes = LaneTallies(fast.results)
      /\ plan.ok
    BY FastEventRunItems, FS_Interval DEF validate_fast_event_plan
<1>2. /\ Len(plan.items) = Len(fast.results)
      /\ \A i \in DOMAIN fast.results : plan.items[i].lane = fast.results[i].lane
    BY FastEventRunOk
<1>3. /\ plan.workers = PlanSummaries(ws, plan.items) /\ Numbered(plan.items, k)
      /\ validate_runtime_worker_specs(ws) /\ SpecsTyped(ws)
      /\ \A i \in 1..k : /\ EventItemOf(madeFor.m, madeFor.corpus, i, pol.results[i])
                         /\ EventPlannable(pol.results[i], ws)
                         /\ plan.items[i] = runtime_event_plan_item(pol.results[i], ws)
    BY <1>1, EventPlanItems DEF EventFiles, EventPlanMade
<1>4. \A i \in 1..k : plan.items[i].lane = pol.results[i].lane
    <2>1. \A it : runtime_event_plan_item(it, ws).lane = it.lane
        BY DEF runtime_event_plan_item
    <2>2. QED
        BY <1>3, <2>1
<1>5. \A i \in 1..k : pol.results[i].lane \in Nat /\ Covered(ws, pol.results[i].lane)
    BY <1>3 DEF EventItemOf, EventPlannable
<1>6. Len(plan.items) = k
    BY <1>3 DEF Numbered
<1>7. \A i \in DOMAIN fast.results :
          fast.results[i].lane \in Nat /\ Covered(ws, fast.results[i].lane)
    BY <1>1, <1>2, <1>4, <1>5, <1>6
<1>8. QED
    BY <1>1, <1>3, <1>7, FastTallies

(* EventCountersAddUp, of the files on disk and the runtime.               *)
LEMMA EventCounters ==
    ASSUME RuntimeSide, EventSide
    PROVE  EventCountersAddUp
<1>1. ASSUME NEW r \in exec
      PROVE  CountersFit(r)
    <2>1. PICK a \in att : TRUE
        BY DEF RuntimeSide
    <2>2. SoundAttachment(ShardsOf(rt), a) /\ a.schema = "event" /\ Described(a, r)
        BY DEF RuntimeSide, EventSide
    <2>3. QED
        BY <2>2, ExecutionCounters DEF Described
<1>2. QED
    BY <1>1, EventTallies DEF EventCountersAddUp, CountersFit, EventSide

(* The execution report, of both pipelines.                                *)
LEMMA ExecutionDescribed ==
    ASSUME RuntimeSide
    PROVE  ExecutionDescribesAttachment
<1>1. ASSUME NEW r \in exec, NEW a \in att
      PROVE  ReportFits(a, r, acted) /\ (r.kind = "None") = (acted = 0)
    <2>1. PICK kind \in ActionKinds \cup {"None"} :
              r = from_attachment(a, kind, acted) /\ (kind = "None" <=> acted = 0)
        BY DEF RuntimeSide, Described
    <2>2. ReportFits(a, r, acted) /\ r.kind = kind
        BY <2>1, ExecutionFits DEF RuntimeSide
    <2>3. QED
        BY <2>1, <2>2
<1>2. (exec = {}) = (att = {})
    BY DEF RuntimeSide
<1>3. QED
    BY <1>1, <1>2 DEF ExecutionDescribesAttachment, ReportFits

-----------------------------------------------------------------------------
(* run-gemm-batch and the policy.                                          *)

BatchRunOf(man, batch, run, n) ==
    /\ n \in Nat /\ DOMAIN run.results = 1..n /\ Len(run.results) = n
    /\ \A i \in 1..n : /\ run.results[i].ok = Passed(Surrogate(man, batch, i))
                       /\ run.results[i].lane = LaneOf(batch.txs[i], i - 1)
    /\ run.lanes = [lane \in LanesUsed(run.results) |->
           [count  |-> Cardinality(OnLane(run.results, lane)),
            ok     |-> Cardinality({i \in OnLane(run.results, lane) : run.results[i].ok}),
            failed |-> Cardinality({i \in OnLane(run.results, lane) : ~run.results[i].ok})]]
    /\ run.ok <=> run.results # <<>> /\ \A i \in DOMAIN run.results : run.results[i].ok

(* What run_gemm_batch reports.                                            *)
LEMMA BatchRun ==
    ASSUME NEW man \in GemmManifests, NEW batch \in Batches,
           NEW run, run = run_gemm_batch(man, batch), NEW n, n = Len(batch.txs)
    PROVE  BatchRunOf(man, batch, run, n)
<1> DEFINE items == [i \in 1..n |-> [index  |-> i - 1,
                                     lane   |-> LaneOf(batch.txs[i], i - 1),
                                     ok     |-> Passed(Surrogate(man, batch, i)),
                                     result |-> Surrogate(man, batch, i)]]
<1>1. n \in Nat /\ DOMAIN batch.txs = 1..n
    BY BatchTyped
<1>2. run.results = items
    BY <1>1 DEF run_gemm_batch
<1>3. run.lanes = [lane \in LanesUsed(items) |->
                      [count  |-> Cardinality(OnLane(items, lane)),
                       ok     |-> Cardinality({i \in OnLane(items, lane) : items[i].ok}),
                       failed |-> Cardinality({i \in OnLane(items, lane) : ~items[i].ok})]]
    BY <1>1 DEF run_gemm_batch
<1>4. run.ok <=> items # <<>> /\ \A i \in DOMAIN items : items[i].ok
    BY <1>1 DEF run_gemm_batch
<1>5. \A i \in 1..n : /\ items[i].ok = Passed(Surrogate(man, batch, i))
                      /\ items[i].lane = LaneOf(batch.txs[i], i - 1)
    OBVIOUS
<1>6. DOMAIN items = 1..n /\ Len(items) = n
    BY <1>1
<1> HIDE DEF items
<1>7. QED
    BY <1>1, <1>2, <1>3, <1>4, <1>5, <1>6 DEF BatchRunOf

(* A set is split by a condition.                                          *)
LEMMA SplitCount ==
    ASSUME NEW T, IsFiniteSet(T), NEW U, NEW V, U \cup V = T, U \cap V = {}
    PROVE  Cardinality(U) + Cardinality(V) = Cardinality(T)
<1>1. IsFiniteSet(U) /\ IsFiniteSet(V)
    BY FS_Subset
<1>2. QED
    BY <1>1, FS_Union, FS_EmptySet, FS_CardinalityType

(* BatchRunAgreesWithPolicy, of every policy report.                       *)
LEMMA BatchAgrees ==
    ASSUME GemmSide
    PROVE  BatchRunAgreesWithPolicy
<1> SUFFICES ASSUME policy # Nothing, policy.m.mode = "ApproximateWithTolerance"
             PROVE  LET run == run_gemm_batch(policy.m, policy.b)
                    IN  /\ \A lane \in DOMAIN run.lanes :
                               /\ run.lanes[lane].ok =
                                      Cardinality({i \in DOMAIN policy.report.results :
                                          /\ policy.report.results[i].lane = lane
                                          /\ policy.report.results[i].decision
                                                 = "SurrogateUsed"})
                               /\ run.lanes[lane].ok + run.lanes[lane].failed
                                      = run.lanes[lane].count
                        /\ CountSeq(run.results, LAMBDA it : it.ok) = policy.report.used
                        /\ CountSeq(run.results, LAMBDA it : ~it.ok)
                               = policy.report.exacts + policy.report.closed
                        /\ run.ok => policy.report.ok
    BY DEF BatchRunAgreesWithPolicy
<1> DEFINE man   == policy.m
           batch == policy.b
           run   == run_gemm_batch(man, batch)
           pol   == policy.report
           n     == Len(batch.txs)
           good  == {i \in 1..n : pol.results[i].decision = "SurrogateUsed"}
           exact == {i \in 1..n : pol.results[i].decision \in {"ExactFallback", "ShadowCompare"}}
           shut  == {i \in 1..n : pol.results[i].decision = "FailClosed"}
<1>1. man \in GemmManifests /\ batch \in Batches /\ pol = policy_gemm_batch(man, batch)
    BY DEF GemmSide
<1>2. BatchRunOf(man, batch, run, n)
    <2>1. run = run_gemm_batch(man, batch) /\ n = Len(batch.txs)
        OBVIOUS
    <2> HIDE DEF run, n
    <2>2. QED
        BY <1>1, <2>1, BatchRun
<1>3. Numbered(pol.results, n) /\ \A i \in 1..n : GemmItemOf(man, batch, i, pol.results[i])
    BY <1>1, GemmPolicy
<1>4. pol = GemmPolicyReport(pol.results)
    BY <1>1 DEF policy_gemm_batch, GemmPolicyReport
<1> HIDE DEF run, n
<1>5. \A i \in 1..n : /\ run.results[i].ok <=> pol.results[i].decision = "SurrogateUsed"
                     /\ run.results[i].lane = pol.results[i].lane
    BY <1>2, <1>3 DEF GemmItemOf, BatchRunOf
<1>6. DOMAIN pol.results = 1..n /\ Len(pol.results) = n
    BY <1>3 DEF Numbered
<1>7. /\ pol.used = Cardinality(good) /\ pol.exacts = Cardinality(exact)
      /\ pol.closed = Cardinality(shut)
      /\ pol.ok <=> /\ pol.results # <<>> /\ pol.closed = 0
                     /\ \A i \in DOMAIN pol.results : pol.results[i].ok
    <2> DEFINE res == pol.results
    <2> HIDE DEF res
    <2>1. pol = GemmPolicyReport(res)
        BY <1>4 DEF res
    <2>2. /\ pol.used = Cardinality({i \in DOMAIN res : res[i].decision = "SurrogateUsed"})
          /\ pol.exacts = Cardinality({i \in DOMAIN res :
                              res[i].decision \in {"ExactFallback", "ShadowCompare"}})
          /\ pol.closed = Cardinality({i \in DOMAIN res : res[i].decision = "FailClosed"})
        BY <2>1 DEF GemmPolicyReport, CountSeq
    <2>3. pol.ok <=> res # <<>> /\ pol.closed = 0 /\ \A i \in DOMAIN res : res[i].ok
        BY <2>1 DEF GemmPolicyReport, CountSeq
    <2>4. QED
        BY <1>6, <2>2, <2>3 DEF res
<1>8. IsFiniteSet(1..n)
    BY <1>2, FS_Interval DEF BatchRunOf
<1>9. ASSUME NEW lane \in DOMAIN run.lanes
      PROVE  /\ run.lanes[lane].ok =
                    Cardinality({i \in DOMAIN pol.results :
                        pol.results[i].lane = lane /\ pol.results[i].decision = "SurrogateUsed"})
             /\ run.lanes[lane].ok + run.lanes[lane].failed = run.lanes[lane].count
    <2> DEFINE T == OnLane(run.results, lane)
               U == {i \in T : run.results[i].ok}
               V == {i \in T : ~run.results[i].ok}
    <2>1. T = {i \in 1..n : pol.results[i].lane = lane}
        BY <1>2, <1>5 DEF OnLane, BatchRunOf
    <2>2. U = {i \in DOMAIN pol.results :
                   pol.results[i].lane = lane /\ pol.results[i].decision = "SurrogateUsed"}
        BY <1>5, <1>6, <2>1
    <2>3. IsFiniteSet(T)
        BY <1>8, <2>1, FS_Subset
    <2>4. U \cup V = T /\ U \cap V = {}
        OBVIOUS
    <2>5. /\ run.lanes[lane].ok = Cardinality(U) /\ run.lanes[lane].failed = Cardinality(V)
          /\ run.lanes[lane].count = Cardinality(T)
        BY <1>2 DEF BatchRunOf
    <2> HIDE DEF T, U, V
    <2>6. QED
        BY <2>2, <2>3, <2>4, <2>5, SplitCount
<1>10. CountSeq(run.results, LAMBDA it : it.ok) = pol.used
    <2>1. {i \in DOMAIN run.results : run.results[i].ok} = good
        BY <1>2, <1>5 DEF BatchRunOf
    <2>2. QED
        BY <1>7, <2>1 DEF CountSeq
<1>11. CountSeq(run.results, LAMBDA it : ~it.ok) = pol.exacts + pol.closed
    <2> DEFINE T == {i \in DOMAIN run.results : ~run.results[i].ok}
    <2>1. T = {i \in 1..n : pol.results[i].decision # "SurrogateUsed"}
        BY <1>2, <1>5 DEF BatchRunOf
    <2>2. \A i \in 1..n : pol.results[i].decision \in Decisions
        BY <1>3 DEF GemmItemOf
    <2>3. exact \cup shut = T /\ exact \cap shut = {}
        BY <2>1, <2>2 DEF Decisions
    <2>4. IsFiniteSet(T)
        BY <1>8, <2>1, FS_Subset
    <2> HIDE DEF T, exact, shut
    <2>5. Cardinality(exact) + Cardinality(shut) = Cardinality(T)
        BY <2>3, <2>4, SplitCount
    <2>6. QED
        BY <1>7, <2>5 DEF CountSeq, T
<1>12. run.ok => pol.ok
    <2> SUFFICES ASSUME run.ok PROVE pol.ok
        OBVIOUS
    <2>1. run.results # <<>> /\ \A i \in 1..n : pol.results[i].decision = "SurrogateUsed"
        BY <1>2, <1>5 DEF BatchRunOf
    <2>2. n # 0
        BY <1>2, <2>1 DEF BatchRunOf
    <2>3. pol.results # <<>>
        BY <1>6, <2>2
    <2>4. shut = {}
        BY <2>1
    <2>5. \A i \in DOMAIN pol.results : pol.results[i].ok
        BY <1>3, <1>6, <2>1 DEF GemmItemOf
    <2>6. pol.closed = 0
        BY <1>7, <2>4, FS_EmptySet
    <2>7. pol.ok <=> /\ pol.results # <<>> /\ pol.closed = 0
                     /\ \A i \in DOMAIN pol.results : pol.results[i].ok
        BY <1>7
    <2>8. QED
        BY <2>3, <2>5, <2>6, <2>7
<1>13. QED
    BY <1>9, <1>10, <1>11, <1>12 DEF run

-----------------------------------------------------------------------------
(* What is emitted from the trace and the config.                          *)

(* What inspection says of a trace.                                        *)
LEMMA Inspected ==
    ASSUME NEW trace \in Traces, NEW config \in Configs,
           NEW steps, steps = normalize_rrtl_instrumentation_trace(trace),
           NEW n, n = Samples(steps, config),
           NEW report, report = inspect_rrtl_instrumentation_trace(trace, config)
    PROVE  /\ report.ok <=>
                  /\ trace.schema /\ trace.top # "" /\ trace.hash # "" /\ trace.steps # <<>>
                  /\ validate_event_emitter_config(config)
                  /\ n # 0
                  /\ \A sample \in 0..(n - 1) : ~SampleMissing(steps, config, sample)
           /\ validate_event_emitter_config(config) => report.samples = n
<1> DEFINE count == IF config.window + config.horizon = 0 THEN 0 ELSE n
           fit   == inspect_rrtl_instrumentation_trace_compatibility(trace, config)
<1>1. /\ fit.samples = count
      /\ fit.ok <=> /\ validate_event_emitter_config(config)
                    /\ count # 0
                    /\ \A sample \in 0..(count - 1) : ~SampleMissing(steps, config, sample)
    BY DEF inspect_rrtl_instrumentation_trace_compatibility
<1>2. report.samples = fit.samples
      /\ (report.ok <=> /\ trace.schema /\ trace.top # "" /\ trace.hash # ""
                        /\ trace.steps # <<>> /\ fit.ok)
    BY DEF inspect_rrtl_instrumentation_trace
<1>3. validate_event_emitter_config(config) => count = n
    <2>1. config.window \in Nat /\ config.horizon \in Nat
        BY ConfigTyped
    <2>2. validate_event_emitter_config(config) => config.window # 0
        BY DEF validate_event_emitter_config
    <2>3. QED
        BY <2>1, <2>2
<1> HIDE DEF count, fit
<1>4. QED
    BY <1>1, <1>2, <1>3

(* InspectionPredictsEmission, of the files on disk.                       *)
LEMMA InspectionPredicts ==
    ASSUME EventSide
    PROVE  InspectionPredictsEmission
<1> DEFINE steps  == normalize_rrtl_instrumentation_trace(tr)
           report == inspect_rrtl_instrumentation_trace(tr, cf)
           n      == Samples(steps, cf)
           news   == emit_instrumented_event_corpus(tr, cf)
<1>1. tr \in Traces /\ cf \in Configs
    BY DEF EventSide
<1>2. n \in Nat /\ Len(steps) \in Nat /\ Len(steps) = Len(tr.steps)
      /\ (steps = <<>> <=> tr.steps = <<>>) /\ DOMAIN steps = 1..Len(steps)
    BY <1>1, TraceTyped, SamplesTyped
<1>3. /\ report.ok <=>
             /\ tr.schema /\ tr.top # "" /\ tr.hash # "" /\ tr.steps # <<>>
             /\ validate_event_emitter_config(cf)
             /\ n # 0
             /\ \A sample \in 0..(n - 1) : ~SampleMissing(steps, cf, sample)
      /\ validate_event_emitter_config(cf) => report.samples = n
    BY <1>1, Inspected, ZenonT(60)
<1>4. \A new \in news : /\ Emittable(tr, steps, cf)
                        /\ Len(new.events) = n /\ DOMAIN new.events = 1..n
                        /\ new.events = [i \in 1..n |-> EmittedEvent(steps, cf, i)]
    BY <1>1, EmittedCorpus
<1>5. Emittable(tr, steps, cf) => news # {}
    <2>1. SUFFICES ASSUME Emittable(tr, steps, cf) PROVE news # {}
        OBVIOUS
    <2> DEFINE new == [schema |-> TRUE, hash |-> cf.hash, top |-> cf.top,
                       events |-> [i \in 1..n |-> EmittedEvent(steps, cf, i)]]
    <2>2. news = {new}
        BY <2>1, Emission, ZenonT(60)
    <2> HIDE DEF new, news
    <2>3. QED
        BY <2>2
<1>6. Emittable(tr, steps, cf) <=>
          /\ tr.schema /\ validate_event_emitter_config(cf)
          /\ \A sample \in 0..(n - 1) :
                 ~SampleMissing(steps, cf, sample) /\ LaneFits(steps[sample + 1], cf)
    BY Zenon DEF Emittable
<1>7. cf.window \in Nat /\ cf.horizon \in Nat
    BY <1>1, ConfigTyped
<1>8. n # 0 /\ validate_event_emitter_config(cf) => tr.steps # <<>>
    <2>1. validate_event_emitter_config(cf) => cf.window # 0 /\ cf.horizon # 0
        BY DEF validate_event_emitter_config
    <2>2. n # 0 => n = Len(steps) - cf.window - cf.horizon + 1
        BY <1>1, <1>2, SamplesTyped
    <2>3. steps = <<>> => Len(steps) = 0
        OBVIOUS
    <2> HIDE DEF n, steps
    <2>4. QED
        BY <1>2, <1>7, <2>1, <2>2, <2>3
<1> HIDE DEF steps, report, n, news
<1>9. ASSUME report.ok, \A i \in 1..report.samples : LaneFits(steps[i], cf)
      PROVE  \E new \in news : Len(new.events) = report.samples /\ report.samples > 0
    <2>1. report.samples = n /\ n # 0 /\ n \in Nat
        BY <1>2, <1>3, <1>9, Zenon
    <2>2. ASSUME NEW sample \in 0..(n - 1)
          PROVE  ~SampleMissing(steps, cf, sample) /\ LaneFits(steps[sample + 1], cf)
        <3>1. sample + 1 \in 1..n
            BY <2>1, <1>2
        <3>2. QED
            BY <1>3, <1>9, <2>1, <3>1
    <2>3. Emittable(tr, steps, cf)
        BY <1>3, <1>6, <1>9, <2>2
    <2>4. QED
        <3>1. PICK new \in news : TRUE
            BY <1>5, <2>3
        <3>2. Len(new.events) = report.samples /\ report.samples > 0
            <4>1. Len(new.events) = n
                BY <1>4
            <4>2. report.samples = n /\ n > 0
                BY <2>1
            <4>3. QED
                BY <4>1, <4>2
        <3>3. QED
            BY <3>1, <3>2
<1>10. ASSUME tr.top # "", tr.hash # "", NEW new \in news
       PROVE  report.ok <=> new.events # <<>>
    <2>1. Emittable(tr, steps, cf) /\ Len(new.events) = n /\ DOMAIN new.events = 1..n
        BY <1>4
    <2>2. new.events # <<>> => n # 0
        <3>1. SUFFICES ASSUME n = 0 PROVE new.events = <<>>
            OBVIOUS
        <3>2. new.events = [i \in 1..n |-> EmittedEvent(steps, cf, i)]
            BY <1>4
        <3>3. QED
            BY <3>1, <3>2
    <2>3. n # 0 => new.events # <<>>
        BY <2>1
    <2>4. QED
        BY <1>3, <1>6, <1>8, <1>10, <2>1, <2>2, <2>3
<1>11. report.ok \in BOOLEAN
    BY DEF report, inspect_rrtl_instrumentation_trace
<1>12. QED
    BY <1>9, <1>10, <1>11 DEF InspectionPredictsEmission, report, news, steps

(* SubSeq and Tail of a sequence.                                          *)
LEMMA TailFront ==
    ASSUME NEW w \in Nat, w # 0, NEW s, NEW u,
           DOMAIN s = 1..w, Len(s) = w, s = [o \in 1..w |-> s[o]],
           DOMAIN u = 1..w, Len(u) = w, u = [o \in 1..w |-> u[o]],
           \A o \in 1..(w - 1) : s[o + 1] = u[o]
    PROVE  Tail(s) = Front(u)
<1> DEFINE S == {s[o] : o \in 1..w} \cup {u[o] : o \in 1..w}
<1>1. s \in Seq(S) /\ u \in Seq(S)
    OBVIOUS
<1> HIDE DEF S
<1>2. s # <<>>
    OBVIOUS
<1>3. Len(Tail(s)) = w - 1 /\ \A o \in 1..(w - 1) : Tail(s)[o] = s[o + 1]
    BY <1>1, <1>2
<1>4. Tail(s) \in Seq(S)
    BY <1>1, <1>2
<1>5. Len(Front(u)) = w - 1 /\ Front(u) \in Seq(S) /\ \A o \in 1..(w - 1) : Front(u)[o] = u[o]
    BY <1>1, SMTT(45) DEF Front
<1> DEFINE x == Tail(s)
           y == Front(u)
<1>6. /\ x \in Seq(S) /\ y \in Seq(S) /\ Len(x) = w - 1 /\ Len(y) = w - 1
      /\ \A o \in 1..(w - 1) : x[o] = y[o]
    BY <1>3, <1>4, <1>5
<1> HIDE DEF x, y
<1>7. x = [o \in 1..(w - 1) |-> x[o]] /\ y = [o \in 1..(w - 1) |-> y[o]]
    BY <1>6
<1>8. x = y
    BY <1>6, <1>7
<1>9. QED
    BY <1>8 DEF x, y

(* SamplesSlideOverTheTrace, of the files on disk.                         *)
LEMMA SamplesSlide ==
    ASSUME EventSide
    PROVE  SamplesSlideOverTheTrace
<1> DEFINE steps == normalize_rrtl_instrumentation_trace(tr)
           n     == Samples(steps, cf)
           w     == cf.window
<1> SUFFICES ASSUME NEW new \in emit_instrumented_event_corpus(tr, cf)
             PROVE  /\ \A i \in DOMAIN new.events :
                           new.events[i].label[cf.label.name] =
                               resolve_feature(steps[Len(steps) - (Len(new.events) - i)],
                                               cf.label)
                    /\ \A i \in 1..(Len(new.events) - 1) :
                           Tail(new.events[i].signals) = Front(new.events[i + 1].signals)
    BY DEF SamplesSlideOverTheTrace
<1>1. tr \in Traces /\ cf \in Configs /\ w \in Nat /\ cf.horizon \in Nat
    BY ConfigTyped DEF EventSide
<1>2. /\ Emittable(tr, steps, cf)
      /\ n \in Nat /\ Len(new.events) = n /\ DOMAIN new.events = 1..n
      /\ new.events = [i \in 1..n |-> EmittedEvent(steps, cf, i)]
    BY <1>1, EmittedCorpus
<1>3. w # 0
    BY <1>2 DEF Emittable, validate_event_emitter_config
<1>4. Len(steps) \in Nat /\ (n # 0 => n = Len(steps) - w - cf.horizon + 1)
    BY <1>1, TraceTyped, SamplesTyped
<1> HIDE DEF n, steps
<1>5. ASSUME NEW i \in 1..n
      PROVE  /\ new.events[i].label = FeatureMap(steps[i - 1 + w + cf.horizon], <<cf.label>>)
             /\ new.events[i].signals = [o \in 1..w |-> FeatureMap(steps[i + o - 1], cf.signals)]
    <2>1. new.events[i] = EmittedEvent(steps, cf, i)
        BY <1>2
    <2>2. QED
        BY <2>1 DEF EmittedEvent, LabelStep
<1>6. \A step, map : FeatureMap(step, <<map>>)[map.name] = resolve_feature(step, map)
    <2>1. SUFFICES ASSUME NEW step, NEW map
                   PROVE  FeatureMap(step, <<map>>)[map.name] = resolve_feature(step, map)
        OBVIOUS
    <2> DEFINE maps == <<map>>
    <2>2. DOMAIN maps = {1} /\ maps[1] = map
        OBVIOUS
    <2> HIDE DEF maps
    <2>3. {i \in DOMAIN maps : maps[i].name = map.name} = {1}
        BY <2>2
    <2>4. Max({1}) = 1
        BY DEF Max
    <2>5. map.name \in {maps[i].name : i \in DOMAIN maps}
        BY <2>2
    <2>6. FeatureMap(step, maps)[map.name] =
              resolve_feature(step, maps[Max({i \in DOMAIN maps : maps[i].name = map.name})])
        BY <2>5 DEF FeatureMap
    <2>7. QED
        BY <2>2, <2>3, <2>4, <2>6 DEF maps
<1>7. ASSUME NEW i \in 1..n
      PROVE  new.events[i].label[cf.label.name] =
                 resolve_feature(steps[Len(steps) - (n - i)], cf.label)
    <2>1. Len(steps) - (n - i) = i - 1 + w + cf.horizon
        BY <1>1, <1>2, <1>4
    <2>2. QED
        BY <1>5, <1>6, <2>1
<1>8. ASSUME NEW i \in 1..(n - 1)
      PROVE  Tail(new.events[i].signals) = Front(new.events[i + 1].signals)
    <2> DEFINE s == [o \in 1..w |-> FeatureMap(steps[i + o - 1], cf.signals)]
               u == [o \in 1..w |-> FeatureMap(steps[i + 1 + o - 1], cf.signals)]
    <2>1. i \in 1..n /\ i + 1 \in 1..n
        BY <1>2
    <2>2. new.events[i].signals = s /\ new.events[i + 1].signals = u
        BY <1>5, <2>1
    <2>3. \A o \in 1..(w - 1) : s[o + 1] = u[o]
        BY <1>1, <2>1
    <2>4. /\ DOMAIN s = 1..w /\ Len(s) = w /\ s = [o \in 1..w |-> s[o]]
          /\ DOMAIN u = 1..w /\ Len(u) = w /\ u = [o \in 1..w |-> u[o]]
        BY <1>1
    <2> HIDE DEF s, u
    <2>5. Tail(s) = Front(u)
        BY <1>1, <1>3, <2>3, <2>4, TailFront
    <2>6. QED
        BY <2>2, <2>5
<1>9. QED
    BY <1>2, <1>7, <1>8 DEF steps

-----------------------------------------------------------------------------
(* Validation, shadow run and policy.                                      *)

(* A predictor answers with a bit, or fails.                               *)
LEMMA PredictionBit ==
    ASSUME NEW man, NEW e
    PROVE  event_prediction(man, e) \in {0, 1} \cup {Nothing}
<1>1. evaluate_mock_event_rule(man.rule, e) \in {0, 1} \cup {Nothing}
    BY DEF evaluate_mock_event_rule
<1>2. mock_cache_miss_event(e) \in {0, 1} /\ mock_stall_event(e) \in {0, 1}
    BY DEF mock_cache_miss_event, mock_stall_event
<1>3. run_onnx_event_predictor(man, e) \in {0, 1} \cup {Nothing}
    BY DEF run_onnx_event_predictor
<1>4. mock_event_prediction(man, e) \in {0, 1} \cup {Nothing}
    <2>1. CASE man.rule # Nothing
        BY <1>1, <2>1 DEF mock_event_prediction
    <2>2. CASE man.rule = Nothing /\ man.task.target = "cache_miss"
        BY <1>2, <2>2 DEF mock_event_prediction
    <2>3. CASE man.rule = Nothing /\ man.task.target = "stall_event"
        BY <1>2, <2>3 DEF mock_event_prediction
    <2>4. CASE man.rule = Nothing /\ man.task.target \notin {"cache_miss", "stall_event"}
        BY <2>4 DEF mock_event_prediction
    <2>5. QED
        BY <2>1, <2>2, <2>3, <2>4
<1>5. QED
    BY <1>3, <1>4 DEF event_prediction

(* The predictions of a corpus: one bit and one label for every event.     *)
PredictedBits(preds, n) ==
    /\ n \in Nat /\ DOMAIN preds = 1..n
    /\ \A i \in 1..n : /\ preds[i].lane \in Nat
                       /\ preds[i].expected \in {0, 1} /\ preds[i].predicted \in {0, 1}

(* Predictions are bits, one for every event.                              *)
LEMMA PredictionBits ==
    ASSUME NEW man, NEW c, CorpusTyped(c), Predictions(man, c) # Nothing
    PROVE  PredictedBits(Predictions(man, c), Len(c.events))
<1> DEFINE preds == Predictions(man, c)
           guess == [i \in DOMAIN c.events |-> event_prediction(man, c.events[i])]
           n     == Len(c.events)
<1>1. /\ validate_event_corpus_shape(man, c) /\ DOMAIN preds = DOMAIN c.events
      /\ \A i \in DOMAIN c.events :
             /\ preds[i].lane = IF c.events[i].lane = Nothing THEN 0 ELSE c.events[i].lane
             /\ preds[i].expected = c.events[i].label[man.task.label]
    BY PredictionsOf
<1>2. n \in Nat /\ DOMAIN c.events = 1..n
      /\ \A i \in 1..n : c.events[i].lane \in Nat \cup {Nothing}
    BY DEF CorpusTyped
<1>3. preds = event_predictions(man, c)
    BY DEF Predictions
<1>4. ~\E i \in DOMAIN guess : guess[i] = Nothing
    BY <1>3 DEF event_predictions
<1>5. \A i \in DOMAIN c.events : preds[i].predicted = guess[i]
    <2>1. preds = [i \in DOMAIN guess |->
                      [sample    |-> c.events[i].sample,
                       lane      |-> IF c.events[i].lane = Nothing THEN 0 ELSE c.events[i].lane,
                       expected  |-> c.events[i].label[man.task.label],
                       predicted |-> guess[i]]]
        BY <1>3, <1>4 DEF event_predictions
    <2>2. DOMAIN guess = DOMAIN c.events
        OBVIOUS
    <2> HIDE DEF guess, preds
    <2>3. QED
        BY <2>1, <2>2
<1>6. ASSUME NEW i \in 1..n
      PROVE  preds[i].predicted \in {0, 1}
    <2>1. guess[i] \in {0, 1} \cup {Nothing} /\ guess[i] # Nothing
        BY <1>2, <1>4, PredictionBit
    <2>2. QED
        BY <1>2, <1>5, <2>1
<1>7. ASSUME NEW i \in 1..n
      PROVE  preds[i].lane \in Nat /\ preds[i].expected \in {0, 1}
    <2>1. c.events[i].label[man.task.label] \in {0, 1}
        BY <1>1, <1>2 DEF validate_event_corpus_shape
    <2>2. QED
        BY <1>1, <1>2, <2>1
<1> HIDE DEF preds
<1>8. QED
    BY <1>1, <1>2, <1>6, <1>7 DEF PredictedBits, preds

(* The metrics of a report add up, over lanes and over verdicts.           *)
LEMMA MetricsAddUp ==
    ASSUME NEW preds, NEW n, PredictedBits(preds, n), NEW report,
           report = ShadowReport(preds, preds)
    PROVE  /\ report.metrics = Metrics(preds, DOMAIN preds)
           /\ \A f \in {"samples", "correct", "fp", "fn"} :
                  SumOverLanes(report.lanes, f) = report.metrics[f]
           /\ report.metrics.correct + report.metrics.fp + report.metrics.fn = n
           /\ report.metrics.correct = Cardinality(Right(preds))
<1> DEFINE D   == DOMAIN preds
           fps == {i \in D : preds[i].predicted = 1 /\ preds[i].expected = 0}
           fns == {i \in D : preds[i].predicted = 0 /\ preds[i].expected = 1}
           wrong == {i \in D : preds[i].predicted # preds[i].expected}
<1>1. /\ n \in Nat /\ D = 1..n /\ IsFiniteSet(D) /\ Cardinality(D) = n
      /\ \A i \in D : preds[i].lane \in Nat
    <2>1. n \in Nat /\ D = 1..n /\ \A i \in 1..n : preds[i].lane \in Nat
        BY DEF PredictedBits
    <2>2. IsFiniteSet(1..n) /\ Cardinality(1..n) = n
        BY <2>1, FS_Interval
    <2> HIDE DEF D
    <2>3. QED
        BY <2>1, <2>2
<1>2. /\ report.metrics = Metrics(preds, D)
      /\ report.lanes = [lane \in LanesUsed(preds) |-> Metrics(preds, OnLane(preds, lane))]
    BY DEF ShadowReport
<1>3. Right(preds) \subseteq D /\ D \cap Right(preds) = Right(preds)
    BY DEF Right
<1>4. /\ report.metrics.samples = Cardinality(D)
      /\ report.metrics.correct = Cardinality(Right(preds))
      /\ report.metrics.fp = Cardinality(fps)
      /\ report.metrics.fn = Cardinality(fns)
    <2>1. /\ report.metrics.samples = Cardinality(D)
          /\ report.metrics.correct = Cardinality(D \cap Right(preds))
        BY <1>2 DEF Metrics
    <2>2. report.metrics.fp = Cardinality(fps) /\ report.metrics.fn = Cardinality(fns)
        BY <1>2 DEF Metrics
    <2>3. QED
        BY <1>3, <2>1, <2>2
<1>5. DOMAIN report.lanes = LanesUsed(preds)
    BY <1>2
<1>6. ASSUME NEW lane \in DOMAIN report.lanes
      PROVE  /\ report.lanes[lane].samples = Cardinality(ClassOf(D, LaneFunction(preds), lane))
             /\ report.lanes[lane].correct =
                    Cardinality(ClassOf(Right(preds), LaneFunction(preds), lane))
             /\ report.lanes[lane].fp = Cardinality(ClassOf(fps, LaneFunction(preds), lane))
             /\ report.lanes[lane].fn = Cardinality(ClassOf(fns, LaneFunction(preds), lane))
    <2> DEFINE S == OnLane(preds, lane)
    <2>1. report.lanes[lane] = Metrics(preds, S)
        BY <1>2
    <2>2. /\ S = ClassOf(D, LaneFunction(preds), lane)
          /\ S \cap Right(preds) = ClassOf(Right(preds), LaneFunction(preds), lane)
          /\ {i \in S : preds[i].predicted = 1 /\ preds[i].expected = 0}
                 = ClassOf(fps, LaneFunction(preds), lane)
          /\ {i \in S : preds[i].predicted = 0 /\ preds[i].expected = 1}
                 = ClassOf(fns, LaneFunction(preds), lane)
        BY DEF OnLane, ClassOf, LaneFunction, Right
    <2>3. /\ report.lanes[lane].samples = Cardinality(S)
          /\ report.lanes[lane].correct = Cardinality(S \cap Right(preds))
          /\ report.lanes[lane].fp =
                 Cardinality({i \in S : preds[i].predicted = 1 /\ preds[i].expected = 0})
          /\ report.lanes[lane].fn =
                 Cardinality({i \in S : preds[i].predicted = 0 /\ preds[i].expected = 1})
        BY <2>1 DEF Metrics
    <2>4. QED
        BY <2>2, <2>3
<1>7. fps \subseteq D /\ fns \subseteq D
    OBVIOUS
<1>8. /\ fps \cup fns = wrong /\ fps \cap fns = {}
      /\ Right(preds) \cup wrong = D /\ Right(preds) \cap wrong = {}
    BY DEF Right, PredictedBits
<1>9. IsFiniteSet(wrong)
    BY <1>1, FS_Subset
<1> HIDE DEF D, fps, fns, wrong
<1>10. SumOverLanes(report.lanes, "samples") = report.metrics.samples
    BY <1>1, <1>4, <1>5, <1>6, LanesSum DEF D
<1>11. SumOverLanes(report.lanes, "correct") = report.metrics.correct
    BY <1>1, <1>3, <1>4, <1>5, <1>6, LanesSum DEF D
<1>12. SumOverLanes(report.lanes, "fp") = report.metrics.fp
    BY <1>1, <1>4, <1>5, <1>6, <1>7, LanesSum DEF D
<1>13. SumOverLanes(report.lanes, "fn") = report.metrics.fn
    BY <1>1, <1>4, <1>5, <1>6, <1>7, LanesSum DEF D
<1>14. Cardinality(fps) + Cardinality(fns) = Cardinality(wrong)
    BY <1>8, <1>9, SplitCount
<1>15. Cardinality(Right(preds)) + Cardinality(wrong) = n
    BY <1>1, <1>8, SplitCount
<1>16. Cardinality(fps) \in Nat /\ Cardinality(fns) \in Nat /\ Cardinality(Right(preds)) \in Nat
    <2>1. IsFiniteSet(fps) /\ IsFiniteSet(fns) /\ IsFiniteSet(Right(preds))
        BY <1>1, <1>3, <1>7, FS_Subset
    <2>2. QED
        BY <2>1, FS_CardinalityType
<1>17. report.metrics.correct + report.metrics.fp + report.metrics.fn = n
    BY <1>4, <1>14, <1>15, <1>16
<1>18. QED
    BY <1>2, <1>4, <1>10, <1>11, <1>12, <1>13, <1>17 DEF D

(* A policy replaces what the predictor got right, and fails closed only   *)
(* where it was wrong.                                                     *)
LEMMA PolicyOfPredictions ==
    ASSUME NEW man \in EventManifests, NEW c, CorpusTyped(c), Predictions(man, c) # Nothing,
           NEW pol, pol = policy_event_corpus(man, c)
    PROVE  /\ pol.count = Len(c.events)
           /\ man.mode = "ApproximateWithTolerance" =>
                  pol.used = Cardinality(Right(Predictions(man, c)))
           /\ DOMAIN Predictions(man, c) \subseteq Right(Predictions(man, c)) =>
                  pol.ok /\ pol.closed = 0
<1> DEFINE preds == Predictions(man, c)
           n     == Len(c.events)
           res   == [i \in 1..n |-> policy_event_item(man, i - 1, c.events[i], preds[i])]
<1>1. n \in Nat /\ DOMAIN preds = 1..n
    BY PredictionBits DEF PredictedBits
<1>2. man.mode \in Modes /\ man.fallback \in Fallbacks
    BY EventTypes
<1>3. pol = EventPolicyReport(res, preds # Nothing)
    BY <1>1 DEF policy_event_corpus, OrEmpty
<1>4. DOMAIN res = 1..n /\ Len(res) = n
    BY <1>1
<1>5. ASSUME NEW i \in 1..n
      PROVE  /\ res[i].decision = "SurrogateUsed" <=>
                    /\ man.mode = "ApproximateWithTolerance"
                    /\ preds[i].expected = preds[i].predicted
             /\ res[i].decision = "FailClosed" => preds[i].expected # preds[i].predicted
    <2>1. res[i] = policy_event_item(man, i - 1, c.events[i], preds[i])
        OBVIOUS
    <2> HIDE DEF res, preds
    <2>2. (res[i].decision = "SurrogateUsed") =
              (man.mode = "ApproximateWithTolerance" /\ preds[i].expected = preds[i].predicted)
        BY <1>2, <2>1, EventDecision
    <2>3. ASSUME preds[i].expected = preds[i].predicted
          PROVE  res[i].decision # "FailClosed"
        BY <1>2, <2>1, <2>3 DEF policy_event_item, EventItem, Modes
    <2>4. QED
        BY <2>2, <2>3
<1> HIDE DEF res
<1>6. /\ pol.count = n
      /\ pol.used = Cardinality({i \in DOMAIN res : res[i].decision = "SurrogateUsed"})
      /\ pol.closed = Cardinality({i \in DOMAIN res : res[i].decision = "FailClosed"})
    BY <1>3, <1>4 DEF EventPolicyReport, CountSeq
<1>7. pol.ok <=> preds # Nothing /\ pol.closed = 0
    BY EventPolicy
<1>8. ASSUME man.mode = "ApproximateWithTolerance"
      PROVE  pol.used = Cardinality(Right(preds))
    <2>1. {i \in DOMAIN res : res[i].decision = "SurrogateUsed"} = Right(preds)
        BY <1>1, <1>4, <1>5, <1>8 DEF Right
    <2>2. QED
        BY <1>6, <2>1
<1>9. ASSUME DOMAIN preds \subseteq Right(preds)
      PROVE  pol.ok /\ pol.closed = 0
    <2>1. {i \in DOMAIN res : res[i].decision = "FailClosed"} = {}
        BY <1>1, <1>4, <1>5, <1>9 DEF Right
    <2>2. QED
        BY <1>6, <1>7, <2>1, FS_EmptySet
<1>10. QED
    BY <1>6, <1>8, <1>9

(* ReportsAgree, of the files on disk.                                     *)
LEMMA EventReportsAgree ==
    ASSUME EventSide
    PROVE  ReportsAgree
<1> SUFFICES ASSUME corpus # Nothing
             PROVE  LET valid  == validate_event_corpus(m, corpus)
                        shadow == shadow_event_corpus(m, corpus)
                        pol    == policy_event_corpus(m, corpus)
                    IN  /\ valid.ok = shadow.ok /\ valid.metrics = shadow.metrics
                        /\ valid.first = shadow.first
                        /\ \A f \in {"samples", "correct", "fp", "fn"} :
                               SumOverLanes(shadow.lanes, f) = shadow.metrics[f]
                        /\ valid.metrics.correct + valid.metrics.fp + valid.metrics.fn = pol.count
                        /\ m.mode = "ApproximateWithTolerance" =>
                               pol.used = shadow.metrics.correct
                        /\ valid.ok => pol.ok /\ pol.closed = 0
    BY DEF ReportsAgree
<1> DEFINE preds  == Predictions(m, corpus)
           all    == OrEmpty(preds)
           valid  == validate_event_corpus(m, corpus)
           shadow == shadow_event_corpus(m, corpus)
           pol    == policy_event_corpus(m, corpus)
<1>1. m \in EventManifests /\ CorpusTyped(corpus)
    BY DEF EventSide, EventFiles
<1>2. valid = ValidationReport(preds, all) /\ shadow = ShadowReport(preds, all)
    BY DEF validate_event_corpus, shadow_event_corpus
<1>3. /\ valid.ok = shadow.ok /\ valid.metrics = shadow.metrics /\ valid.first = shadow.first
      /\ (valid.ok <=> preds # Nothing /\ DOMAIN all \subseteq Right(all))
      /\ shadow.metrics = Metrics(all, DOMAIN all)
      /\ shadow.lanes = [lane \in LanesUsed(all) |-> Metrics(all, OnLane(all, lane))]
    <2> HIDE DEF preds, all
    <2>1. QED
        <3> DEFINE right == preds # Nothing /\ DOMAIN all \subseteq Right(all)
        <3>1. /\ valid = [ok |-> right, metrics |-> Metrics(all, DOMAIN all),
                          first |-> FirstMismatch(all)]
              /\ shadow = [ok |-> right, total |-> Cardinality(LanesUsed(all)),
                           metrics |-> Metrics(all, DOMAIN all),
                           lanes |-> [lane \in LanesUsed(all) |->
                                         Metrics(all, OnLane(all, lane))],
                           first |-> FirstMismatch(all),
                           results |-> [i \in DOMAIN all |->
                                           [p |-> all[i], ok |-> i \in Right(all)]]]
            BY <1>2, Zenon DEF ValidationReport, ShadowReport
        <3>2. right \in BOOLEAN
            OBVIOUS
        <3> HIDE DEF right, valid, shadow
        <3>3. /\ valid.ok = right /\ shadow.ok = right /\ valid.metrics = shadow.metrics
              /\ valid.first = shadow.first /\ shadow.metrics = Metrics(all, DOMAIN all)
              /\ shadow.lanes = [lane \in LanesUsed(all) |-> Metrics(all, OnLane(all, lane))]
            BY <3>1
        <3>4. QED
            BY <3>2, <3>3 DEF right
<1>4. PredictedBits(all, IF preds = Nothing THEN 0 ELSE Len(corpus.events))
    <2>1. CASE preds = Nothing
        BY <2>1 DEF OrEmpty, PredictedBits
    <2>2. CASE preds # Nothing
        BY <1>1, <2>2, PredictionBits DEF OrEmpty
    <2>3. QED
        BY <2>1, <2>2
<1> HIDE DEF all, valid, shadow, pol
<1>5. /\ \A f \in {"samples", "correct", "fp", "fn"} :
             SumOverLanes(shadow.lanes, f) = shadow.metrics[f]
      /\ shadow.metrics.correct + shadow.metrics.fp + shadow.metrics.fn =
             IF preds = Nothing THEN 0 ELSE Len(corpus.events)
      /\ shadow.metrics.correct = Cardinality(Right(all))
    <2> DEFINE report == ShadowReport(all, all)
    <2>1. report.metrics = shadow.metrics /\ report.lanes = shadow.lanes
        BY <1>3 DEF ShadowReport
    <2> HIDE DEF report
    <2>2. QED
        BY <1>4, <2>1, MetricsAddUp DEF report
<1>6. /\ pol.count = IF preds = Nothing THEN 0 ELSE Len(corpus.events)
      /\ m.mode = "ApproximateWithTolerance" => pol.used = Cardinality(Right(all))
    <2>1. CASE preds = Nothing
        <3>1. all = <<>>
            BY <2>1 DEF all, OrEmpty
        <3> DEFINE res == [i \in DOMAIN all |->
                              policy_event_item(m, i - 1, corpus.events[i], preds[i])]
                   ok  == preds # Nothing
        <3>2. pol = EventPolicyReport(res, ok)
            BY Zenon DEF policy_event_corpus, pol, all
        <3>3. Right(all) = {}
            BY <3>1 DEF Right
        <3>4. DOMAIN res = {} /\ Len(res) = 0
            BY <3>1
        <3> HIDE DEF res, ok
        <3>5. /\ pol.count = Len(res)
              /\ pol.used = Cardinality({i \in DOMAIN res : res[i].decision = "SurrogateUsed"})
            BY <3>2 DEF EventPolicyReport, CountSeq
        <3>6. {i \in DOMAIN res : res[i].decision = "SurrogateUsed"} = {}
            BY <3>4
        <3>7. QED
            BY <2>1, <3>3, <3>4, <3>5, <3>6, FS_EmptySet
    <2>2. CASE preds # Nothing
        BY <1>1, <2>2, PolicyOfPredictions DEF all, OrEmpty, pol
    <2>3. QED
        BY <2>1, <2>2
<1>7. valid.ok => pol.ok /\ pol.closed = 0
    BY <1>1, <1>3, PolicyOfPredictions DEF all, OrEmpty, pol
<1>8. QED
    BY <1>3, <1>5, <1>6, <1>7 DEF valid, shadow, pol

(* SurrogateReportsExact, of every trace, config, corpus and batch.        *)
THEOREM SurrogateReports == SurrogatesSpec => []SurrogateReportsExact
<1>1. SurrogatesInv => SurrogateReportsExact
    BY GemmCounters, BatchAgrees, ExecutionDescribed, EventCounters, EventReportsAgree,
       InspectionPredicts, SamplesSlide
    DEF SurrogatesInv, GemmSide, SurrogateReportsExact, GemmReportsExact, EventReportsExact
<1>2. QED
    BY <1>1, SurrogatesSafe, PTL

==============================================================================
