------------------------- MODULE WorkerServiceProofs -------------------------
(***************************************************************************)
(* Lemmas about the worker service that the proofs of both its users need, *)
(* TcpWorker and DistributedRuntime: what a request leaves of a shard and  *)
(* what it is answered; and about the sequences of lines, whose contents   *)
(* those proofs never look at.                                             *)
(***************************************************************************)
EXTENDS WorkerService, Functions, SequenceTheorems, TLAPS

(* A sequence of anything.                                                 *)
IsSeq(s) == s \in Seq(Range(s))

ShardRecord(s) ==
    /\ s = [start |-> s.start, lanes |-> s.lanes, in |-> s.in, cnt |-> s.cnt, ops |-> s.ops]
    /\ s.lanes # 0

-----------------------------------------------------------------------------
(* Sequences of anything.                                                  *)
LEMMA SomeSeq ==
    ASSUME NEW S, NEW s \in Seq(S)
    PROVE  IsSeq(s)
BY SeqOfRange DEF IsSeq

LEMMA LenSeq ==
    ASSUME NEW s, IsSeq(s)
    PROVE  Len(s) \in Nat /\ (s = << >> <=> Len(s) = 0)
<1>1. s \in Seq(Range(s))
  BY DEF IsSeq
<1> HIDE DEF Range
<1> QED
  BY <1>1, EmptySeq, LenProperties

LEMMA AppendSeq ==
    ASSUME NEW s, NEW e, IsSeq(s)
    PROVE  /\ IsSeq(Append(s, e))
           /\ Append(s, e) # << >>
           /\ Len(Append(s, e)) = Len(s) + 1
           /\ \A i \in 1..Len(s) : Append(s, e)[i] = s[i]
           /\ Append(s, e)[Len(s) + 1] = e
<1> DEFINE S == Range(s) \cup {e}
<1>1. s \in Seq(Range(s)) /\ Range(s) \subseteq S /\ e \in S
  BY DEF IsSeq
<1> HIDE DEF S
<1>2. s \in Seq(S)
  BY <1>1, SeqMonotonic
<1>3. Append(s, e) \in Seq(S)
  BY <1>1, <1>2, AppendProperties
<1>4. IsSeq(Append(s, e))
  BY <1>3, SomeSeq
<1>5. /\ Append(s, e) # << >>
      /\ Len(Append(s, e)) = Len(s) + 1
      /\ \A i \in 1..Len(s) : Append(s, e)[i] = s[i]
      /\ Append(s, e)[Len(s) + 1] = e
  BY <1>1, <1>2
<1> QED
  BY <1>4, <1>5

LEMMA TailSeq ==
    ASSUME NEW s, IsSeq(s), s # << >>
    PROVE  /\ IsSeq(Tail(s))
           /\ Len(s) \in Nat \ {0}
           /\ Len(Tail(s)) = Len(s) - 1
           /\ \A i \in 1..(Len(s) - 1) : Tail(s)[i] = s[i + 1]
           /\ Head(s) = s[1]
<1> DEFINE S == Range(s)
<1>1. s \in Seq(S)
  BY DEF IsSeq
<1> HIDE DEF S
<1>2. Tail(s) \in Seq(S)
  BY <1>1, HeadTailProperties
<1>3. IsSeq(Tail(s))
  BY <1>2, SomeSeq
<1>4. Len(s) \in Nat \ {0} /\ Len(Tail(s)) = Len(s) - 1
  BY <1>1, HeadTailProperties, EmptySeq
<1>5. \A i \in 1..(Len(s) - 1) : Tail(s)[i] = s[i + 1]
  BY <1>1, <1>4, HeadTailProperties
<1>6. Head(s) = s[1]
  BY <1>1, <1>4
<1> QED
  BY <1>3, <1>4, <1>5, <1>6

LEMMA ConcatSeq ==
    ASSUME NEW s, NEW t, IsSeq(s), IsSeq(t)
    PROVE  /\ IsSeq(s \o t)
           /\ Len(s \o t) = Len(s) + Len(t)
           /\ \A i \in 1..Len(s) : (s \o t)[i] = s[i]
           /\ \A i \in 1..Len(t) : (s \o t)[Len(s) + i] = t[i]
<1> DEFINE S == Range(s) \cup Range(t)
<1>1. /\ s \in Seq(Range(s)) /\ Range(s) \subseteq S
      /\ t \in Seq(Range(t)) /\ Range(t) \subseteq S
  BY DEF IsSeq
<1> HIDE DEF S
<1>2. s \in Seq(S) /\ t \in Seq(S)
  BY <1>1, SeqMonotonic
<1>3. IsSeq(s \o t)
  <2>1. s \o t \in Seq(S)
    BY <1>2, ConcatProperties
  <2> QED
    BY <2>1, SomeSeq
<1>4. /\ Len(s) \in Nat /\ Len(t) \in Nat
      /\ Len(s \o t) = Len(s) + Len(t)
      /\ \A i \in 1..(Len(s) + Len(t)) :
            (s \o t)[i] = IF i <= Len(s) THEN s[i] ELSE t[i - Len(s)]
  BY <1>2, ConcatProperties
<1>5. \A i \in 1..Len(s) : (s \o t)[i] = s[i]
  BY <1>4
<1>6. \A i \in 1..Len(t) : (s \o t)[Len(s) + i] = t[i]
  BY <1>4
<1> QED
  BY <1>3, <1>4, <1>5, <1>6

(* The first element is replaced.                                          *)
LEMMA FirstReplaced ==
    ASSUME NEW s, NEW e, NEW t, IsSeq(s), s # << >>, t = [s EXCEPT ![1] = e]
    PROVE  /\ IsSeq(t)
           /\ Len(t) = Len(s)
           /\ t[1] = e
           /\ \A i \in 2..Len(s) : t[i] = s[i]
<1> DEFINE S == Range(s) \cup {e}
<1>1. s \in Seq(Range(s)) /\ Range(s) \subseteq S /\ e \in S
  BY DEF IsSeq
<1> HIDE DEF S
<1>2. s \in Seq(S) /\ Len(s) \in Nat /\ 1 \in 1..Len(s)
  BY <1>1, SeqMonotonic, EmptySeq
<1>3. t \in Seq(S)
  BY <1>1, <1>2, ExceptSeq
<1>4. IsSeq(t)
  BY <1>3, SomeSeq
<1>5. Len(t) = Len(s)
  BY <1>1, <1>2, ExceptSeq
<1>6. t[1] = e /\ \A i \in 2..Len(s) : t[i] = s[i]
  <2>1. \A i \in 1..Len(s) : t[i] = IF i = 1 THEN e ELSE s[i]
    BY <1>1, <1>2, ExceptSeq
  <2> QED
    BY <1>2, <2>1
<1> QED
  BY <1>4, <1>5, <1>6

-----------------------------------------------------------------------------
(* What handle does with a request: the kinds it accepts, what it answers  *)
(* and what is left of the shard.                                          *)
LEMMA RefusedIsErr ==
    ASSUME NEW s, NEW q, ~Accepted(s, q)
    PROVE  ResponseTo(s, q).kind = "Err" /\ ShardAfter(s, q) = s
BY DEF ResponseTo, ShardAfter, Err

LEMMA SnapshotAnswer ==
    ASSUME NEW s, NEW q, ResponseTo(s, q).kind = "Snapshot"
    PROVE  ResponseTo(s, q).storage = Storage(s) /\ ShardAfter(s, q) = s
<1>1. Accepted(s, q)
  BY RefusedIsErr
<1>2. q.kind = "Snapshot"
  <2>1. q.kind \in {"InitShard", "Health", "SetInput", "RestoreSnapshot", "Eval", "Tick",
                     "GetSignal", "Snapshot", "Stats", "ResetStats"}
    BY <1>1 DEF Accepted
  <2> QED
    BY <1>1, <2>1 DEF ResponseTo, Ack
<1> QED
  BY <1>1, <1>2 DEF ResponseTo, ShardAfter

(* Only InitShard makes a shard, and only of a service that has none.      *)
LEMMA ShardIsMade ==
    ASSUME NEW q, Accepted(NoShard, q)
    PROVE  \/ q.kind = "Health" /\ ShardAfter(NoShard, q) = NoShard
           \/ /\ q.kind = "InitShard"
              /\ ShardRecord(ShardAfter(NoShard, q)) /\ ShardAfter(NoShard, q).ops = 0
              /\ ShardAfter(NoShard, q) = NewShard(q.info)
<1>1. q.kind = "Health" \/ (q.kind = "InitShard" /\ q.info.lanes # 0)
  BY DEF Accepted
<1>2. CASE q.kind = "Health"
  BY <1>2 DEF ShardAfter
<1>3. CASE q.kind = "InitShard" /\ q.info.lanes # 0
  <2>1. ShardAfter(NoShard, q) = NewShard(q.info)
    BY <1>3 DEF ShardAfter
  <2> QED
    BY <1>3, <2>1 DEF NewShard, ShardRecord
<1> QED
  BY <1>1, <1>2, <1>3

(* A shard stays a shard of the same lanes, and counts its ticks and       *)
(* evaluations.                                                            *)
LEMMA ShardIsKept ==
    ASSUME NEW s, NEW q, ShardRecord(s), Accepted(s, q)
    PROVE  /\ q.kind # "InitShard"
           /\ ShardRecord(ShardAfter(s, q))
           /\ ShardAfter(s, q).start = s.start /\ ShardAfter(s, q).lanes = s.lanes
           /\ q.kind \in {"Tick", "Eval"} => ShardAfter(s, q).ops = s.ops + 1
           /\ q.kind = "ResetStats" => ShardAfter(s, q).ops = 0
           /\ q.kind \notin {"Tick", "Eval", "ResetStats"} => ShardAfter(s, q).ops = s.ops
<1>1. s # NoShard
  BY DEF ShardRecord, NoShard
<1>2. q.kind \in {"Health", "SetInput", "RestoreSnapshot", "Eval", "Tick", "GetSignal",
                   "Snapshot", "Stats", "ResetStats"}
  BY <1>1 DEF Accepted
<1>3. CASE q.kind = "Tick"
  <2>1. ShardAfter(s, q) = [TickShard(s, q.steps) EXCEPT !.ops = @ + 1]
    BY <1>3 DEF ShardAfter
  <2>2. PICK cnt : TickShard(s, q.steps) = [s EXCEPT !.cnt = cnt]
    BY DEF TickShard
  <2>3. ShardAfter(s, q) = [start |-> s.start, lanes |-> s.lanes, in |-> s.in, cnt |-> cnt,
                            ops |-> s.ops + 1]
    BY <2>1, <2>2 DEF ShardRecord
  <2> QED
    BY <1>3, <2>3 DEF ShardRecord
<1>4. CASE q.kind = "Eval"
  <2>1. ShardAfter(s, q) = [s EXCEPT !.ops = @ + 1]
    BY <1>4 DEF ShardAfter
  <2> QED
    BY <1>4, <2>1 DEF ShardRecord
<1>5. CASE q.kind = "ResetStats"
  <2>1. ShardAfter(s, q) = [s EXCEPT !.ops = 0]
    BY <1>5 DEF ShardAfter
  <2> QED
    BY <1>5, <2>1 DEF ShardRecord
<1>6. CASE q.kind = "SetInput"
  <2>1. ShardAfter(s, q) = [s EXCEPT !.in = q.values]
    BY <1>6 DEF ShardAfter
  <2> QED
    BY <1>6, <2>1 DEF ShardRecord
<1>7. CASE q.kind = "RestoreSnapshot"
  <2>1. ShardAfter(s, q) = [s EXCEPT !.in = q.storage.in, !.cnt = q.storage.cnt]
    BY <1>7 DEF ShardAfter, SetStorage
  <2> QED
    BY <1>7, <2>1 DEF ShardRecord
<1>8. CASE q.kind \in {"Health", "GetSignal", "Snapshot", "Stats"}
  BY <1>8 DEF ShardAfter
<1> QED
  BY <1>2, <1>3, <1>4, <1>5, <1>6, <1>7, <1>8

(* What a request does to the storage of a shard.                          *)
LEMMA StorageAfter ==
    ASSUME NEW s, NEW q, ShardRecord(s), Accepted(s, q)
    PROVE  /\ q.kind \in {"Health", "GetSignal", "Snapshot", "Stats"} => ShardAfter(s, q) = s
           /\ q.kind = "SetInput" =>
                 ShardAfter(s, q).in = q.values /\ ShardAfter(s, q).cnt = s.cnt
           /\ q.kind = "Tick" =>
                 /\ ShardAfter(s, q).in = s.in
                 /\ ShardAfter(s, q).cnt =
                       [l \in 1..s.lanes |-> s.cnt[l] + q.steps * s.in[l]]
<1>1. CASE q.kind \in {"Health", "GetSignal", "Snapshot", "Stats"}
  BY <1>1 DEF ShardAfter
<1>2. CASE q.kind = "SetInput"
  <2>1. ShardAfter(s, q) = [s EXCEPT !.in = q.values]
    BY <1>2 DEF ShardAfter
  <2> QED
    BY <1>2, <2>1 DEF ShardRecord
<1>3. CASE q.kind = "Tick"
  <2>1. ShardAfter(s, q) = [TickShard(s, q.steps) EXCEPT !.ops = @ + 1]
    BY <1>3 DEF ShardAfter
  <2> DEFINE cnt == [l \in 1..s.lanes |-> s.cnt[l] + q.steps * s.in[l]]
  <2>2. TickShard(s, q.steps) = [s EXCEPT !.cnt = cnt]
    BY DEF TickShard, ShardRecord
  <2> HIDE DEF cnt
  <2>3. ShardAfter(s, q) = [start |-> s.start, lanes |-> s.lanes, in |-> s.in, cnt |-> cnt,
                            ops |-> s.ops + 1]
    BY <2>1, <2>2 DEF ShardRecord
  <2>4. ShardAfter(s, q).in = s.in /\ ShardAfter(s, q).cnt = cnt
    BY <2>3
  <2> QED
    BY <1>3, <2>4 DEF cnt
<1> QED
  BY <1>1, <1>2, <1>3

LEMMA StorageRestored ==
    ASSUME NEW s, NEW q, ShardRecord(s), Accepted(s, q), q.kind = "RestoreSnapshot"
    PROVE  ShardAfter(s, q).in = q.storage.in /\ ShardAfter(s, q).cnt = q.storage.cnt
<1>1. ShardAfter(s, q) = [s EXCEPT !.in = q.storage.in, !.cnt = q.storage.cnt]
  BY DEF ShardAfter, SetStorage
<1> QED
  BY <1>1 DEF ShardRecord

(* A response that is no error is never taken for an expected one.         *)
LEMMA ExpectedIsNoError ==
    ASSUME NEW q
    PROVE  /\ ExpectedKind(q) \notin {"Err", "Garbled"}
           /\ q.kind = "Snapshot" => ExpectedKind(q) = "Snapshot"
BY DEF ExpectedKind
=============================================================================
