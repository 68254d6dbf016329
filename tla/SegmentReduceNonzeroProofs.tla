--------------------- MODULE SegmentReduceNonzeroProofs ---------------------
(***************************************************************************)
(* The outputs of the nonzero kernel are written once in every element,    *)
(* however the segments are split over threads and the threads interleave, *)
(* and are the nonzero elements of the reduction.                          *)
(***************************************************************************)
EXTENDS SegmentReduceNonzero, FiniteSetTheorems, SequenceTheorems, TLAPS

\* The nonzero dimensions of a segment that come before a dimension.
Below(s, d) == {e \in NonzeroDimensions(s) : e < d}

\* What a thread has counted when it comes to a dimension, and how much is left.
LEMMA BelowFacts ==
  ASSUME input.embed_dim \in Nat, NEW s, NEW d \in 1..input.embed_dim + 1
  PROVE  /\ NonzeroCount(s) \in Nat /\ Cardinality(Below(s, d)) \in Nat
         /\ Cardinality(Below(s, 1)) = 0
         /\ d \in Dimensions =>
              Cardinality(Below(s, d + 1)) = Cardinality(Below(s, d)) + IF Nonzero(s, d) THEN 1 ELSE 0
         /\ d \in Dimensions /\ Nonzero(s, d) => Cardinality(Below(s, d)) < NonzeroCount(s)
         /\ d \notin Dimensions => Cardinality(Below(s, d)) = NonzeroCount(s)
PROOF
<1> DEFINE all == NonzeroDimensions(s)
<1>1. IsFiniteSet(all) /\ all \subseteq Dimensions
  <2>1. IsFiniteSet(Dimensions)
    BY FS_Interval DEF Dimensions
  <2>2. all \subseteq Dimensions
    BY DEF NonzeroDimensions
  <2> QED
    BY <2>1, <2>2, FS_Subset
<1>2. Cardinality(all) \in Nat
  BY <1>1, FS_CardinalityType
<1>3. Below(s, d) \subseteq all /\ IsFiniteSet(Below(s, d)) /\ Cardinality(Below(s, d)) \in Nat
      /\ Cardinality(Below(s, d)) <= Cardinality(all)
      /\ (Cardinality(all) = Cardinality(Below(s, d)) => all = Below(s, d))
  <2>1. Below(s, d) \in SUBSET all
    BY DEF Below
  <2> QED
    BY <1>1, <2>1, FS_Subset, FS_CardinalityType
<1>4. Cardinality(Below(s, 1)) = 0
  <2>1. Below(s, 1) = {}
    BY <1>1 DEF Below, Dimensions
  <2> QED
    BY <2>1, FS_EmptySet
<1>5. ASSUME d \in Dimensions
      PROVE  Cardinality(Below(s, d + 1)) = Cardinality(Below(s, d)) + IF Nonzero(s, d) THEN 1 ELSE 0
  <2>1. d \in all <=> Nonzero(s, d)
    BY <1>5 DEF NonzeroDimensions
  <2>2. CASE Nonzero(s, d)
    <3>1. Below(s, d + 1) = Below(s, d) \cup {d} /\ d \notin Below(s, d)
      BY <1>1, <1>5, <2>1, <2>2 DEF Below, Dimensions
    <3> QED
      BY <1>3, <2>2, <3>1, FS_AddElement
  <2>3. CASE ~Nonzero(s, d)
    <3>1. Below(s, d + 1) = Below(s, d)
      BY <1>1, <1>5, <2>1, <2>3 DEF Below, Dimensions
    <3> QED
      BY <1>3, <2>3, <3>1
  <2> QED
    BY <2>2, <2>3
<1>6. ASSUME d \in Dimensions, Nonzero(s, d)
      PROVE  Cardinality(Below(s, d)) < Cardinality(all)
  <2>1. d \in all /\ d \notin Below(s, d)
    BY <1>6 DEF NonzeroDimensions, Below, Dimensions
  <2> QED
    BY <1>2, <1>3, <2>1
<1>7. ASSUME d \notin Dimensions
      PROVE  Below(s, d) = all
  BY <1>1, <1>7 DEF Below, Dimensions
<1> QED
  BY <1>2, <1>3, <1>4, <1>5, <1>6, <1>7 DEF NonzeroCount

------------------------------------------------------------------------------
(* The invariant. *)

Base ==
  /\ input \in Inputs /\ n \in Nat \ {0}
  /\ pc \in {"start", "failed", "reduce", "count", "offsets", "fill", "done"}
  /\ segment_order \in Seq(Int)
  /\ pc = "reduce" => ~Rejected(input)

\* Intervals of segments, no two with a segment in common.
Shards == [s : 1..Segments, end : 2..Segments + 1, d : 1..input.embed_dim + 1, out_idx : Nat \ {0}]
Apart(set) ==
  /\ set \subseteq Shards
  /\ \A w \in set : w.s < w.end
  /\ \A v, w \in set : v # w => v.end <= w.s \/ w.end <= v.s

ShardsApart ==
  /\ Apart(shards)
  /\ pc \notin {"count", "fill"} => shards = {}

\* Segments are counted, or in a shard.
Counted ==
  /\ pc = "count" =>
       /\ DOMAIN segment_nz_counts = 1..Segments
       /\ \A s \in 1..Segments :
            \/ segment_nz_counts[s] = NonzeroCount(s)
            \/ \E w \in shards : w.s <= s /\ s < w.end
  /\ pc = "offsets" => \A s \in 1..Segments : segment_nz_counts[s] = NonzeroCount(s)

\* The offsets so far are sums of the counts, and leave no position out.
OffsetsUpTo(m) ==
  /\ \A s \in 1..m : segment_offsets[s] \in Nat
  /\ segment_offsets[1] = 0
  /\ \A s \in 1..m - 1 : segment_offsets[s + 1] = segment_offsets[s] + NonzeroCount(s)
  /\ \A s, t \in 1..m : s <= t => segment_offsets[s] <= segment_offsets[t]
  /\ \A p \in 1..segment_offsets[m] :
       \E s \in 1..m - 1 : segment_offsets[s] < p /\ p <= segment_offsets[s + 1]

OffsetsSum ==
  /\ pc = "offsets" => /\ n <= Segments + 1
                       /\ segment_offsets \in Seq(Nat) /\ Len(segment_offsets) = n
                       /\ OffsetsUpTo(n)
  /\ pc = "fill" => OffsetsUpTo(Segments + 1)

\* The positions a shard has still to write.
Left(w) == {p \in DOMAIN output : w.out_idx <= p /\ p <= segment_offsets[w.end]}

\* A position is written or a shard's, and no shard is ahead of its count.
Filling ==
  pc = "fill" =>
    /\ DOMAIN output = 1..segment_offsets[Segments + 1]
    /\ \A w \in shards :
         w.out_idx = segment_offsets[w.s] + 1 + Cardinality(Below(w.s, w.d))
    /\ \A p \in DOMAIN output : output[p] = Unwritten <=> \E w \in shards : p \in Left(w)

FInv == Base /\ ShardsApart /\ Counted /\ OffsetsSum /\ Filling /\ OutputFull

\* Nothing that the counts depend on changes after the reduction.
LEMMA SameCounts ==
  ASSUME UNCHANGED <<input, reduced>>
  PROVE  /\ Segments' = Segments /\ Dimensions' = Dimensions
         /\ \A s, d : Nonzero(s, d)' = Nonzero(s, d)
         /\ \A s : NonzeroCount(s)' = NonzeroCount(s)
         /\ \A s, d : Below(s, d)' = Below(s, d)
PROOF
<1>1. input' = input /\ segment_order' = segment_order /\ segment_sums' = segment_sums
  BY DEF reduced
<1>2. Segments' = Segments /\ Dimensions' = Dimensions
  BY <1>1 DEF Segments, Dimensions
<1>3. \A s, d : Nonzero(s, d)' = Nonzero(s, d)
  BY <1>1, Zenon DEF Nonzero
<1>4. \A s : NonzeroDimensions(s)' = NonzeroDimensions(s)
  BY <1>1, <1>2, Zenon DEF NonzeroDimensions, Nonzero
<1> QED
  BY <1>2, <1>3, <1>4, Zenon DEF NonzeroCount, Below

\* The numbers of segments and of dimensions are natural numbers.
LEMMA SegmentsNat == Base => Segments \in Nat /\ input.embed_dim \in Nat
PROOF
  BY InputsAssumption, LenProperties DEF Base, Segments

\* Shard() gives every segment to one interval.
LEMMA ShardedFacts ==
  ASSUME Segments \in Nat, NEW parts \in Sharded
  PROVE  /\ \A i \in parts : i[1] \in 1..Segments /\ i[2] \in 2..Segments + 1 /\ i[1] < i[2]
         /\ \A i, j \in parts : i # j => i[2] <= j[1] \/ j[2] <= i[1]
         /\ \A s \in 1..Segments : \E i \in parts : In(s, i)
PROOF
<1>1. \A i \in parts : i[1] \in 1..Segments /\ i[2] \in 2..Segments + 1 /\ i[1] < i[2]
  BY DEF Sharded, Intervals
<1>2. \A s \in 1..Segments : \E i \in parts : \A j \in parts : In(s, j) <=> j = i
  BY DEF Sharded
<1>3. ASSUME NEW i \in parts, NEW j \in parts, i # j, i[1] <= j[1]
      PROVE  i[2] <= j[1]
  <2>1. PICK k \in parts : \A l \in parts : In(j[1], l) <=> l = k
    BY <1>1, <1>2
  <2>2. In(j[1], j)
    BY <1>1 DEF In
  <2>3. ~In(j[1], i)
    BY <1>3, <2>1, <2>2
  <2> QED
    BY <1>1, <1>3, <2>3 DEF In
<1>4. ASSUME NEW i \in parts, NEW j \in parts, i # j
      PROVE  i[2] <= j[1] \/ j[2] <= i[1]
  <2>1. i[1] <= j[1] \/ j[1] <= i[1]
    BY <1>1
  <2> QED
    BY <1>3, <1>4, <2>1
<1> QED
  BY <1>1, <1>2, <1>4

------------------------------------------------------------------------------
(* The steps of one thread. *)

\* Checking the inputs: a call that goes on has ids of type integer to reduce.
LEMMA StartStep == FInv /\ Start => FInv'
PROOF
<1> SUFFICES ASSUME FInv, Start PROVE FInv'
  OBVIOUS
<1>1. /\ pc = "start" /\ pc' \in {"failed", "reduce"} /\ (pc' = "reduce" => ~Rejected(input))
      /\ input' = input /\ n' = n /\ segment_order' = segment_order /\ shards' = shards
  BY DEF Start
<1>2. Base'
  BY <1>1 DEF FInv, Base, Rejected
<1> QED
  BY <1>1, <1>2 DEF FInv, ShardsApart, Apart, Shards, Counted, OffsetsSum, Filling, OutputFull

\* Reducing a row keeps the segment ids integers, and has no shard yet.
LEMMA ReduceStep == FInv /\ ReduceRow => FInv'
PROOF
<1> SUFFICES ASSUME FInv, ReduceRow PROVE FInv'
  OBVIOUS
<1>1. /\ pc = "reduce" /\ pc' = pc /\ input' = input /\ n' = n + 1 /\ shards' = shards
      /\ n <= Len(input.indices) /\ input \in Inputs /\ n \in Nat \ {0} /\ shards = {}
      /\ segment_order \in Seq(Int) /\ ~Rejected(input)
  BY DEF ReduceRow, FInv, Base, ShardsApart
<1>2. SegmentId(input, n) \in Int
  <2>1. input.indices \in Seq(Int)
    BY <1>1, InputsAssumption
  <2>2. n \in 1..Len(input.indices)
    BY <1>1, <2>1, LenProperties
  <2> QED
    BY <1>1, <2>2, InputsAssumption
<1>3. segment_order' \in Seq(Int)
  <2>1. CASE NewSegment
    BY <1>1, <1>2, <2>1, AppendProperties DEF NewSegment
  <2>2. CASE OldSegment
    BY <1>1, <2>2 DEF OldSegment
  <2> QED
    BY <2>1, <2>2 DEF ReduceRow
<1>4. Base'
  BY <1>1, <1>3 DEF Base, Rejected
<1> QED
  BY <1>1, <1>4 DEF FInv, ShardsApart, Apart, Shards, Counted, OffsetsSum, Filling, OutputFull

\* Before the counting, every segment is in a shard.
LEMMA BeginCountStep == FInv /\ BeginCount => FInv'
PROOF
<1> SUFFICES ASSUME FInv, BeginCount PROVE FInv'
  OBVIOUS
<1>1. /\ pc' = "count" /\ input' = input /\ n' = n /\ UNCHANGED reduced
      /\ segment_order' = segment_order /\ Segments \in Nat /\ input.embed_dim \in Nat
  BY SegmentsNat DEF BeginCount, FInv, reduced
<1>2. PICK parts \in Sharded :
        shards' = {[s |-> i[1], end |-> i[2], d |-> 1, out_idx |-> 1] : i \in parts}
  BY DEF BeginCount
<1>3. DOMAIN segment_nz_counts' = 1..Segments
  BY DEF BeginCount
<1>4. Segments' = Segments
  BY <1>1, SameCounts
<1>5. Base'
  BY <1>1 DEF FInv, Base
<1>6. ShardsApart'
  <2>1. shards' \subseteq Shards
        /\ \A w \in shards' : w.s < w.end
    BY <1>1, <1>2, ShardedFacts DEF Shards
  <2>2. \A v, w \in shards' : v # w => v.end <= w.s \/ w.end <= v.s
    BY <1>1, <1>2, ShardedFacts
  <2> QED
    BY <1>1, <1>4, <2>1, <2>2 DEF ShardsApart, Apart, Shards
<1>7. \A s \in 1..Segments : \E w \in shards' : w.s <= s /\ s < w.end
  <2> TAKE s \in 1..Segments
  <2>1. PICK i \in parts : i[1] <= s /\ s < i[2]
    BY <1>1, ShardedFacts DEF In
  <2>2. [s |-> i[1], end |-> i[2], d |-> 1, out_idx |-> 1] \in shards'
    BY <1>2
  <2> QED
    BY <2>1, <2>2
<1>8. Counted'
  BY <1>1, <1>3, <1>4, <1>7 DEF Counted
<1> QED
  BY <1>1, <1>5, <1>6, <1>8 DEF FInv, OffsetsSum, Filling, OutputFull

\* When no shard is left every segment is counted; the offsets start from zero.
LEMMA EndCountStep == FInv /\ EndCount => FInv'
PROOF
<1> SUFFICES ASSUME FInv, EndCount PROVE FInv'
  OBVIOUS
<1>1. /\ pc = "count" /\ pc' = "offsets" /\ shards = {} /\ shards' = shards /\ n' = 1
      /\ input' = input /\ UNCHANGED reduced /\ segment_order' = segment_order
      /\ segment_nz_counts' = segment_nz_counts /\ segment_offsets' = <<0>>
      /\ Segments \in Nat
  BY SegmentsNat DEF EndCount, reduced, FInv
<1>2. Segments' = Segments /\ \A s : NonzeroCount(s)' = NonzeroCount(s)
  BY <1>1, SameCounts
<1>3. \A s \in 1..Segments : segment_nz_counts[s] = NonzeroCount(s)
  BY <1>1 DEF FInv, Counted
<1>4. Base' /\ ShardsApart' /\ Counted'
  BY <1>1, <1>2, <1>3 DEF FInv, Base, ShardsApart, Apart, Shards, Counted
<1>5. segment_offsets' \in Seq(Nat) /\ Len(segment_offsets') = 1 /\ segment_offsets'[1] = 0
  BY <1>1
<1>6. OffsetsUpTo(n)'
  BY <1>1, <1>5 DEF OffsetsUpTo
<1> QED
  BY <1>1, <1>2, <1>4, <1>5, <1>6 DEF FInv, OffsetsSum, Filling, OutputFull

\* An offset more is a prefix sum more: what the sums of a recursion would be.
LEMMA AddOffsetStep == FInv /\ AddOffset => FInv'
PROOF
<1> SUFFICES ASSUME FInv, AddOffset PROVE FInv'
  OBVIOUS
<1> DEFINE next == segment_offsets[n] + NonzeroCount(n)
<1>1. /\ pc = "offsets" /\ pc' = pc /\ shards' = shards /\ n' = n + 1 /\ n <= Segments
      /\ input' = input /\ UNCHANGED reduced /\ segment_order' = segment_order
      /\ segment_nz_counts' = segment_nz_counts
      /\ segment_offsets' = Append(segment_offsets, segment_offsets[n] + segment_nz_counts[n])
      /\ Segments \in Nat /\ n \in Nat \ {0} /\ input.embed_dim \in Nat
  BY SegmentsNat DEF AddOffset, reduced, FInv, Base
<1>2. Segments' = Segments /\ \A s : NonzeroCount(s)' = NonzeroCount(s)
  BY <1>1, SameCounts
<1>3. segment_nz_counts[n] = NonzeroCount(n) /\ NonzeroCount(n) \in Nat
  <2>1. 1 \in 1..input.embed_dim + 1
    BY <1>1
  <2>2. NonzeroCount(n) \in Nat
    BY <1>1, <2>1, BelowFacts
  <2> QED
    BY <1>1, <2>2 DEF FInv, Counted
<1>4. segment_offsets \in Seq(Nat) /\ Len(segment_offsets) = n /\ OffsetsUpTo(n)
  BY <1>1 DEF FInv, OffsetsSum
<1>5. next \in Nat /\ segment_offsets[n] <= next
  BY <1>1, <1>3, <1>4 DEF OffsetsUpTo
<1>6. /\ segment_offsets' \in Seq(Nat) /\ Len(segment_offsets') = n + 1
      /\ segment_offsets'[n + 1] = next
      /\ \A s \in 1..n : segment_offsets'[s] = segment_offsets[s]
  BY <1>1, <1>3, <1>4, <1>5, AppendProperties
<1> HIDE DEF next
<1>7. OffsetsUpTo(n)'
  <2>1. \A s \in 1..n + 1 : segment_offsets'[s] \in Nat
    BY <1>1, <1>4, <1>5, <1>6 DEF OffsetsUpTo
  <2>2. segment_offsets'[1] = 0
    BY <1>1, <1>4, <1>6 DEF OffsetsUpTo
  <2>3. \A s \in 1..n : segment_offsets'[s + 1] = segment_offsets'[s] + NonzeroCount(s)
    BY <1>1, <1>4, <1>6 DEF OffsetsUpTo, next
  <2>4. \A s, t \in 1..n + 1 : s <= t => segment_offsets'[s] <= segment_offsets'[t]
    <3>1. \A s \in 1..n : segment_offsets[s] <= segment_offsets[n] /\ segment_offsets[s] \in Nat
      BY <1>1, <1>4 DEF OffsetsUpTo
    <3>2. \A s \in 1..n : segment_offsets'[s] <= next
      BY <1>1, <1>5, <1>6, <3>1
    <3> QED
      BY <1>1, <1>4, <1>5, <1>6, <3>2 DEF OffsetsUpTo
  <2>5. \A p \in 1..next :
          \E s \in 1..n : segment_offsets'[s] < p /\ p <= segment_offsets'[s + 1]
    <3> TAKE p \in 1..next
    <3>1. CASE p <= segment_offsets[n]
      <4>1. p \in 1..segment_offsets[n]
        BY <1>1, <1>4, <1>5, <3>1 DEF OffsetsUpTo
      <4>2. PICK s \in 1..n - 1 : segment_offsets[s] < p /\ p <= segment_offsets[s + 1]
        BY <1>4, <4>1 DEF OffsetsUpTo
      <4> QED
        BY <1>1, <1>6, <4>2
    <3>2. CASE ~(p <= segment_offsets[n])
      BY <1>1, <1>4, <1>5, <1>6, <3>2 DEF OffsetsUpTo
    <3> QED
      BY <3>1, <3>2
  <2> QED
    <3>1. n' - 1 = n /\ segment_offsets'[n'] = next
      BY <1>1, <1>6
    <3>2. \A s \in 1..n' - 1 :
            segment_offsets'[s + 1] = segment_offsets'[s] + NonzeroCount(s)'
      BY <1>2, <2>3, <3>1
    <3> QED
      BY <1>1, <2>1, <2>2, <2>4, <2>5, <3>1, <3>2 DEF OffsetsUpTo
<1>8. Base' /\ ShardsApart' /\ Counted'
  BY <1>1, <1>2 DEF FInv, Base, ShardsApart, Apart, Shards, Counted
<1> QED
  BY <1>1, <1>2, <1>6, <1>7, <1>8 DEF FInv, OffsetsSum, Filling, OutputFull

------------------------------------------------------------------------------
(* The steps of the workers. *)

\* A shard that shrinks stays apart from the others.
LEMMA ShrinkApart ==
  ASSUME Segments \in Nat, NEW set, Apart(set), NEW w \in set, NEW rest,
         \A v \in rest : /\ v \in Shards /\ v.end = w.end
                         /\ w.s <= v.s /\ v.s < v.end
                         /\ \A u \in rest : u = v
  PROVE  Apart((set \ {w}) \cup rest)
PROOF
<1> DEFINE new == (set \ {w}) \cup rest
<1>1. \A u \in set : u \in Shards /\ u.s < u.end /\ u.s \in Int /\ u.end \in Int
  BY DEF Apart, Shards
<1>2. new \subseteq Shards /\ \A u \in new : u.s < u.end
  BY <1>1
<1>3. \A u \in rest : \A t \in set \ {w} : u.end <= t.s \/ t.end <= u.s
  <2> TAKE u \in rest
  <2> TAKE t \in set \ {w}
  <2>1. w.end <= t.s \/ t.end <= w.s
    BY DEF Apart
  <2>2. u.s \in Int /\ u.end = w.end /\ w.s <= u.s
    BY DEF Shards
  <2> QED
    BY <1>1, <2>1, <2>2
<1>4. \A t, u \in new : u # t => u.end <= t.s \/ t.end <= u.s
  BY <1>3 DEF Apart
<1> QED
  BY <1>2, <1>4 DEF Apart

\* The segment that a shard leaves is the one it has counted.
LEMMA CountStep == \A w \in shards : FInv /\ CountSegment(w) => FInv'
PROOF
<1> SUFFICES ASSUME NEW w \in shards, FInv, CountSegment(w) PROVE FInv'
  OBVIOUS
<1> DEFINE v == [w EXCEPT !.s = @ + 1]
           rest == IF w.s + 1 < w.end THEN {v} ELSE {}
<1>1. /\ pc = "count" /\ pc' = pc /\ input' = input /\ n' = n /\ UNCHANGED reduced
      /\ segment_order' = segment_order /\ shards' = (shards \ {w}) \cup rest
      /\ segment_nz_counts' = [segment_nz_counts EXCEPT ![w.s] = NonzeroCount(w.s)]
      /\ Segments \in Nat
  BY SegmentsNat DEF CountSegment, reduced, FInv
<1>2. Segments' = Segments /\ \A s : NonzeroCount(s)' = NonzeroCount(s)
  BY <1>1, SameCounts
<1>3. /\ Apart(shards) /\ DOMAIN segment_nz_counts = 1..Segments
      /\ \A s \in 1..Segments : \/ segment_nz_counts[s] = NonzeroCount(s)
                                \/ \E u \in shards : u.s <= s /\ s < u.end
  BY <1>1 DEF FInv, ShardsApart, Counted
<1>4. w \in Shards /\ w.s < w.end
  BY <1>3 DEF Apart
<1>5. v \in [s : Int, end : 2..Segments + 1, d : 1..input.embed_dim + 1, out_idx : Nat \ {0}]
      /\ v.s = w.s + 1 /\ v.end = w.end
  <2>1. w.s \in Int /\ w = [s |-> w.s, end |-> w.end, d |-> w.d, out_idx |-> w.out_idx]
    BY <1>4 DEF Shards
  <2>2. v = [s |-> w.s + 1, end |-> w.end, d |-> w.d, out_idx |-> w.out_idx]
    BY <1>4, <2>1 DEF Shards
  <2> QED
    BY <1>4, <2>1, <2>2 DEF Shards
<1>6. \A u \in rest : u = v /\ u \in Shards /\ u.end = w.end /\ w.s <= u.s /\ u.s < u.end
  BY <1>1, <1>4, <1>5 DEF Shards
<1>7. rest = {} => w.end = w.s + 1
  <2>1. w.s \in Int /\ w.end \in Int /\ w.s < w.end
    BY <1>4 DEF Shards
  <2>2. rest = {} => ~(w.s + 1 < w.end)
    BY Zenon
  <2> HIDE DEF rest
  <2> QED
    BY <2>1, <2>2
<1>8. rest # {} => v \in rest
  OBVIOUS
<1> HIDE DEF v, rest
<1>9. Apart(shards')
  BY <1>1, <1>3, <1>6, ShrinkApart
<1>10. ASSUME NEW s \in 1..Segments
       PROVE  \/ segment_nz_counts'[s] = NonzeroCount(s)
              \/ \E u \in shards' : u.s <= s /\ s < u.end
  <2>1. CASE s = w.s
    BY <1>1, <1>3, <2>1
  <2>2. CASE s # w.s /\ segment_nz_counts[s] = NonzeroCount(s)
    BY <1>1, <1>3, <2>2
  <2>3. CASE s # w.s /\ \E u \in shards : u.s <= s /\ s < u.end
    <3>1. PICK u \in shards : u.s <= s /\ s < u.end
      BY <2>3
    <3>2. CASE u # w
      BY <1>1, <3>1, <3>2
    <3>3. CASE u = w
      <4>1. w.s + 1 <= s /\ s < w.end
        BY <1>4, <2>3, <3>1, <3>3 DEF Shards
      <4>2. v \in rest /\ v.s <= s /\ s < v.end
        BY <1>4, <1>5, <1>7, <1>8, <4>1 DEF Shards
      <4> QED
        BY <1>1, <4>2
    <3> QED
      BY <3>2, <3>3
  <2> QED
    BY <1>3, <2>1, <2>2, <2>3
<1>11. Counted'
  BY <1>1, <1>2, <1>3, <1>10 DEF Counted
<1>12. Base' /\ ShardsApart'
  BY <1>1, <1>2, <1>9 DEF FInv, Base, ShardsApart, Apart, Shards
<1> QED
  BY <1>1, <1>11, <1>12 DEF FInv, OffsetsSum, Filling, OutputFull

\* Before the filling, every position is left to the shard of its segment.
LEMMA BeginFillStep == FInv /\ BeginFill => FInv'
PROOF
<1> SUFFICES ASSUME FInv, BeginFill PROVE FInv'
  OBVIOUS
<1> DEFINE Shard(i) == [s |-> i[1], end |-> i[2], d |-> 1, out_idx |-> OutIdx(i[1])]
           total == segment_offsets[Segments + 1]
<1>1. /\ pc = "offsets" /\ pc' = "fill" /\ input' = input /\ n' = n /\ UNCHANGED reduced
      /\ segment_order' = segment_order /\ segment_offsets' = segment_offsets
      /\ n > Segments /\ output' = [i \in 1..segment_offsets[n] |-> Unwritten]
      /\ Segments \in Nat /\ input.embed_dim \in Nat /\ n \in Nat
  BY SegmentsNat DEF BeginFill, reduced, FInv, Base
<1>2. PICK parts \in Sharded : shards' = {Shard(i) : i \in parts}
  BY DEF BeginFill
<1>3. n = Segments + 1 /\ OffsetsUpTo(Segments + 1)
  BY <1>1 DEF FInv, OffsetsSum
<1>4. Segments' = Segments /\ (\A s : NonzeroCount(s)' = NonzeroCount(s))
      /\ \A s, d : Below(s, d)' = Below(s, d)
  BY <1>1, SameCounts
<1>5. /\ \A i \in parts : i[1] \in 1..Segments /\ i[2] \in 2..Segments + 1 /\ i[1] < i[2]
      /\ \A i, j \in parts : i # j => i[2] <= j[1] \/ j[2] <= i[1]
      /\ \A s \in 1..Segments : \E i \in parts : i[1] <= s /\ s < i[2]
  BY <1>1, ShardedFacts DEF In
<1>6. /\ \A s \in 1..Segments + 1 : segment_offsets[s] \in Nat /\ segment_offsets[s] <= total
      /\ \A s, t \in 1..Segments + 1 : s <= t => segment_offsets[s] <= segment_offsets[t]
  BY <1>1, <1>3 DEF OffsetsUpTo
<1>7. Apart(shards')
  <2>1. \A i \in parts : Shard(i) \in Shards
    BY <1>1, <1>5, <1>6 DEF Shards, OutIdx
  <2> QED
    BY <1>2, <1>5, <2>1 DEF Apart
<1>8. Base' /\ ShardsApart' /\ Counted'
  BY <1>1, <1>4, <1>7 DEF FInv, Base, ShardsApart, Apart, Shards, Counted
<1>9. OffsetsSum'
  BY <1>1, <1>3, <1>4 DEF OffsetsSum, OffsetsUpTo
<1>10. \A w \in shards' :
         w.out_idx = segment_offsets[w.s] + 1 + Cardinality(Below(w.s, w.d))
  <2> SUFFICES ASSUME NEW i \in parts
               PROVE  OutIdx(i[1]) = segment_offsets[i[1]] + 1 + Cardinality(Below(i[1], 1))
    BY <1>2
  <2>1. 1 \in 1..input.embed_dim + 1 /\ i[1] \in 1..Segments + 1
    BY <1>1, <1>5
  <2>2. Cardinality(Below(i[1], 1)) = 0
    BY <1>1, <2>1, BelowFacts
  <2>3. segment_offsets[i[1]] \in Nat
    BY <1>6, <2>1
  <2> QED
    BY <2>2, <2>3 DEF OutIdx
<1>11. ASSUME NEW p \in 1..total
       PROVE  \E w \in shards' : w.out_idx <= p /\ p <= segment_offsets[w.end]
  <2>0. (Segments + 1) - 1 = Segments
    BY <1>1
  <2>1. PICK s \in 1..(Segments + 1) - 1 : segment_offsets[s] < p /\ p <= segment_offsets[s + 1]
    BY <1>3, Zenon DEF OffsetsUpTo
  <2>2. PICK i \in parts : i[1] <= s /\ s < i[2]
    BY <1>5, <2>0
  <2>3. /\ i[1] \in 1..Segments + 1 /\ i[2] \in 1..Segments + 1 /\ s \in 1..Segments + 1
        /\ s + 1 \in 1..Segments + 1 /\ i[1] <= s /\ s + 1 <= i[2]
    BY <1>1, <1>5, <2>0, <2>2
  <2>4. /\ segment_offsets[i[1]] \in Nat /\ segment_offsets[i[2]] \in Nat
        /\ segment_offsets[s] \in Nat /\ segment_offsets[s + 1] \in Nat /\ p \in Int
        /\ segment_offsets[i[1]] <= segment_offsets[s]
        /\ segment_offsets[s + 1] <= segment_offsets[i[2]]
    BY <1>6, <2>3
  <2>5. OutIdx(i[1]) <= p /\ p <= segment_offsets[i[2]]
    <3> HIDE DEF total
    <3> QED
      BY <2>1, <2>4 DEF OutIdx
  <2>6. Shard(i) \in shards'
    BY <1>2
  <2> QED
    BY <2>5, <2>6
<1>12. Filling'
  <2>1. DOMAIN output' = 1..total /\ \A p \in DOMAIN output' : output'[p] = Unwritten
    BY <1>1, <1>3
  <2> HIDE DEF total
  <2> QED
    BY <1>1, <1>4, <1>10, <1>11, <2>1 DEF Filling, Left, total
<1> QED
  BY <1>1, <1>8, <1>9, <1>12 DEF FInv, OutputFull

\* While the outputs are filled, every shard works in its own part of them.
LEMMA FillFacts ==
  ASSUME FInv, pc = "fill", NEW w \in shards
  PROVE  /\ Segments \in Nat /\ input.embed_dim \in Nat
         /\ Apart(shards) /\ w \in Shards /\ w.s < w.end
         /\ DOMAIN output = 1..segment_offsets[Segments + 1]
         /\ w.out_idx = segment_offsets[w.s] + 1 + Cardinality(Below(w.s, w.d))
         /\ \A s \in 1..Segments + 1 : segment_offsets[s] \in Nat
         /\ segment_offsets[w.s + 1] = segment_offsets[w.s] + NonzeroCount(w.s)
         /\ segment_offsets[w.s] < w.out_idx
         /\ segment_offsets[w.s + 1] <= segment_offsets[w.end]
         /\ segment_offsets[w.end] <= segment_offsets[Segments + 1]
         /\ \A u \in shards : u # w => \A p \in Left(u) : p \notin Left(w)
PROOF
<1>1. Segments \in Nat /\ input.embed_dim \in Nat /\ Apart(shards)
      /\ OffsetsUpTo(Segments + 1)
      /\ DOMAIN output = 1..segment_offsets[Segments + 1]
      /\ \A u \in shards : u.out_idx = segment_offsets[u.s] + 1 + Cardinality(Below(u.s, u.d))
  BY SegmentsNat DEF FInv, ShardsApart, OffsetsSum, Filling
<1>2. \A u \in shards : u \in Shards /\ u.s < u.end
  BY <1>1 DEF Apart
<1>3. /\ \A s \in 1..Segments + 1 : segment_offsets[s] \in Nat
      /\ \A s, t \in 1..Segments + 1 : s <= t => segment_offsets[s] <= segment_offsets[t]
      /\ \A s \in 1..Segments : segment_offsets[s + 1] = segment_offsets[s] + NonzeroCount(s)
  BY <1>1 DEF OffsetsUpTo
<1>4. \A u \in shards : /\ u.s \in 1..Segments /\ u.end \in 1..Segments + 1 /\ u.s < u.end
                        /\ u.s + 1 \in 1..Segments + 1 /\ u.s + 1 <= u.end
                        /\ u.s \in 1..Segments + 1 /\ u.d \in 1..input.embed_dim + 1
  <2> TAKE u \in shards
  <2>1. /\ u.s \in 1..Segments /\ u.end \in 2..Segments + 1 /\ u.s < u.end
        /\ u.d \in 1..input.embed_dim + 1
    BY <1>2 DEF Shards
  <2>2. Segments \in Nat
    BY <1>1
  <2> QED
    BY <2>1, <2>2
<1>5. \A u \in shards : segment_offsets[u.s] < u.out_idx
  <2> TAKE u \in shards
  <2>1. Cardinality(Below(u.s, u.d)) \in Nat
    BY <1>1, <1>4, BelowFacts
  <2>2. segment_offsets[u.s] \in Nat
    BY <1>3, <1>4
  <2> QED
    BY <1>1, <2>1, <2>2
<1>6. ASSUME NEW u \in shards, u # w, NEW p \in Left(u), p \in Left(w)
      PROVE  FALSE
  <2>1. u.end <= w.s \/ w.end <= u.s
    BY <1>1, <1>6 DEF Apart
  <2>2. segment_offsets[u.end] <= segment_offsets[w.s] \/ segment_offsets[w.end] <= segment_offsets[u.s]
    BY <1>3, <1>4, <2>1
  <2>3. /\ u.out_idx <= p /\ p <= segment_offsets[u.end]
        /\ w.out_idx <= p /\ p <= segment_offsets[w.end] /\ p \in Int
    BY <1>1, <1>3, <1>6 DEF Left
  <2>4. segment_offsets[u.s] < u.out_idx /\ segment_offsets[w.s] < w.out_idx
    BY <1>5
  <2>5. /\ segment_offsets[u.s] \in Int /\ segment_offsets[w.s] \in Int /\ u.out_idx \in Int
        /\ w.out_idx \in Int /\ segment_offsets[u.end] \in Int /\ segment_offsets[w.end] \in Int
    BY <1>2, <1>3, <1>4 DEF Shards
  <2> QED
    BY <2>2, <2>3, <2>4, <2>5
<1>7. segment_offsets[w.s + 1] <= segment_offsets[w.end]
      /\ segment_offsets[w.end] <= segment_offsets[Segments + 1]
  <2>1. Segments + 1 \in 1..Segments + 1 /\ w.end <= Segments + 1
    BY <1>1, <1>4
  <2> QED
    BY <1>3, <1>4, <2>1
<1> QED
  BY <1>1, <1>2, <1>3, <1>4, <1>5, <1>6, <1>7

\* A nonzero element takes the position it is written to off its shard, and only that one.
LEMMA FillStep == \A w \in shards : FInv /\ FillElement(w) => FInv'
PROOF
<1> SUFFICES ASSUME NEW w \in shards, FInv, FillElement(w) PROVE FInv'
  OBVIOUS
<1>0. PICK one : one = IF Nonzero(w.s, w.d) THEN 1 ELSE 0
  OBVIOUS
<1>1. /\ pc = "fill" /\ pc' = pc /\ input' = input /\ n' = n /\ UNCHANGED reduced
      /\ segment_order' = segment_order /\ segment_offsets' = segment_offsets
      /\ w.d \in Dimensions
      /\ output' = IF Nonzero(w.s, w.d) THEN [output EXCEPT ![w.out_idx] = Element(w.s, w.d)]
                   ELSE output
  BY DEF FillElement, reduced
<1>2. PICK v : v = AfterElement(w)
  OBVIOUS
<1>3. shards' = (shards \ {w}) \cup {v}
  BY <1>2 DEF FillElement
<1>4. /\ Segments \in Nat /\ input.embed_dim \in Nat
      /\ Apart(shards) /\ w \in Shards /\ w.s < w.end
      /\ DOMAIN output = 1..segment_offsets[Segments + 1]
      /\ w.out_idx = segment_offsets[w.s] + 1 + Cardinality(Below(w.s, w.d))
      /\ \A s \in 1..Segments + 1 : segment_offsets[s] \in Nat
      /\ segment_offsets[w.s + 1] = segment_offsets[w.s] + NonzeroCount(w.s)
      /\ segment_offsets[w.s] < w.out_idx
      /\ segment_offsets[w.s + 1] <= segment_offsets[w.end]
      /\ segment_offsets[w.end] <= segment_offsets[Segments + 1]
      /\ \A u \in shards : u # w => \A p \in Left(u) : p \notin Left(w)
  BY <1>1, FillFacts
<1>5. Segments' = Segments /\ \A s, d : Below(s, d)' = Below(s, d)
  BY <1>1, SameCounts
<1>6. /\ w.s \in 1..Segments /\ w.end \in 2..Segments + 1 /\ w.d \in 1..input.embed_dim
      /\ w.out_idx \in Nat \ {0}
      /\ w = [s |-> w.s, end |-> w.end, d |-> w.d, out_idx |-> w.out_idx]
  BY <1>1, <1>4 DEF Shards, Dimensions
<1>7. v = [s |-> w.s, end |-> w.end, d |-> w.d + 1, out_idx |-> w.out_idx + one]
  <2>1. w.out_idx + one = IF Nonzero(w.s, w.d) THEN w.out_idx + 1 ELSE w.out_idx
    BY <1>0, <1>6
  <2>2. v = [w EXCEPT !.d = w.d + 1, !.out_idx = w.out_idx + one]
    BY <1>2, <2>1, Zenon DEF AfterElement
  <2> QED
    BY <1>6, <2>2
<1>8. v \in Shards /\ v.s = w.s /\ v.end = w.end /\ v.d = w.d + 1 /\ v.out_idx = w.out_idx + one
  <2>1. w.d + 1 \in 1..input.embed_dim + 1 /\ w.out_idx + one \in Nat \ {0}
    <3>1. one \in Nat
      BY <1>0
    <3>2. w.d \in 1..input.embed_dim /\ w.out_idx \in Nat \ {0} /\ input.embed_dim \in Nat
      BY <1>4, <1>6
    <3> QED
      BY <3>1, <3>2
  <2> QED
    BY <1>6, <1>7, <2>1 DEF Shards
<1>9. Apart(shards')
  <2>1. w.s <= v.s /\ v.s < v.end /\ v.end = w.end /\ v \in Shards
    BY <1>4, <1>6, <1>8
  <2> QED
    BY <1>3, <1>4, <2>1, ShrinkApart
<1>10. /\ Cardinality(Below(w.s, w.d)) \in Nat /\ NonzeroCount(w.s) \in Nat
       /\ Cardinality(Below(w.s, w.d + 1)) = Cardinality(Below(w.s, w.d)) + one
       /\ one \in Nat
       /\ Nonzero(w.s, w.d) => Cardinality(Below(w.s, w.d)) < NonzeroCount(w.s)
  <2>1. w.d \in 1..input.embed_dim + 1
    BY <1>4, <1>6
  <2> QED
    BY <1>0, <1>1, <1>4, <2>1, BelowFacts
<1>11. segment_offsets[w.s] \in Nat /\ segment_offsets[w.end] \in Nat
       /\ segment_offsets[Segments + 1] \in Nat
  BY <1>4, <1>6
<1>12. v.out_idx = segment_offsets[v.s] + 1 + Cardinality(Below(v.s, v.d))
  <2>1. Cardinality(Below(v.s, v.d)) = Cardinality(Below(w.s, w.d)) + one
    BY <1>8, <1>10
  <2>2. v.out_idx = segment_offsets[w.s] + 1 + Cardinality(Below(w.s, w.d)) + one
    BY <1>4, <1>8
  <2> QED
    BY <1>8, <1>10, <1>11, <2>1, <2>2
<1>13. ASSUME Nonzero(w.s, w.d)
       PROVE  w.out_idx \in DOMAIN output /\ w.out_idx \in Left(w)
  <2>1. w.out_idx <= segment_offsets[w.end]
    <3>1. w.out_idx <= segment_offsets[w.s] + NonzeroCount(w.s)
      BY <1>4, <1>10, <1>11, <1>13
    <3>2. segment_offsets[w.s] + NonzeroCount(w.s) <= segment_offsets[w.end]
      BY <1>4
    <3> QED
      BY <1>6, <1>10, <1>11, <3>1, <3>2
  <2>2. segment_offsets[w.end] <= segment_offsets[Segments + 1]
    BY <1>4
  <2>3. w.out_idx \in 1..segment_offsets[Segments + 1]
    BY <1>6, <1>11, <2>1, <2>2
  <2> QED
    BY <1>4, <2>1, <2>3 DEF Left
<1>14. DOMAIN output' = DOMAIN output /\ \A u : Left(u)' = Left(u)
  BY <1>1 DEF Left
<1>15. \A p \in DOMAIN output : p \in Left(v) <=> p \in Left(w) /\ (Nonzero(w.s, w.d) => p # w.out_idx)
  <2> TAKE p \in DOMAIN output
  <2>1. p \in Int
    BY <1>4, <1>11
  <2>2. v.out_idx <= p <=> w.out_idx <= p /\ (Nonzero(w.s, w.d) => p # w.out_idx)
    BY <1>0, <1>6, <1>8, <2>1
  <2> QED
    BY <1>8, <2>2 DEF Left
<1>16. Element(w.s, w.d) # Unwritten
  BY DEF Element, Unwritten
<1>17. \A p \in DOMAIN output : output[p] = Unwritten <=> \E u \in shards : p \in Left(u)
  BY <1>1 DEF FInv, Filling
<1>18. \A p \in DOMAIN output : output'[p] = Unwritten <=> \E u \in shards' : p \in Left(u)
  <2> TAKE p \in DOMAIN output
  <2>1. CASE Nonzero(w.s, w.d) /\ p = w.out_idx
    <3>1. output'[p] # Unwritten
      BY <1>1, <1>16, <2>1
    <3>2. \A u \in shards' : p \notin Left(u)
      BY <1>3, <1>4, <1>13, <1>15, <2>1
    <3> QED
      BY <3>1, <3>2
  <2>2. CASE ~(Nonzero(w.s, w.d) /\ p = w.out_idx)
    <3>1. output'[p] = output[p]
      BY <1>1, <2>2
    <3>2. p \in Left(v) <=> p \in Left(w)
      BY <1>15, <2>2
    <3>3. (\E u \in shards' : p \in Left(u)) <=> \E u \in shards : p \in Left(u)
      BY <1>3, <3>2
    <3> QED
      BY <1>17, <3>1, <3>3
  <2> QED
    BY <2>1, <2>2
<1>19. Filling'
  <2>1. \A u \in shards' : u.out_idx = segment_offsets[u.s] + 1 + Cardinality(Below(u.s, u.d))
    BY <1>1, <1>3, <1>12 DEF FInv, Filling
  <2> QED
    BY <1>1, <1>4, <1>5, <1>14, <1>18, <2>1 DEF Filling
<1>20. Base' /\ ShardsApart'
  BY <1>1, <1>5, <1>9 DEF FInv, Base, ShardsApart, Apart, Shards
<1>21. Counted' /\ OutputFull'
  BY <1>1 DEF Counted, OutputFull
<1>22. OffsetsSum'
  <2>1. \A s : NonzeroCount(s)' = NonzeroCount(s)
    BY <1>1, SameCounts
  <2> QED
    BY <1>1, <1>5, <2>1 DEF FInv, OffsetsSum, OffsetsUpTo
<1> QED
  BY <1>19, <1>20, <1>21, <1>22 DEF FInv

\* A segment ends where the next begins, so that starting from its offset and going on agree.
LEMMA NextSegmentStep == \A w \in shards : FInv /\ NextSegment(w) => FInv'
PROOF
<1> SUFFICES ASSUME NEW w \in shards, FInv, NextSegment(w) PROVE FInv'
  OBVIOUS
<1>1. /\ pc = "fill" /\ pc' = pc /\ input' = input /\ n' = n /\ UNCHANGED reduced
      /\ segment_order' = segment_order /\ segment_offsets' = segment_offsets
      /\ w.d \notin Dimensions /\ output' = output
  BY DEF NextSegment, reduced
<1>2. PICK v : v = [w EXCEPT !.s = @ + 1, !.d = 1,
                             !.out_idx = IF Parallel THEN OutIdx(w.s + 1) ELSE @]
  OBVIOUS
<1>3. PICK rest : rest = IF w.s + 1 < w.end THEN {v} ELSE {}
  OBVIOUS
<1>4. shards' = (shards \ {w}) \cup rest
  BY <1>2, <1>3 DEF NextSegment
<1>5. /\ Segments \in Nat /\ input.embed_dim \in Nat
      /\ Apart(shards) /\ w \in Shards /\ w.s < w.end
      /\ DOMAIN output = 1..segment_offsets[Segments + 1]
      /\ w.out_idx = segment_offsets[w.s] + 1 + Cardinality(Below(w.s, w.d))
      /\ \A s \in 1..Segments + 1 : segment_offsets[s] \in Nat
      /\ segment_offsets[w.s + 1] = segment_offsets[w.s] + NonzeroCount(w.s)
  BY <1>1, FillFacts
<1>6. Segments' = Segments /\ (\A s, d : Below(s, d)' = Below(s, d))
      /\ \A s : NonzeroCount(s)' = NonzeroCount(s)
  BY <1>1, SameCounts
<1>7. /\ w.s \in 1..Segments /\ w.end \in 2..Segments + 1 /\ w.d \in 1..input.embed_dim + 1
      /\ w.out_idx \in Nat \ {0}
      /\ w = [s |-> w.s, end |-> w.end, d |-> w.d, out_idx |-> w.out_idx]
  BY <1>5 DEF Shards
<1>8. 1 \in 1..input.embed_dim + 1
  BY <1>5
<1>9. Cardinality(Below(w.s, w.d)) = NonzeroCount(w.s) /\ NonzeroCount(w.s) \in Nat
      /\ Cardinality(Below(w.s + 1, 1)) = 0
  BY <1>1, <1>5, <1>7, <1>8, BelowFacts
<1>10. segment_offsets[w.s] \in Nat /\ segment_offsets[w.end] \in Nat
       /\ segment_offsets[w.s + 1] \in Nat
  BY <1>5, <1>7
<1>11. w.out_idx = segment_offsets[w.s + 1] + 1
  BY <1>5, <1>9, <1>10
<1>12. v = [s |-> w.s + 1, end |-> w.end, d |-> 1, out_idx |-> w.out_idx]
  BY <1>2, <1>7, <1>11 DEF OutIdx
<1>13. v.s = w.s + 1 /\ v.end = w.end /\ v.d = 1 /\ v.out_idx = w.out_idx
  BY <1>12
<1>14. w.s + 1 < w.end => v \in Shards
  <2>1. w.s + 1 < w.end => w.s + 1 \in 1..Segments
    <3>1. w.s \in 1..Segments /\ w.end \in 2..Segments + 1 /\ Segments \in Nat
      BY <1>5, <1>7
    <3> QED
      BY <3>1
  <2> QED
    BY <1>7, <1>8, <1>12, <2>1 DEF Shards
<1>15. Apart(shards')
  <2>1. \A u \in rest : u = v /\ w.s + 1 < w.end
    BY <1>3
  <2>2. \A u \in rest : /\ u \in Shards /\ u.end = w.end /\ w.s <= u.s /\ u.s < u.end
                        /\ \A x \in rest : x = u
    BY <1>7, <1>13, <1>14, <2>1
  <2> QED
    BY <1>4, <1>5, <2>2, ShrinkApart
<1>16. v.out_idx = segment_offsets[v.s] + 1 + Cardinality(Below(v.s, v.d))
  BY <1>9, <1>10, <1>11, <1>13
<1>17. DOMAIN output' = DOMAIN output /\ \A u : Left(u)' = Left(u)
  BY <1>1 DEF Left
<1>18. \A p \in DOMAIN output : p \in Left(w) <=> \E u \in rest : p \in Left(u)
  <2>1. CASE w.s + 1 < w.end
    <3>1. rest = {v}
      BY <1>3, <2>1
    <3> QED
      BY <1>13, <3>1 DEF Left
  <2>2. CASE ~(w.s + 1 < w.end)
    <3>1. rest = {} /\ w.end = w.s + 1
      BY <1>3, <1>5, <1>7, <2>2
    <3> QED
      BY <1>5, <1>7, <1>10, <1>11, <3>1 DEF Left
  <2> QED
    BY <2>1, <2>2
<1>19. \A p \in DOMAIN output : output[p] = Unwritten <=> \E u \in shards' : p \in Left(u)
  <2> TAKE p \in DOMAIN output
  <2>1. output[p] = Unwritten <=> \E u \in shards : p \in Left(u)
    BY <1>1 DEF FInv, Filling
  <2> QED
    BY <1>4, <1>18, <2>1
<1>20. Filling'
  <2>1. \A u \in shards' : u.out_idx = segment_offsets[u.s] + 1 + Cardinality(Below(u.s, u.d))
    <3> TAKE u \in shards'
    <3>1. u \in shards \/ u = v
      BY <1>3, <1>4
    <3> QED
      BY <1>1, <1>16, <3>1 DEF FInv, Filling
  <2> QED
    BY <1>1, <1>5, <1>6, <1>17, <1>19, <2>1 DEF Filling
<1>21. Base' /\ ShardsApart'
  BY <1>1, <1>6, <1>15 DEF FInv, Base, ShardsApart, Apart, Shards
<1>22. Counted' /\ OutputFull'
  BY <1>1 DEF Counted, OutputFull
<1>23. OffsetsSum'
  BY <1>1, <1>6 DEF FInv, OffsetsSum, OffsetsUpTo
<1> QED
  BY <1>20, <1>21, <1>22, <1>23 DEF FInv

\* When no shard is left, no position is a shard's.
LEMMA EndFillStep == FInv /\ EndFill => FInv'
PROOF
<1> SUFFICES ASSUME FInv, EndFill PROVE FInv'
  OBVIOUS
<1>1. /\ pc = "fill" /\ pc' = "done" /\ shards = {} /\ shards' = shards /\ input' = input
      /\ n' = n /\ segment_order' = segment_order /\ output' = output
  BY DEF EndFill, reduced
<1>2. \A p \in DOMAIN output : output[p] # Unwritten
  BY <1>1 DEF FInv, Filling
<1>3. Base' /\ ShardsApart' /\ OutputFull'
  BY <1>1, <1>2 DEF FInv, Base, ShardsApart, Apart, Shards, OutputFull
<1> QED
  BY <1>1, <1>3 DEF FInv, Counted, OffsetsSum, Filling

\* The invariant holds when Compute is called.
LEMMA InitFInv == Init => FInv
PROOF
<1> SUFFICES ASSUME Init PROVE FInv
  OBVIOUS
<1>1. Base
  BY DEF Init, Base
<1> QED
  BY <1>1 DEF Init, FInv, ShardsApart, Apart, Counted, OffsetsSum, Filling, OutputFull

\* Every step keeps the invariant.
LEMMA NextFInv == FInv /\ [Next]_vars => FInv'
PROOF
<1> SUFFICES ASSUME FInv, [Next]_vars PROVE FInv'
  OBVIOUS
<1>1. CASE Start
  BY <1>1, StartStep
<1>2. CASE ReduceRow
  BY <1>2, ReduceStep
<1>3. CASE BeginCount
  BY <1>3, BeginCountStep
<1>4. CASE EndCount
  BY <1>4, EndCountStep
<1>5. CASE AddOffset
  BY <1>5, AddOffsetStep
<1>6. CASE BeginFill
  BY <1>6, BeginFillStep
<1>7. CASE EndFill
  BY <1>7, EndFillStep
<1>8. ASSUME NEW w \in shards, CountSegment(w)
      PROVE  FInv'
  BY <1>8, CountStep
<1>9. ASSUME NEW w \in shards, FillElement(w)
      PROVE  FInv'
  BY <1>9, FillStep
<1>10. ASSUME NEW w \in shards, NextSegment(w)
       PROVE  FInv'
  BY <1>10, NextSegmentStep
<1>11. CASE UNCHANGED vars
  <2>1. /\ input' = input /\ pc' = pc /\ n' = n /\ UNCHANGED reduced
        /\ segment_order' = segment_order /\ segment_nz_counts' = segment_nz_counts
        /\ segment_offsets' = segment_offsets /\ shards' = shards /\ output' = output
    BY <1>11 DEF vars, reduced
  <2>2. Segments' = Segments /\ (\A s : NonzeroCount(s)' = NonzeroCount(s))
        /\ \A s, d : Below(s, d)' = Below(s, d)
    BY <2>1, SameCounts
  <2>3. Base' /\ ShardsApart' /\ Counted' /\ OutputFull'
    BY <2>1, <2>2 DEF FInv, Base, ShardsApart, Apart, Shards, Counted, OutputFull
  <2>4. OffsetsSum' /\ Filling'
    BY <2>1, <2>2 DEF FInv, OffsetsSum, OffsetsUpTo, Filling, Left
  <2> QED
    BY <2>3, <2>4 DEF FInv
<1> QED
  BY <1>1, <1>2, <1>3, <1>4, <1>5, <1>6, <1>7, <1>8, <1>9, <1>10, <1>11 DEF Next, Returned

\* The position of a shard's next nonzero element is one it has left to write.
LEMMA FInvWritesFit == FInv => WritesFit
PROOF
<1> SUFFICES ASSUME FInv, pc = "fill", NEW w \in shards, w.d \in Dimensions, Nonzero(w.s, w.d)
             PROVE  w.out_idx \in DOMAIN output /\ output[w.out_idx] = Unwritten
  BY DEF WritesFit
<1>1. /\ Segments \in Nat /\ input.embed_dim \in Nat /\ w \in Shards
      /\ DOMAIN output = 1..segment_offsets[Segments + 1]
      /\ w.out_idx = segment_offsets[w.s] + 1 + Cardinality(Below(w.s, w.d))
      /\ \A s \in 1..Segments + 1 : segment_offsets[s] \in Nat
      /\ segment_offsets[w.s + 1] = segment_offsets[w.s] + NonzeroCount(w.s)
      /\ segment_offsets[w.s + 1] <= segment_offsets[w.end]
      /\ segment_offsets[w.end] <= segment_offsets[Segments + 1]
  BY FillFacts
<1>2. /\ w.s \in 1..Segments /\ w.end \in 2..Segments + 1 /\ w.d \in 1..input.embed_dim + 1
      /\ w.out_idx \in Nat \ {0}
  BY <1>1 DEF Shards
<1>3. segment_offsets[w.s] \in Nat /\ segment_offsets[w.end] \in Nat
      /\ segment_offsets[Segments + 1] \in Nat
  <2>1. w.s \in 1..Segments + 1 /\ w.end \in 1..Segments + 1 /\ Segments + 1 \in 1..Segments + 1
    BY <1>1, <1>2
  <2> QED
    BY <1>1, <2>1
<1>4. /\ Cardinality(Below(w.s, w.d)) \in Nat /\ NonzeroCount(w.s) \in Nat
      /\ Cardinality(Below(w.s, w.d)) < NonzeroCount(w.s)
  BY <1>1, <1>2, BelowFacts
<1>5. w.out_idx <= segment_offsets[w.end]
  <2>1. w.out_idx <= segment_offsets[w.s] + NonzeroCount(w.s)
    BY <1>1, <1>3, <1>4
  <2>2. segment_offsets[w.s] + NonzeroCount(w.s) <= segment_offsets[w.end]
    BY <1>1
  <2> QED
    BY <1>2, <1>3, <1>4, <2>1, <2>2
<1>6. w.out_idx \in DOMAIN output
  <2>1. segment_offsets[w.end] <= segment_offsets[Segments + 1]
    BY <1>1
  <2>2. w.out_idx \in 1..segment_offsets[Segments + 1]
    BY <1>2, <1>3, <1>5, <2>1
  <2> QED
    BY <1>1, <2>2
<1>7. w.out_idx \in Left(w)
  BY <1>2, <1>5, <1>6 DEF Left
<1> QED
  BY <1>6, <1>7 DEF FInv, Filling

\* Every write of every filling thread lands on an element of the outputs that was allocated and
\* that nobody has written, for any input, any number of workers, any split and interleaving.
THEOREM NonzeroWritesFit == Spec => []WritesFit
PROOF
<1>1. Init => FInv
  BY InitFInv
<1>2. FInv /\ [Next]_vars => FInv'
  BY NextFInv
<1>3. FInv => WritesFit
  BY FInvWritesFit
<1> QED
  BY <1>1, <1>2, <1>3, PTL DEF Spec

\* When Compute returns, no element of its outputs is left as it was allocated.
THEOREM NonzeroOutputFull == Spec => []OutputFull
PROOF
<1>1. Init => FInv
  BY InitFInv
<1>2. FInv /\ [Next]_vars => FInv'
  BY NextFInv
<1>3. FInv => OutputFull
  BY DEF FInv
<1> QED
  BY <1>1, <1>2, <1>3, PTL DEF Spec

------------------------------------------------------------------------------
(* What the outputs are: the nonzero elements of the reduction. *)

\* A set of natural numbers that has an element has a least one.
LEMMA LeastRow ==
  ASSUME NEW T \in SUBSET Nat, T # {}
  PROVE  \E x \in T : \A y \in T : x <= y
PROOF
<1>1. PICK x \in T : \A y \in T : <<y, x>> \notin OpToRel(<, Nat)
  BY NatLessThanWellFounded, WFMin
<1>2. \A y \in T : ~(y < x)
  BY <1>1 DEF OpToRel
<1> QED
  BY <1>2

\* There is a function of the sums of a sequence up to each of its elements.
LEMMA SumsExist ==
  ASSUME NEW x, NEW len \in Nat
  PROVE  \E f : f = [i \in 0..len |-> IF i = 0 THEN 0 ELSE f[i - 1] + x[i]]
PROOF
<1> DEFINE Sums(f, m) == f = [i \in 0..m |-> IF i = 0 THEN 0 ELSE f[i - 1] + x[i]]
           Short == {m \in Nat : ~\E f : Sums(f, m)}
<1>1. SUFFICES Short = {}
  OBVIOUS
<1>2. SUFFICES ASSUME Short # {} PROVE FALSE
  OBVIOUS
<1>3. PICK m \in Short : \A y \in Short : m <= y
  <2> HIDE DEF Short
  <2>1. Short \in SUBSET Nat
    BY DEF Short
  <2> QED
    BY <1>2, <2>1, LeastRow
<1>4. m # 0
  <2>1. Sums([i \in 0..0 |-> 0], 0)
    OBVIOUS
  <2> QED
    BY <2>1
<1>5. m \in Nat /\ m - 1 \in Nat /\ m - 1 \notin Short
  <2>1. m \in Nat
    BY <1>3
  <2>2. m - 1 \in Nat /\ ~(m <= m - 1)
    BY <1>4, <2>1
  <2> QED
    BY <1>3, <2>1, <2>2
<1>6. PICK f : Sums(f, m - 1)
  BY <1>5
<1>7. PICK g : g = [i \in 0..m |-> IF i = 0 THEN 0 ELSE f[i - 1] + x[i]]
  OBVIOUS
<1>8. \A i \in 0..m - 1 : g[i] = f[i]
  BY <1>6, <1>7
<1>9. \A i \in 0..m : g[i] = IF i = 0 THEN 0 ELSE g[i - 1] + x[i]
  <2> TAKE i \in 0..m
  <2>1. i # 0 => i - 1 \in 0..m - 1
    BY <1>5
  <2> QED
    BY <1>7, <1>8, <2>1
<1>10. Sums(g, m)
  BY <1>7, <1>9
<1> QED
  BY <1>3, <1>10

\* The sums of a reduction start from zero, and each row adds to those of its segment.
LEMMA PartialSumsStep ==
  ASSUME NEW in, Len(in.indices) \in Nat, DOMAIN in.indices = 1..Len(in.indices), NEW id, NEW d
  PROVE  /\ PartialSums(in, id, d)[0] = 0
         /\ \A i \in 1..Len(in.indices) :
              PartialSums(in, id, d)[i] =
                PartialSums(in, id, d)[i - 1] + IF SegmentId(in, i) = id THEN DataRow(in, i)[d] ELSE 0
PROOF
<1> DEFINE len == Len(in.indices)
           x == [i \in 1..len |-> IF i \in RowsOf(in, id) THEN DataRow(in, i)[d] ELSE 0]
           Is(f) == f = [i \in 0..len |-> IF i = 0 THEN 0 ELSE f[i - 1] +
                            IF i \in RowsOf(in, id) THEN DataRow(in, i)[d] ELSE 0]
<1>1. \E f : Is(f)
  <2>1. PICK f : f = [i \in 0..len |-> IF i = 0 THEN 0 ELSE f[i - 1] + x[i]]
    BY SumsExist
  <2> DEFINE a(i) == IF i = 0 THEN 0 ELSE f[i - 1] + x[i]
             e(i) == IF i = 0 THEN 0 ELSE f[i - 1] +
                       IF i \in RowsOf(in, id) THEN DataRow(in, i)[d] ELSE 0
  <2>2. \A i \in 0..len : a(i) = e(i)
    OBVIOUS
  <2>3. f = [i \in 0..len |-> a(i)]
    BY <2>1
  <2>4. f = [i \in 0..len |-> e(i)]
    <3> HIDE DEF a, e, x, len, Is
    <3> QED
      BY <2>2, <2>3
  <2>5. Is(f)
    BY <2>4
  <2> QED
    BY <2>5
<1>2. Is(PartialSums(in, id, d))
  BY <1>1 DEF PartialSums
<1>3. \A i \in 1..len : i \in RowsOf(in, id) <=> SegmentId(in, i) = id
  BY DEF RowsOf
<1>4. ASSUME NEW f, Is(f)
      PROVE  /\ f[0] = 0
             /\ \A i \in 1..len :
                  f[i] = f[i - 1] + IF i \in RowsOf(in, id) THEN DataRow(in, i)[d] ELSE 0
  <2> DEFINE e(i) == IF i = 0 THEN 0 ELSE f[i - 1] +
                       IF i \in RowsOf(in, id) THEN DataRow(in, i)[d] ELSE 0
  <2>1. f = [i \in 0..len |-> e(i)]
    BY <1>4
  <2>2. 0 \in 0..len /\ \A i \in 1..len : i \in 0..len /\ i # 0
    OBVIOUS
  <2>3. \A i \in 0..len : f[i] = e(i)
    <3> HIDE DEF e
    <3> QED
      BY <2>1
  <2> QED
    BY <2>2, <2>3
<1> HIDE DEF Is
<1> QED
  BY <1>2, <1>3, <1>4

------------------------------------------------------------------------------
(* The invariant. *)

Reducing == pc \notin {"start", "failed"}

\* How many rows have been reduced, and those of a segment among them.
Reduced == IF pc = "reduce" THEN n - 1 ELSE Len(input.indices)
RowsUpTo(id, m) == {i \in 1..m : SegmentId(input, i) = id}

\* A call that was rejected, or has not begun, has no segment.
Ready ==
  /\ pc = "start" => n = 1
  /\ ~Reducing => segment_order = <<>> /\ segment_sums = <<>> /\ segment_counts = <<>>
  /\ Reducing => ~Rejected(input) /\ output_shape[1] = BatchSize(input)
  /\ pc = "reduce" => n <= Len(input.indices) + 1

\* The segments are the ids so far, each once; in order when the ids ascend.
Ordered ==
  /\ \A s, t \in 1..Segments : segment_order[s] = segment_order[t] => s = t
  /\ Reducing => /\ \A s \in 1..Segments : RowsUpTo(segment_order[s], Reduced) # {}
                 /\ \A i \in 1..Reduced :
                      \E s \in 1..Segments : segment_order[s] = SegmentId(input, i)
  /\ Reducing /\ Ascending => \A s, t \in 1..Segments : s < t => segment_order[s] < segment_order[t]

\* The sums are those of the reduction so far, which is zero for an id not met yet.
Summed ==
  /\ segment_sums \in Seq([Dimensions -> Int]) /\ Len(segment_sums) = Segments
  /\ Reducing => \A id \in Int, d \in Dimensions :
       /\ RowsUpTo(id, Reduced) = {} => PartialSums(input, id, d)[Reduced] = 0
       /\ \A s \in 1..Segments :
            segment_order[s] = id => PartialSums(input, id, d)[Reduced] = segment_sums[s][d]

\* The counts are those of the rows so far.
RowsCounted ==
  /\ segment_counts \in Seq(Nat)
  /\ Len(segment_counts) = IF input.is_mean THEN Segments ELSE 0
  /\ Reducing /\ input.is_mean =>
       \A s \in 1..Segments :
         segment_counts[s] = Cardinality(RowsUpTo(segment_order[s], Reduced))

\* The counts and the offsets of the nonzero elements, where they exist.
Offsets ==
  /\ pc \in {"count", "offsets", "fill", "done"} =>
       segment_nz_counts \in [1..Segments -> 0..input.embed_dim]
  /\ pc \in {"fill", "done"} =>
       segment_offsets \in [1..Segments + 1 -> Nat] /\ OffsetsUpTo(Segments + 1)

\* The place of an element in the outputs.
Position(s, d) == segment_offsets[s] + 1 + Cardinality(Below(s, d))

\* What is written is a nonzero element in its place.
Written ==
  pc \in {"fill", "done"} =>
    /\ output \in [1..segment_offsets[Segments + 1] -> {output[p] : p \in DOMAIN output}]
    /\ \A p \in DOMAIN output : output[p] # Unwritten =>
         \E s \in 1..Segments, d \in Dimensions :
           Nonzero(s, d) /\ p = Position(s, d) /\ output[p] = Element(s, d)

\* The invariant of the reduction, and all of it.
Reduces == Base /\ Ready /\ Ordered /\ Summed /\ RowsCounted
RInv == FInv /\ Reduces /\ Offsets /\ Written

\* A call that goes on has integer ids, and numbers to add.
LEMMA InputFacts ==
  ASSUME input \in Inputs, ~Rejected(input)
  PROVE  /\ Len(input.indices) \in Nat /\ DOMAIN input.indices = 1..Len(input.indices)
         /\ input.embed_dim \in Nat
         /\ \A i \in 1..Len(input.indices) :
              /\ SegmentId(input, i) \in Int
              /\ \A d \in Dimensions : DataRow(input, i)[d] \in Int
PROOF
<1>1. input.indices \in Seq(Int)
  BY InputsAssumption
<1> QED
  BY <1>1, InputsAssumption, LenProperties DEF Dimensions

\* A row more is a row more of its segment.
LEMMA RowsUpToStep ==
  ASSUME NEW m \in Nat, NEW id
  PROVE  /\ IsFiniteSet(RowsUpTo(id, m)) /\ Cardinality(RowsUpTo(id, m)) \in Nat
         /\ RowsUpTo(id, 0) = {}
         /\ SegmentId(input, m + 1) = id =>
              /\ RowsUpTo(id, m + 1) # {}
              /\ Cardinality(RowsUpTo(id, m + 1)) = Cardinality(RowsUpTo(id, m)) + 1
         /\ SegmentId(input, m + 1) # id => RowsUpTo(id, m + 1) = RowsUpTo(id, m)
PROOF
<1>1. IsFiniteSet(RowsUpTo(id, m)) /\ Cardinality(RowsUpTo(id, m)) \in Nat
  <2>1. IsFiniteSet(1..m)
    BY FS_Interval
  <2>2. RowsUpTo(id, m) \in SUBSET (1..m)
    BY DEF RowsUpTo
  <2> QED
    BY <2>1, <2>2, FS_Subset, FS_CardinalityType
<1>2. RowsUpTo(id, 0) = {}
  BY DEF RowsUpTo
<1>3. ASSUME SegmentId(input, m + 1) = id
      PROVE  /\ RowsUpTo(id, m + 1) # {}
             /\ Cardinality(RowsUpTo(id, m + 1)) = Cardinality(RowsUpTo(id, m)) + 1
  <2>1. RowsUpTo(id, m + 1) = RowsUpTo(id, m) \cup {m + 1} /\ m + 1 \notin RowsUpTo(id, m)
    BY <1>3 DEF RowsUpTo
  <2> QED
    BY <1>1, <2>1, FS_AddElement
<1>4. ASSUME SegmentId(input, m + 1) # id
      PROVE  RowsUpTo(id, m + 1) = RowsUpTo(id, m)
  BY <1>4 DEF RowsUpTo
<1> QED
  BY <1>1, <1>2, <1>3, <1>4

\* What the reduction of a row finds, and what it adds up to.
LEMMA RowFacts ==
  ASSUME Reduces, ReduceRow
  PROVE  /\ pc = "reduce" /\ pc' = pc /\ input' = input /\ n' = n + 1 /\ n \in Nat \ {0}
         /\ n - 1 \in Nat
         /\ output_shape' = output_shape /\ ~Rejected(input) /\ input \in Inputs
         /\ n \in 1..Len(input.indices) /\ Segments \in Nat /\ Len(input.indices) \in Nat
         /\ SegmentId(input, n) \in Int /\ input.embed_dim \in Nat
         /\ \A d \in Dimensions : DataRow(input, n)[d] \in Int
         /\ Dimensions' = Dimensions
         /\ Reducing /\ Reducing' /\ Reduced = n - 1 /\ Reduced' = n
         /\ \A id, m : RowsUpTo(id, m)' = RowsUpTo(id, m)
         /\ \A id, d : PartialSums(input, id, d)' = PartialSums(input, id, d)
         /\ \A id, d : PartialSums(input, id, d)[n] =
              PartialSums(input, id, d)[n - 1] +
                IF SegmentId(input, n) = id THEN DataRow(input, n)[d] ELSE 0
         /\ \A id : /\ SegmentId(input, n) = id =>
                         /\ RowsUpTo(id, n) # {}
                         /\ Cardinality(RowsUpTo(id, n)) = Cardinality(RowsUpTo(id, n - 1)) + 1
                    /\ SegmentId(input, n) # id => RowsUpTo(id, n) = RowsUpTo(id, n - 1)
PROOF
<1>1. /\ pc = "reduce" /\ pc' = pc /\ input' = input /\ n' = n + 1 /\ n \in Nat \ {0}
      /\ output_shape' = output_shape
      /\ n <= Len(input.indices) /\ ~Rejected(input) /\ input \in Inputs
      /\ segment_order \in Seq(Int)
  BY DEF ReduceRow, Reduces, Base
<1>2. /\ Len(input.indices) \in Nat /\ DOMAIN input.indices = 1..Len(input.indices)
      /\ input.embed_dim \in Nat
      /\ \A i \in 1..Len(input.indices) :
           SegmentId(input, i) \in Int /\ \A d \in Dimensions : DataRow(input, i)[d] \in Int
  BY <1>1, InputFacts
<1>3. n \in 1..Len(input.indices) /\ Segments \in Nat /\ n - 1 \in Nat
  BY <1>1, <1>2, LenProperties DEF Segments
<1>4. Reducing /\ Reducing' /\ Reduced = n - 1 /\ Reduced' = n /\ Dimensions' = Dimensions
  BY <1>1 DEF Reducing, Reduced, Dimensions
<1>5. \A id, m : RowsUpTo(id, m)' = RowsUpTo(id, m)
  BY <1>1, Zenon DEF RowsUpTo
<1>6. \A id, d : PartialSums(input, id, d)' = PartialSums(input, id, d)
  BY <1>1, Zenon
<1>7. \A id, d : PartialSums(input, id, d)[n] =
        PartialSums(input, id, d)[n - 1] +
          IF SegmentId(input, n) = id THEN DataRow(input, n)[d] ELSE 0
  <2> TAKE id, d
  <2>1. \A i \in 1..Len(input.indices) :
          PartialSums(input, id, d)[i] = PartialSums(input, id, d)[i - 1] +
            IF SegmentId(input, i) = id THEN DataRow(input, i)[d] ELSE 0
    BY <1>2, PartialSumsStep
  <2> QED
    BY <1>3, <2>1
<1>8. \A id : /\ SegmentId(input, n) = id =>
                   /\ RowsUpTo(id, n) # {}
                   /\ Cardinality(RowsUpTo(id, n)) = Cardinality(RowsUpTo(id, n - 1)) + 1
              /\ SegmentId(input, n) # id => RowsUpTo(id, n) = RowsUpTo(id, n - 1)
  <2> TAKE id
  <2>1. (n - 1) + 1 = n
    BY <1>1
  <2> QED
    BY <1>3, <2>1, RowsUpToStep
<1> QED
  BY <1>1, <1>2, <1>3, <1>4, <1>5, <1>6, <1>7, <1>8

\* The first row of a segment: its id is new, and comes last when the ids ascend.
LEMMA NewSegmentStep == Reduces /\ ReduceRow /\ NewSegment => (Ordered /\ Summed /\ RowsCounted)'
PROOF
<1> SUFFICES ASSUME Reduces, ReduceRow, NewSegment PROVE (Ordered /\ Summed /\ RowsCounted)'
  OBVIOUS
<1> DEFINE id == SegmentId(input, n)
           sums == [d \in Dimensions |-> DataRow(input, n)[d]]
<1>1. /\ input' = input /\ n \in Nat \ {0} /\ n - 1 \in Nat
      /\ n \in 1..Len(input.indices) /\ Segments \in Nat /\ Len(input.indices) \in Nat
      /\ id \in Int /\ Dimensions' = Dimensions
      /\ Reducing /\ Reduced = n - 1 /\ Reduced' = n
      /\ \A d \in Dimensions : DataRow(input, n)[d] \in Int
      /\ ~Rejected(input) /\ input \in Inputs
  BY RowFacts
<1>2. \A x, m : RowsUpTo(x, m)' = RowsUpTo(x, m)
  BY RowFacts
<1>3. \A x, d : PartialSums(input, x, d)' = PartialSums(input, x, d)
  BY RowFacts
<1>4. \A x, d : PartialSums(input, x, d)[n] =
        PartialSums(input, x, d)[n - 1] + IF id = x THEN DataRow(input, n)[d] ELSE 0
  BY RowFacts
<1>5. \A x : /\ id = x => RowsUpTo(x, n) # {}
                          /\ Cardinality(RowsUpTo(x, n)) = Cardinality(RowsUpTo(x, n - 1)) + 1
             /\ id # x => RowsUpTo(x, n) = RowsUpTo(x, n - 1)
  BY RowFacts
<1>6. /\ \A s \in 1..Segments : segment_order[s] # id
      /\ segment_order' = Append(segment_order, id)
      /\ segment_sums' = Append(segment_sums, sums)
      /\ segment_counts' = IF input.is_mean THEN Append(segment_counts, 1) ELSE segment_counts
  BY DEF NewSegment, SegmentOf
<1>7. /\ segment_order \in Seq(Int) /\ segment_sums \in Seq([Dimensions -> Int])
      /\ segment_counts \in Seq(Nat) /\ Len(segment_sums) = Segments /\ Len(segment_order) = Segments
      /\ Len(segment_counts) = IF input.is_mean THEN Segments ELSE 0
  BY DEF Reduces, Base, Summed, RowsCounted, Segments
<1>8. sums \in [Dimensions -> Int]
  BY <1>1
<1> HIDE DEF sums, id
<1>9. /\ Segments' = Segments + 1
      /\ \A s \in 1..Segments : segment_order'[s] = segment_order[s]
      /\ segment_order'[Segments + 1] = id
  BY <1>1, <1>6, <1>7, AppendProperties DEF Segments
<1>10. /\ segment_sums' \in Seq([Dimensions -> Int]) /\ Len(segment_sums') = Segments + 1
       /\ \A s \in 1..Segments : segment_sums'[s] = segment_sums[s]
       /\ segment_sums'[Segments + 1] = sums
  BY <1>1, <1>6, <1>7, <1>8, AppendProperties
<1>11. \A s \in 1..Segments + 1 : s \in 1..Segments \/ s = Segments + 1
  BY <1>1
<1>12. RowsUpTo(id, n - 1) = {}
  <2>1. \A i \in 1..n - 1 : SegmentId(input, i) # id
    BY <1>1, <1>6 DEF Reduces, Ordered
  <2> QED
    BY <2>1 DEF RowsUpTo
<1>13. Ordered'
  <2>1. \A s, t \in 1..Segments' : segment_order'[s] = segment_order'[t] => s = t
    BY <1>6, <1>9, <1>11 DEF Reduces, Ordered
  <2>2. \A s \in 1..Segments' : RowsUpTo(segment_order'[s], n) # {}
    <3>1. \A s \in 1..Segments : RowsUpTo(segment_order[s], n - 1) # {}
      BY <1>1 DEF Reduces, Ordered
    <3> QED
      BY <1>5, <1>9, <1>11, <3>1
  <2>3. \A i \in 1..n : \E s \in 1..Segments' : segment_order'[s] = SegmentId(input, i)
    <3> TAKE i \in 1..n
    <3>1. CASE i = n
      BY <1>1, <1>9, <3>1 DEF id
    <3>2. CASE i # n
      <4>1. i \in 1..n - 1
        BY <1>1, <3>2
      <4>2. PICK s \in 1..Segments : segment_order[s] = SegmentId(input, i)
        BY <1>1, <4>1 DEF Reduces, Ordered
      <4> QED
        BY <1>1, <1>9, <4>2
    <3> QED
      BY <3>1, <3>2
  <2>4. ASSUME Ascending, NEW s \in 1..Segments', NEW t \in 1..Segments', s < t
        PROVE  segment_order'[s] < segment_order'[t]
    <3>1. s \in 1..Segments
      BY <1>1, <1>9, <2>4
    <3>2. CASE t \in 1..Segments
      BY <1>1, <1>9, <2>4, <3>1, <3>2 DEF Reduces, Ordered
    <3>3. CASE t = Segments + 1
      <4>1. PICK i \in 1..n - 1 : SegmentId(input, i) = segment_order[s]
        <5>1. RowsUpTo(segment_order[s], n - 1) # {}
          BY <1>1, <3>1 DEF Reduces, Ordered
        <5> QED
          BY <5>1 DEF RowsUpTo
      <4>2. DOMAIN input.indices = 1..Len(input.indices)
            /\ \A j \in 1..Len(input.indices) : SegmentId(input, j) \in Int
        BY <1>1, InputFacts
      <4>3. i \in DOMAIN input.indices /\ n \in DOMAIN input.indices /\ i < n
        BY <1>1, <4>2
      <4>4. segment_order[s] <= id
        BY <2>4, <4>1, <4>3 DEF Ascending, id
      <4>5. segment_order[s] # id /\ segment_order[s] \in Int
        BY <1>6, <3>1, <4>1, <4>2, <4>3
      <4> QED
        BY <1>1, <1>9, <3>1, <3>3, <4>4, <4>5
    <3> QED
      BY <1>9, <1>11, <3>2, <3>3
  <2>5. Ascending' <=> Ascending
    BY <1>1 DEF Ascending
  <2> QED
    BY <1>1, <1>2, <2>1, <2>2, <2>3, <2>4, <2>5 DEF Ordered
<1>14. ASSUME NEW x \in Int, NEW d \in Dimensions
       PROVE  /\ RowsUpTo(x, n) = {} => PartialSums(input, x, d)[n] = 0
              /\ \A s \in 1..Segments' :
                   segment_order'[s] = x => PartialSums(input, x, d)[n] = segment_sums'[s][d]
  <2>1. /\ RowsUpTo(x, n - 1) = {} => PartialSums(input, x, d)[n - 1] = 0
        /\ \A s \in 1..Segments :
             segment_order[s] = x => PartialSums(input, x, d)[n - 1] = segment_sums[s][d]
    BY <1>1 DEF Reduces, Summed
  <2>2. CASE x = id
    <3>1. PartialSums(input, x, d)[n] = DataRow(input, n)[d] /\ sums[d] = DataRow(input, n)[d]
      BY <1>1, <1>4, <1>12, <2>1, <2>2 DEF sums
    <3>2. \A s \in 1..Segments' : segment_order'[s] = x => s = Segments + 1
      BY <1>6, <1>9, <1>11, <2>2
    <3> QED
      BY <1>5, <1>10, <2>2, <3>1, <3>2
  <2>3. CASE x # id
    <3>1. \A s \in 1..Segments' : segment_order'[s] = x => s \in 1..Segments
      BY <1>9, <1>11, <2>3
    <3>2. \A s \in 1..Segments : segment_sums[s][d] \in Int
      <4>1. \A s \in 1..Segments : segment_sums[s] \in [Dimensions -> Int]
        BY <1>7, ElementOfSeq
      <4> QED
        BY <4>1
    <3>3. PartialSums(input, x, d)[n] = PartialSums(input, x, d)[n - 1] + 0
      BY <1>4, <2>3
    <3>4. RowsUpTo(x, n) = RowsUpTo(x, n - 1)
      BY <1>5, <2>3
    <3>5. RowsUpTo(x, n) = {} => PartialSums(input, x, d)[n] = 0
      BY <2>1, <3>3, <3>4
    <3>6. ASSUME NEW s \in 1..Segments', segment_order'[s] = x
          PROVE  PartialSums(input, x, d)[n] = segment_sums'[s][d]
      <4>1. s \in 1..Segments /\ segment_order[s] = x
        BY <1>9, <3>1, <3>6
      <4>2. PartialSums(input, x, d)[n - 1] = segment_sums[s][d] /\ segment_sums[s][d] \in Int
        BY <2>1, <3>2, <4>1
      <4> QED
        BY <1>10, <3>3, <4>1, <4>2
    <3> QED
      BY <3>5, <3>6
  <2> QED
    BY <2>2, <2>3
<1>15. Summed'
  BY <1>1, <1>2, <1>3, <1>9, <1>10, <1>14 DEF Summed
<1>16. RowsCounted'
  <2>1. segment_counts' \in Seq(Nat)
        /\ Len(segment_counts') = IF input.is_mean THEN Segments + 1 ELSE 0
    BY <1>6, <1>7, AppendProperties
  <2>2. ASSUME input.is_mean, NEW s \in 1..Segments'
        PROVE  segment_counts'[s] = Cardinality(RowsUpTo(segment_order'[s], n))
    <3>1. CASE s \in 1..Segments
      <4>1. segment_counts[s] = Cardinality(RowsUpTo(segment_order[s], n - 1))
        BY <1>1, <2>2, <3>1 DEF Reduces, RowsCounted
      <4>2. segment_counts'[s] = segment_counts[s]
        BY <1>6, <1>7, <2>2, <3>1, AppendProperties
      <4> QED
        BY <1>5, <1>6, <1>9, <3>1, <4>1, <4>2
    <3>2. CASE s = Segments + 1
      <4>1. segment_counts'[s] = 1
        BY <1>1, <1>6, <1>7, <2>2, <3>2, AppendProperties
      <4>2. Cardinality(RowsUpTo(id, n)) = 1
        BY <1>5, <1>12, FS_EmptySet
      <4> QED
        BY <1>9, <3>2, <4>1, <4>2
    <3> QED
      BY <1>9, <1>11, <3>1, <3>2
  <2> QED
    BY <1>1, <1>2, <1>9, <2>1, <2>2 DEF RowsCounted
<1> QED
  BY <1>13, <1>15, <1>16

\* A row more of a segment that is there.
LEMMA OldSegmentStep == Reduces /\ ReduceRow /\ OldSegment => (Ordered /\ Summed /\ RowsCounted)'
PROOF
<1> SUFFICES ASSUME Reduces, ReduceRow, OldSegment PROVE (Ordered /\ Summed /\ RowsCounted)'
  OBVIOUS
<1> DEFINE id == SegmentId(input, n)
<1>1. /\ input' = input /\ n \in Nat \ {0} /\ n - 1 \in Nat
      /\ Segments \in Nat
      /\ id \in Int /\ Dimensions' = Dimensions
      /\ Reducing /\ Reduced = n - 1 /\ Reduced' = n
      /\ \A d \in Dimensions : DataRow(input, n)[d] \in Int
  BY RowFacts
<1>2. \A x, m : RowsUpTo(x, m)' = RowsUpTo(x, m)
  BY RowFacts
<1>3. \A x, d : PartialSums(input, x, d)' = PartialSums(input, x, d)
  BY RowFacts
<1>4. \A x, d : PartialSums(input, x, d)[n] =
        PartialSums(input, x, d)[n - 1] + IF id = x THEN DataRow(input, n)[d] ELSE 0
  BY RowFacts
<1>5. \A x : /\ id = x => RowsUpTo(x, n) # {}
                          /\ Cardinality(RowsUpTo(x, n)) = Cardinality(RowsUpTo(x, n - 1)) + 1
             /\ id # x => RowsUpTo(x, n) = RowsUpTo(x, n - 1)
  BY RowFacts
<1>6. PICK r \in 1..Segments :
        /\ segment_order[r] = id
        /\ segment_sums' = [segment_sums EXCEPT ![r] =
                              [d \in Dimensions |-> @[d] + DataRow(input, n)[d]]]
        /\ segment_counts' = IF input.is_mean THEN [segment_counts EXCEPT ![r] = @ + 1]
                             ELSE segment_counts
        /\ segment_order' = segment_order
  BY DEF OldSegment, SegmentOf
<1>7. /\ segment_order \in Seq(Int) /\ segment_sums \in Seq([Dimensions -> Int])
      /\ segment_counts \in Seq(Nat) /\ Len(segment_sums) = Segments /\ Len(segment_order) = Segments
      /\ Len(segment_counts) = IF input.is_mean THEN Segments ELSE 0
  BY DEF Reduces, Base, Summed, RowsCounted, Segments
<1>8. \A s \in 1..Segments : segment_sums[s] \in [Dimensions -> Int]
  BY <1>7, ElementOfSeq
<1> DEFINE sums == [d \in Dimensions |-> segment_sums[r][d] + DataRow(input, n)[d]]
<1>9. sums \in [Dimensions -> Int]
  BY <1>1, <1>8
<1>10. segment_sums' = [segment_sums EXCEPT ![r] = sums]
  BY <1>6
<1> HIDE DEF id
<1>11. /\ segment_sums' \in Seq([Dimensions -> Int]) /\ Len(segment_sums') = Segments
       /\ \A s \in 1..Segments : segment_sums'[s] = IF s = r THEN sums ELSE segment_sums[s]
  <2> HIDE DEF sums
  <2> QED
    BY <1>7, <1>9, <1>10, ExceptSeq
<1>12. Segments' = Segments
  BY <1>6 DEF Segments
<1>13. \A s \in 1..Segments : segment_order[s] = id => s = r
  BY <1>6 DEF Reduces, Ordered
<1>14. Ordered'
  <2>1. \A s, t \in 1..Segments' : segment_order'[s] = segment_order'[t] => s = t
    BY <1>6, <1>12 DEF Reduces, Ordered
  <2>2. \A s \in 1..Segments' : RowsUpTo(segment_order'[s], n) # {}
    BY <1>1, <1>5, <1>6, <1>12 DEF Reduces, Ordered
  <2>3. \A i \in 1..n : \E s \in 1..Segments' : segment_order'[s] = SegmentId(input, i)
    <3> TAKE i \in 1..n
    <3>1. CASE i = n
      BY <1>6, <1>12, <3>1 DEF id
    <3>2. CASE i # n
      <4>1. i \in 1..n - 1
        BY <1>1, <3>2
      <4> QED
        BY <1>1, <1>6, <1>12, <4>1 DEF Reduces, Ordered
    <3> QED
      BY <3>1, <3>2
  <2>4. Ascending' <=> Ascending
    BY <1>1 DEF Ascending
  <2>5. Ascending => \A s, t \in 1..Segments' : s < t => segment_order'[s] < segment_order'[t]
    BY <1>1, <1>6, <1>12 DEF Reduces, Ordered
  <2> QED
    BY <1>1, <1>2, <2>1, <2>2, <2>3, <2>4, <2>5 DEF Ordered
<1>15. ASSUME NEW x \in Int, NEW d \in Dimensions
       PROVE  /\ RowsUpTo(x, n) = {} => PartialSums(input, x, d)[n] = 0
              /\ \A s \in 1..Segments' :
                   segment_order'[s] = x => PartialSums(input, x, d)[n] = segment_sums'[s][d]
  <2>1. /\ RowsUpTo(x, n - 1) = {} => PartialSums(input, x, d)[n - 1] = 0
        /\ \A s \in 1..Segments :
             segment_order[s] = x => PartialSums(input, x, d)[n - 1] = segment_sums[s][d]
    BY <1>1 DEF Reduces, Summed
  <2>2. CASE x = id
    <3>1. PartialSums(input, x, d)[n] = segment_sums[r][d] + DataRow(input, n)[d]
      BY <1>4, <1>6, <2>1, <2>2
    <3>2. sums[d] = segment_sums[r][d] + DataRow(input, n)[d]
      OBVIOUS
    <3> HIDE DEF sums
    <3> QED
      BY <1>5, <1>6, <1>11, <1>12, <1>13, <2>2, <3>1, <3>2
  <2>3. CASE x # id
    <3>1. RowsUpTo(x, n) = RowsUpTo(x, n - 1)
      BY <1>5, <2>3
    <3>2. PartialSums(input, x, d)[n] = PartialSums(input, x, d)[n - 1] + 0
      BY <1>4, <2>3
    <3>3. RowsUpTo(x, n) = {} => PartialSums(input, x, d)[n] = 0
      BY <2>1, <3>1, <3>2
    <3>4. ASSUME NEW s \in 1..Segments', segment_order'[s] = x
          PROVE  PartialSums(input, x, d)[n] = segment_sums'[s][d]
      <4>1. s \in 1..Segments /\ segment_order[s] = x /\ s # r
        BY <1>6, <1>12, <2>3, <3>4
      <4>2. PartialSums(input, x, d)[n - 1] = segment_sums[s][d] /\ segment_sums[s][d] \in Int
        BY <1>8, <2>1, <4>1
      <4> HIDE DEF sums
      <4> QED
        BY <1>11, <3>2, <4>1, <4>2
    <3> QED
      BY <3>3, <3>4
  <2> QED
    BY <2>2, <2>3
<1>16. Summed'
  BY <1>1, <1>2, <1>3, <1>11, <1>12, <1>15 DEF Summed
<1>17. RowsCounted'
  <2>1. CASE input.is_mean
    <3>1. r \in 1..Len(segment_counts) /\ segment_counts[r] \in Nat
      BY <1>7, <2>1, ElementOfSeq
    <3>2. segment_counts' \in Seq(Nat) /\ Len(segment_counts') = Segments
          /\ \A s \in 1..Segments :
               segment_counts'[s] = IF s = r THEN segment_counts[r] + 1 ELSE segment_counts[s]
      BY <1>6, <1>7, <2>1, <3>1, ExceptSeq
    <3>3. \A s \in 1..Segments : segment_counts[s] = Cardinality(RowsUpTo(segment_order[s], n - 1))
      BY <1>1, <2>1 DEF Reduces, RowsCounted
    <3>4. \A s \in 1..Segments : segment_counts'[s] = Cardinality(RowsUpTo(segment_order[s], n))
      <4> TAKE s \in 1..Segments
      <4>1. CASE s = r
        BY <1>5, <1>6, <3>2, <3>3, <4>1
      <4>2. CASE s # r
        BY <1>5, <1>13, <3>2, <3>3, <4>2
      <4> QED
        BY <4>1, <4>2
    <3> QED
      BY <1>1, <1>2, <1>6, <1>12, <2>1, <3>2, <3>4 DEF RowsCounted
  <2>2. CASE ~input.is_mean
    BY <1>1, <1>6, <1>7, <1>12, <2>2 DEF RowsCounted
  <2> QED
    BY <2>1, <2>2
<1> QED
  BY <1>14, <1>16, <1>17

\* Reducing a row keeps the invariant of the reduction.
LEMMA ReduceRowStep == Reduces /\ ReduceRow => (Ready /\ Ordered /\ Summed /\ RowsCounted)'
PROOF
<1> SUFFICES ASSUME Reduces, ReduceRow PROVE (Ready /\ Ordered /\ Summed /\ RowsCounted)'
  OBVIOUS
<1>1. (Ordered /\ Summed /\ RowsCounted)'
  BY NewSegmentStep, OldSegmentStep DEF ReduceRow
<1>2. Ready'
  <2>1. /\ pc = "reduce" /\ pc' = pc /\ input' = input /\ n' = n + 1 /\ n \in 1..Len(input.indices)
        /\ Reducing /\ Reducing' /\ output_shape' = output_shape /\ Len(input.indices) \in Nat
    BY RowFacts
  <2> QED
    BY <2>1 DEF Ready, Reduces, Rejected, BatchSize
<1> QED
  BY <1>1, <1>2

\* A call begins with no segment.
LEMMA StartReduces == Reduces /\ Start => (Ready /\ Ordered /\ Summed /\ RowsCounted)'
PROOF
<1> SUFFICES ASSUME Reduces, Start PROVE (Ready /\ Ordered /\ Summed /\ RowsCounted)'
  OBVIOUS
<1>1. /\ pc = "start" /\ input' = input /\ n' = n /\ input \in Inputs /\ n = 1
      /\ segment_order' = segment_order /\ segment_sums' = segment_sums
      /\ segment_counts' = segment_counts
      /\ segment_order = <<>> /\ segment_sums = <<>> /\ segment_counts = <<>>
  BY DEF Start, Reduces, Base, Ready, Reducing
<1>2. \/ Rejected(input) /\ pc' = "failed" /\ ~Reducing'
      \/ ~Rejected(input) /\ pc' = "reduce" /\ Reducing' /\ Reduced' = 0
         /\ output_shape'[1] = BatchSize(input)
  BY <1>1 DEF Start, Reducing, Reduced
<1>3. Segments = 0 /\ Segments' = 0 /\ Dimensions' = Dimensions
  BY <1>1, EmptySeq DEF Segments, Dimensions
<1>4. ~Rejected(input) => Len(input.indices) \in Nat
  BY <1>1, InputFacts
<1>5. Ready'
  <2>1. CASE Rejected(input)
    BY <1>1, <1>2, <2>1 DEF Ready
  <2>2. CASE ~Rejected(input)
    <3>1. Rejected(input)' = FALSE /\ BatchSize(input)' = BatchSize(input)
      BY <1>1, <2>2 DEF Rejected, BatchSize, SegmentId
    <3> QED
      BY <1>1, <1>2, <1>4, <2>2, <3>1 DEF Ready
  <2> QED
    BY <2>1, <2>2
<1>6. Ordered'
  BY <1>2, <1>3 DEF Ordered
<1>7. ASSUME ~Rejected(input), NEW x \in Int, NEW d \in Dimensions
      PROVE  PartialSums(input, x, d)[0] = 0
  BY <1>1, <1>7, InputFacts, PartialSumsStep
<1>8. Summed'
  <2>1. segment_sums' \in Seq([Dimensions -> Int]) /\ Len(segment_sums') = 0
    BY <1>1, EmptySeq
  <2>2. \A x, d : PartialSums(input, x, d)' = PartialSums(input, x, d)
    BY <1>1, Zenon
  <2>3. \A s \in 1..Segments' : FALSE
    BY <1>3
  <2> QED
    BY <1>2, <1>3, <1>7, <2>1, <2>2, <2>3 DEF Summed
<1>9. RowsCounted'
  <2>1. segment_counts' \in Seq(Nat) /\ Len(segment_counts') = 0
    BY <1>1, EmptySeq
  <2> QED
    BY <1>1, <1>3, <2>1 DEF RowsCounted
<1> QED
  BY <1>5, <1>6, <1>8, <1>9

\* What follows the reduction leaves it as it is.
LEMMA ReductionKept ==
  ASSUME Reduces, UNCHANGED <<input, reduced>>, Reducing' = Reducing,
         Reducing => Reduced' = Reduced, pc' = "start" => n' = 1,
         pc' = "reduce" => pc = "reduce" /\ n' = n
  PROVE  (Ready /\ Ordered /\ Summed /\ RowsCounted)'
PROOF
<1>1. /\ input' = input /\ segment_order' = segment_order /\ segment_sums' = segment_sums
      /\ segment_counts' = segment_counts /\ output_shape' = output_shape
  BY DEF reduced
<1>2. Segments' = Segments /\ Dimensions' = Dimensions
  BY <1>1 DEF Segments, Dimensions
<1>3. \A x, m : RowsUpTo(x, m)' = RowsUpTo(x, m)
  BY <1>1, Zenon DEF RowsUpTo
<1>4. \A x, d : PartialSums(input, x, d)' = PartialSums(input, x, d)
  BY <1>1, Zenon
<1>5. Ascending' <=> Ascending
  BY <1>1 DEF Ascending
<1>6. Rejected(input)' <=> Rejected(input)
  BY <1>1, Zenon
<1>7. BatchSize(input)' = BatchSize(input)
  BY <1>1, Zenon
<1>8. Ready'
  BY <1>1, <1>6, <1>7 DEF Reduces, Ready
<1>9. Ordered'
  BY <1>1, <1>2, <1>3, <1>5 DEF Reduces, Ordered
<1>10. Summed'
  BY <1>1, <1>2, <1>3, <1>4 DEF Reduces, Summed
<1>11. RowsCounted'
  BY <1>1, <1>2, <1>3 DEF Reduces, RowsCounted
<1> QED
  BY <1>8, <1>9, <1>10, <1>11

\* A segment has at most as many nonzero elements as there are dimensions.
LEMMA CountBounded ==
  ASSUME input.embed_dim \in Nat, NEW s
  PROVE  NonzeroCount(s) \in 0..input.embed_dim
PROOF
<1>1. IsFiniteSet(Dimensions) /\ Cardinality(Dimensions) = input.embed_dim
  BY FS_Interval DEF Dimensions
<1>2. NonzeroDimensions(s) \in SUBSET Dimensions
  BY DEF NonzeroDimensions
<1>3. Cardinality(NonzeroDimensions(s)) \in Nat
      /\ Cardinality(NonzeroDimensions(s)) <= Cardinality(Dimensions)
  BY <1>1, <1>2, FS_Subset, FS_CardinalityType
<1> QED
  BY <1>1, <1>3 DEF NonzeroCount

\* Counts and offsets that a step leaves alone.
LEMMA OffsetsKept ==
  ASSUME RInv, UNCHANGED <<input, reduced, segment_nz_counts>>,
         pc' \in {"count", "offsets", "fill", "done"} => pc \in {"count", "offsets", "fill", "done"},
         pc' \in {"fill", "done"} => pc \in {"fill", "done"} /\ UNCHANGED segment_offsets
  PROVE  Offsets'
PROOF
<1>1. input' = input /\ Segments' = Segments /\ \A s : NonzeroCount(s)' = NonzeroCount(s)
  BY SameCounts
<1>2. pc' \in {"count", "offsets", "fill", "done"} =>
        segment_nz_counts' \in [1..Segments' -> 0..input'.embed_dim]
  BY <1>1 DEF RInv, Offsets
<1>3. pc' \in {"fill", "done"} =>
        segment_offsets' \in [1..Segments' + 1 -> Nat] /\ OffsetsUpTo(Segments + 1)'
  BY <1>1 DEF RInv, Offsets, OffsetsUpTo
<1> QED
  BY <1>1, <1>2, <1>3 DEF Offsets, OffsetsUpTo

\* Outputs that a step leaves alone.
LEMMA WrittenKept ==
  ASSUME RInv, UNCHANGED <<input, reduced>>,
         pc' \in {"fill", "done"} => pc \in {"fill", "done"} /\ UNCHANGED <<segment_offsets, output>>
  PROVE  Written'
PROOF
<1>1. Segments' = Segments /\ Dimensions' = Dimensions
      /\ (\A s, d : Nonzero(s, d)' = Nonzero(s, d)) /\ \A s, d : Below(s, d)' = Below(s, d)
  BY SameCounts
<1>2. \A s, d : Element(s, d)' = Element(s, d)
  BY Zenon DEF reduced, Element
<1>3. pc' \in {"fill", "done"} => \A s, d : Position(s, d)' = Position(s, d)
  BY <1>1, Zenon DEF Position
<1> QED
  BY <1>1, <1>2, <1>3 DEF RInv, Written

\* Before anything is filled there are no offsets to speak of.
LEMMA BeforeCount ==
  ASSUME pc' \notin {"count", "offsets", "fill", "done"}
  PROVE  Offsets' /\ Written'
PROOF
  BY DEF Offsets, Written

\* The steps between the reduction and the filling.
LEMMA CountingSteps ==
  ASSUME RInv, BeginCount \/ EndCount \/ AddOffset \/ \E w \in shards : CountSegment(w)
  PROVE  Offsets' /\ Written'
PROOF
<1>1. Segments \in Nat /\ input.embed_dim \in Nat
  BY SegmentsNat DEF RInv, Reduces
<1>2. pc' \in {"count", "offsets"} /\ UNCHANGED <<input, reduced>>
  BY DEF BeginCount, EndCount, AddOffset, CountSegment, RInv, FInv, Base
<1>3. Written'
  BY <1>2 DEF Written
<1>4. Segments' = Segments
  BY <1>2, SameCounts
<1>5. segment_nz_counts' \in [1..Segments -> 0..input.embed_dim]
  <2>1. CASE BeginCount
    BY <1>1, <2>1 DEF BeginCount
  <2>2. CASE EndCount \/ AddOffset
    BY <2>2 DEF EndCount, AddOffset, RInv, Offsets
  <2>3. ASSUME NEW w \in shards, CountSegment(w)
        PROVE  segment_nz_counts' \in [1..Segments -> 0..input.embed_dim]
    <3>1. segment_nz_counts \in [1..Segments -> 0..input.embed_dim]
      BY <2>3 DEF CountSegment, RInv, Offsets
    <3>2. NonzeroCount(w.s) \in 0..input.embed_dim
      BY <1>1, CountBounded
    <3> QED
      BY <2>3, <3>1, <3>2 DEF CountSegment
  <2> QED
    BY <2>1, <2>2, <2>3
<1> QED
  BY <1>2, <1>3, <1>4, <1>5 DEF Offsets

\* The outputs are allocated, and none is written.
LEMMA AllocatedStep == RInv /\ BeginFill => Offsets' /\ Written'
PROOF
<1> SUFFICES ASSUME RInv, BeginFill PROVE Offsets' /\ Written'
  OBVIOUS
<1>1. /\ pc = "offsets" /\ pc' = "fill" /\ UNCHANGED <<input, reduced>>
      /\ segment_offsets' = segment_offsets /\ segment_nz_counts' = segment_nz_counts
      /\ n > Segments /\ output' = [i \in 1..segment_offsets[n] |-> Unwritten]
      /\ Segments \in Nat /\ n \in Nat
  BY SegmentsNat DEF BeginFill, RInv, Reduces, Base
<1>2. /\ n = Segments + 1 /\ OffsetsUpTo(Segments + 1)
      /\ segment_offsets \in Seq(Nat) /\ Len(segment_offsets) = n
  BY <1>1 DEF RInv, FInv, OffsetsSum
<1>3. segment_offsets \in [1..Segments + 1 -> Nat]
  BY <1>2, LenProperties
<1>4. Segments' = Segments /\ input' = input /\ \A s : NonzeroCount(s)' = NonzeroCount(s)
  BY <1>1, SameCounts
<1>5. Offsets'
  <2>1. segment_nz_counts' \in [1..Segments' -> 0..input'.embed_dim]
    BY <1>1, <1>4 DEF RInv, Offsets
  <2>2. OffsetsUpTo(Segments + 1)'
    BY <1>1, <1>2, <1>4 DEF OffsetsUpTo
  <2> QED
    BY <1>1, <1>3, <1>4, <2>1, <2>2 DEF Offsets, OffsetsUpTo
<1>6. Written'
  BY <1>1, <1>2, <1>4 DEF Written
<1> QED
  BY <1>5, <1>6

\* A thread writes a nonzero element in its place.
LEMMA FillWritten == \A w \in shards : RInv /\ FillElement(w) => Offsets' /\ Written'
PROOF
<1> SUFFICES ASSUME NEW w \in shards, RInv, FillElement(w) PROVE Offsets' /\ Written'
  OBVIOUS
<1>1. /\ pc = "fill" /\ pc' = pc /\ UNCHANGED <<input, reduced>>
      /\ segment_offsets' = segment_offsets /\ segment_nz_counts' = segment_nz_counts
      /\ w.d \in Dimensions
      /\ output' = IF Nonzero(w.s, w.d) THEN [output EXCEPT ![w.out_idx] = Element(w.s, w.d)]
                   ELSE output
  BY DEF FillElement
<1>2. Offsets'
  BY <1>1, OffsetsKept
<1>3. Segments' = Segments /\ Dimensions' = Dimensions
      /\ (\A s, d : Nonzero(s, d)' = Nonzero(s, d)) /\ \A s, d : Below(s, d)' = Below(s, d)
  BY <1>1, SameCounts
<1>4. \A s, d : Element(s, d)' = Element(s, d)
  BY <1>1, Zenon DEF reduced, Element
<1>5. \A s, d : Position(s, d)' = Position(s, d)
  BY <1>1, <1>3, Zenon DEF Position
<1>6. w.s \in 1..Segments /\ w.out_idx = Position(w.s, w.d)
  <2>1. w \in Shards /\ w.out_idx = segment_offsets[w.s] + 1 + Cardinality(Below(w.s, w.d))
    BY <1>1, FillFacts DEF RInv
  <2> QED
    BY <2>1 DEF Shards, Position
<1>7. /\ output \in [1..segment_offsets[Segments + 1] -> {output[p] : p \in DOMAIN output}]
      /\ \A p \in DOMAIN output : output[p] # Unwritten =>
           \E s \in 1..Segments, d \in Dimensions :
             Nonzero(s, d) /\ p = Position(s, d) /\ output[p] = Element(s, d)
  BY <1>1 DEF RInv, Written
<1>8. /\ output' \in [1..segment_offsets[Segments + 1] -> {output'[p] : p \in DOMAIN output'}]
      /\ DOMAIN output' = DOMAIN output
      /\ \A p \in DOMAIN output :
           output'[p] = IF p = w.out_idx /\ Nonzero(w.s, w.d) THEN Element(w.s, w.d) ELSE output[p]
  BY <1>1, <1>7
<1>9. \A p \in DOMAIN output : output'[p] # Unwritten =>
        \E s \in 1..Segments, d \in Dimensions :
          Nonzero(s, d) /\ p = Position(s, d) /\ output'[p] = Element(s, d)
  <2> TAKE p \in DOMAIN output
  <2>1. CASE p = w.out_idx /\ Nonzero(w.s, w.d)
    BY <1>1, <1>6, <1>8, <2>1
  <2>2. CASE ~(p = w.out_idx /\ Nonzero(w.s, w.d))
    BY <1>7, <1>8, <2>2
  <2> QED
    BY <2>1, <2>2
<1>10. Written'
  BY <1>1, <1>3, <1>4, <1>5, <1>8, <1>9 DEF Written
<1> QED
  BY <1>2, <1>10

\* The steps that write nothing.
LEMMA MovingSteps ==
  ASSUME RInv, EndFill \/ UNCHANGED vars \/ \E w \in shards : NextSegment(w)
  PROVE  Offsets' /\ Written'
PROOF
<1>1. /\ UNCHANGED <<input, reduced, segment_nz_counts, segment_offsets, output>>
      /\ pc' = pc \/ (pc = "fill" /\ pc' = "done")
  BY DEF EndFill, vars, NextSegment, reduced
<1> QED
  BY <1>1, OffsetsKept, WrittenKept

\* The invariant holds when Compute is called.
LEMMA InitRInv == Init => RInv
PROOF
<1> SUFFICES ASSUME Init PROVE RInv
  OBVIOUS
<1>1. FInv /\ Base
  BY InitFInv DEF FInv
<1>2. Segments = 0
  BY EmptySeq DEF Init, Segments
<1>3. Summed /\ RowsCounted
  <2>1. segment_sums \in Seq([Dimensions -> Int]) /\ Len(segment_sums) = 0
    BY EmptySeq DEF Init
  <2>2. segment_counts \in Seq(Nat) /\ Len(segment_counts) = 0
    BY EmptySeq DEF Init
  <2> QED
    BY <1>2, <2>1, <2>2 DEF Init, Summed, RowsCounted, Reducing
<1>4. Ready /\ Ordered /\ Offsets /\ Written
  BY <1>2 DEF Init, Ready, Ordered, Offsets, Written, Reducing
<1> QED
  BY <1>1, <1>3, <1>4 DEF RInv, Reduces

\* Every step keeps it.
LEMMA NextRInv == RInv /\ [Next]_vars => RInv'
PROOF
<1> SUFFICES ASSUME RInv, [Next]_vars PROVE RInv'
  OBVIOUS
<1>1. FInv' /\ Base'
  BY NextFInv DEF RInv, FInv
<1>2. Reduces
  BY DEF RInv
<1> DEFINE Kept == (Ready /\ Ordered /\ Summed /\ RowsCounted)' /\ Offsets' /\ Written'
<1> SUFFICES Kept
  BY <1>1 DEF RInv, Reduces
<1>3. CASE Start
  <2>1. pc' \notin {"count", "offsets", "fill", "done"}
    BY <1>3 DEF Start
  <2> QED
    BY <1>2, <1>3, <2>1, StartReduces, BeforeCount
<1>4. CASE ReduceRow
  <2>1. pc' \notin {"count", "offsets", "fill", "done"}
    BY <1>4 DEF ReduceRow
  <2> QED
    BY <1>2, <1>4, <2>1, ReduceRowStep, BeforeCount
<1>5. CASE BeginCount
  <2>1. /\ UNCHANGED <<input, reduced>> /\ pc = "reduce" /\ pc' = "count" /\ n' = n
        /\ n > Len(input.indices) /\ n \in Nat
    BY <1>2, <1>5 DEF BeginCount, Reduces, Base
  <2>2. Len(input.indices) \in Nat /\ n <= Len(input.indices) + 1
    BY <1>2, <2>1, InputFacts DEF Reduces, Base, Ready, Reducing
  <2>3. Reduced' = Reduced /\ Reducing' = Reducing
    BY <2>1, <2>2 DEF Reduced, Reducing
  <2>4. (Ready /\ Ordered /\ Summed /\ RowsCounted)'
    BY <1>2, <2>1, <2>3, ReductionKept
  <2> QED
    BY <1>5, <2>4, CountingSteps
<1>6. CASE EndCount \/ AddOffset \/ \E w \in shards : CountSegment(w)
  <2>1. /\ UNCHANGED <<input, reduced>> /\ pc \in {"count", "offsets"} /\ pc' \in {"count", "offsets"}
    BY <1>6 DEF EndCount, AddOffset, CountSegment
  <2>2. Reduced' = Reduced /\ Reducing' = Reducing
    BY <2>1 DEF Reduced, Reducing
  <2>3. (Ready /\ Ordered /\ Summed /\ RowsCounted)'
    BY <1>2, <2>1, <2>2, ReductionKept
  <2> QED
    BY <1>6, <2>3, CountingSteps
<1>7. CASE BeginFill
  <2>1. /\ UNCHANGED <<input, reduced>> /\ pc = "offsets" /\ pc' = "fill"
    BY <1>7 DEF BeginFill
  <2>2. Reduced' = Reduced /\ Reducing' = Reducing
    BY <2>1 DEF Reduced, Reducing
  <2>3. (Ready /\ Ordered /\ Summed /\ RowsCounted)'
    BY <1>2, <2>1, <2>2, ReductionKept
  <2> QED
    BY <1>7, <2>3, AllocatedStep
<1>8. ASSUME NEW w \in shards, FillElement(w)
      PROVE  Kept
  <2>1. /\ UNCHANGED <<input, reduced>> /\ pc = "fill" /\ pc' = "fill"
    BY <1>8 DEF FillElement
  <2>2. Reduced' = Reduced /\ Reducing' = Reducing
    BY <2>1 DEF Reduced, Reducing
  <2>3. (Ready /\ Ordered /\ Summed /\ RowsCounted)'
    BY <1>2, <2>1, <2>2, ReductionKept
  <2> QED
    BY <1>8, <2>3, FillWritten
<1>9. CASE EndFill \/ \E w \in shards : NextSegment(w)
  <2>1. /\ UNCHANGED <<input, reduced>> /\ pc = "fill" /\ pc' \in {"fill", "done"}
    BY <1>9 DEF EndFill, NextSegment
  <2>2. Reduced' = Reduced /\ Reducing' = Reducing
    BY <2>1 DEF Reduced, Reducing
  <2>3. (Ready /\ Ordered /\ Summed /\ RowsCounted)'
    BY <1>2, <2>1, <2>2, ReductionKept
  <2> QED
    BY <1>9, <2>3, MovingSteps
<1>10. CASE UNCHANGED vars
  <2>1. UNCHANGED <<input, reduced, pc, n>>
    BY <1>10 DEF vars, reduced
  <2>2. Reduced' = Reduced /\ Reducing' = Reducing
    BY <2>1 DEF Reduced, Reducing
  <2>3. pc = "start" => n = 1
    BY <1>2 DEF Reduces, Ready
  <2>4. (Ready /\ Ordered /\ Summed /\ RowsCounted)'
    BY <1>2, <2>1, <2>2, <2>3, ReductionKept
  <2> QED
    BY <1>10, <2>4, MovingSteps
<1> QED
  BY <1>3, <1>4, <1>5, <1>6, <1>7, <1>8, <1>9, <1>10 DEF Next, Returned

\* Every variable is of its type, every segment has one id, and no two have the same.
THEOREM NonzeroTypeCorrect == Spec => []TypeOK
PROOF
<1>1. RInv => TypeOK
  BY DEF RInv, FInv, Base, ShardsApart, Apart, Shards, Reduces, Ordered, Summed, RowsCounted,
         Offsets, TypeOK
<1> QED
  BY <1>1, InitRInv, NextRInv, PTL DEF Spec

------------------------------------------------------------------------------
(* What is returned. *)

\* The places of the elements lie within the outputs, in the order of segments and dimensions.
LEMMA PositionFacts ==
  ASSUME Segments \in Nat, input.embed_dim \in Nat, OffsetsUpTo(Segments + 1),
         NEW s \in 1..Segments, NEW d \in Dimensions, Nonzero(s, d)
  PROVE  /\ Position(s, d) \in 1..segment_offsets[Segments + 1]
         /\ \A t \in 1..Segments, e \in Dimensions :
              (s < t \/ (s = t /\ d < e)) /\ Nonzero(t, e) => Position(s, d) < Position(t, e)
PROOF
<1>1. /\ \A t \in 1..Segments + 1 : segment_offsets[t] \in Nat
      /\ \A t, u \in 1..Segments + 1 : t <= u => segment_offsets[t] <= segment_offsets[u]
      /\ \A t \in 1..Segments : segment_offsets[t + 1] = segment_offsets[t] + NonzeroCount(t)
  BY DEF OffsetsUpTo
<1>2. \A t, e : e \in Dimensions =>
        Cardinality(Below(t, e)) \in Nat
        /\ (Nonzero(t, e) => Cardinality(Below(t, e)) < NonzeroCount(t)) /\ NonzeroCount(t) \in Nat
  <2> SUFFICES ASSUME NEW t, NEW e \in Dimensions
               PROVE  Cardinality(Below(t, e)) \in Nat /\ NonzeroCount(t) \in Nat
                      /\ (Nonzero(t, e) => Cardinality(Below(t, e)) < NonzeroCount(t))
    OBVIOUS
  <2>1. e \in 1..input.embed_dim + 1
    BY DEF Dimensions
  <2> QED
    BY <2>1, BelowFacts
<1>3. /\ segment_offsets[s] \in Nat /\ segment_offsets[s + 1] \in Nat
      /\ segment_offsets[Segments + 1] \in Nat
      /\ segment_offsets[s + 1] <= segment_offsets[Segments + 1]
      /\ segment_offsets[s + 1] = segment_offsets[s] + NonzeroCount(s)
      /\ Cardinality(Below(s, d)) \in Nat /\ NonzeroCount(s) \in Nat
      /\ Cardinality(Below(s, d)) < NonzeroCount(s)
  <2>1. s \in 1..Segments + 1 /\ s + 1 \in 1..Segments + 1 /\ Segments + 1 \in 1..Segments + 1
        /\ s + 1 <= Segments + 1
    OBVIOUS
  <2> QED
    BY <1>1, <1>2, <2>1
<1>4. Position(s, d) \in Nat \ {0} /\ Position(s, d) <= segment_offsets[s + 1]
  BY <1>3 DEF Position
<1>5. Position(s, d) \in 1..segment_offsets[Segments + 1]
  BY <1>3, <1>4
<1>6. ASSUME NEW t \in 1..Segments, s < t, NEW e \in Dimensions
      PROVE  Position(s, d) < Position(t, e)
  <2>1. segment_offsets[s + 1] <= segment_offsets[t] /\ segment_offsets[t] \in Nat
    <3>1. s + 1 \in 1..Segments + 1 /\ t \in 1..Segments + 1 /\ s + 1 <= t
      BY <1>6
    <3> QED
      BY <1>1, <3>1
  <2>2. Cardinality(Below(t, e)) \in Nat
    BY <1>2
  <2>3. Position(t, e) = segment_offsets[t] + 1 + Cardinality(Below(t, e))
    BY DEF Position
  <2> QED
    BY <1>3, <1>4, <2>1, <2>2, <2>3
<1>7. ASSUME NEW e \in Dimensions, d < e
      PROVE  Position(s, d) < Position(s, e)
  <2>1. Below(s, d) \in SUBSET Below(s, e) /\ d \in Below(s, e) /\ d \notin Below(s, d)
    BY <1>7 DEF Below, NonzeroDimensions, Dimensions
  <2>2. IsFiniteSet(Below(s, e))
    <3>1. IsFiniteSet(Dimensions)
      <4>1. 1 \in Int /\ input.embed_dim \in Int
        OBVIOUS
      <4> QED
        BY <4>1, FS_Interval DEF Dimensions
    <3>2. Below(s, e) \in SUBSET Dimensions
      BY DEF Below, NonzeroDimensions
    <3> QED
      BY <3>1, <3>2, FS_Subset
  <2>3. Cardinality(Below(s, d)) < Cardinality(Below(s, e))
    <3>1. Cardinality(Below(s, d)) <= Cardinality(Below(s, e))
          /\ Cardinality(Below(s, d)) # Cardinality(Below(s, e))
      BY <2>1, <2>2, FS_Subset
    <3> QED
      BY <1>2, <3>1
  <2> QED
    BY <1>2, <1>3, <2>3 DEF Position
<1> QED
  BY <1>5, <1>6, <1>7

\* What the invariant says when Compute returns.
LEMMA DoneFacts ==
  ASSUME RInv, pc = "done"
  PROVE  /\ Segments \in Nat /\ input.embed_dim \in Nat /\ OffsetsUpTo(Segments + 1)
         /\ segment_offsets[Segments + 1] \in Nat
         /\ input \in Inputs /\ ~Rejected(input)
         /\ Len(input.indices) \in Nat /\ DOMAIN input.indices = 1..Len(input.indices)
         /\ \A i \in 1..Len(input.indices) : SegmentId(input, i) \in Int
         /\ \A s \in 1..Segments : segment_order[s] \in Int
         /\ \A s, t \in 1..Segments : segment_order[s] = segment_order[t] => s = t
         /\ Ascending => \A s, t \in 1..Segments : s < t => segment_order[s] < segment_order[t]
         /\ {SegmentId(input, i) : i \in DOMAIN input.indices} =
              {segment_order[s] : s \in 1..Segments}
         /\ \A s \in 1..Segments, d \in Dimensions :
              Reduction(segment_order[s], d) = segment_sums[s][d]
         /\ input.is_mean => \A s \in 1..Segments :
              segment_counts[s] = Cardinality(RowsOf(input, segment_order[s]))
         /\ DOMAIN output = 1..segment_offsets[Segments + 1]
         /\ Len(output) = segment_offsets[Segments + 1]
         /\ \A p \in DOMAIN output :
              \E s \in 1..Segments, d \in Dimensions :
                Nonzero(s, d) /\ p = Position(s, d) /\ output[p] = Element(s, d)
PROOF
<1>1. Segments \in Nat /\ input.embed_dim \in Nat /\ OffsetsUpTo(Segments + 1)
  BY SegmentsNat DEF RInv, Reduces, Offsets
<1>2. segment_offsets[Segments + 1] \in Nat
  BY <1>1 DEF OffsetsUpTo
<1>3. Reducing /\ Reduced = Len(input.indices) /\ input \in Inputs /\ ~Rejected(input)
  BY DEF Reducing, Reduced, RInv, Reduces, Base, Ready
<1>4. /\ Len(input.indices) \in Nat /\ DOMAIN input.indices = 1..Len(input.indices)
      /\ \A i \in 1..Len(input.indices) : SegmentId(input, i) \in Int
  BY <1>3, InputFacts
<1>5. \A s \in 1..Segments : segment_order[s] \in Int
  BY ElementOfSeq DEF RInv, Reduces, Base, Segments
<1>6. /\ \A s, t \in 1..Segments : segment_order[s] = segment_order[t] => s = t
      /\ Ascending => \A s, t \in 1..Segments : s < t => segment_order[s] < segment_order[t]
      /\ \A s \in 1..Segments : RowsUpTo(segment_order[s], Len(input.indices)) # {}
      /\ \A i \in 1..Len(input.indices) :
           \E s \in 1..Segments : segment_order[s] = SegmentId(input, i)
  BY <1>3 DEF RInv, Reduces, Ordered
<1>7. {SegmentId(input, i) : i \in DOMAIN input.indices} = {segment_order[s] : s \in 1..Segments}
  <2>1. \A s \in 1..Segments :
          \E i \in 1..Len(input.indices) : SegmentId(input, i) = segment_order[s]
    BY <1>6 DEF RowsUpTo
  <2> QED
    BY <1>4, <1>6, <2>1
<1>8. \A s \in 1..Segments, d \in Dimensions :
        Reduction(segment_order[s], d) = segment_sums[s][d]
  BY <1>3, <1>5 DEF RInv, Reduces, Summed, Reduction
<1>9. \A id : RowsUpTo(id, Len(input.indices)) = RowsOf(input, id)
  BY <1>4 DEF RowsUpTo, RowsOf
<1>10. input.is_mean => \A s \in 1..Segments :
         segment_counts[s] = Cardinality(RowsOf(input, segment_order[s]))
  BY <1>3, <1>9 DEF RInv, Reduces, RowsCounted
<1>11. /\ output \in [1..segment_offsets[Segments + 1] -> {output[p] : p \in DOMAIN output}]
       /\ \A p \in DOMAIN output : output[p] # Unwritten
       /\ \A p \in DOMAIN output : output[p] # Unwritten =>
            \E s \in 1..Segments, d \in Dimensions :
              Nonzero(s, d) /\ p = Position(s, d) /\ output[p] = Element(s, d)
  BY DEF RInv, FInv, OutputFull, Written
<1>12. DOMAIN output = 1..segment_offsets[Segments + 1] /\ Len(output) = segment_offsets[Segments + 1]
  <2>1. output \in Seq({output[p] : p \in DOMAIN output})
    BY <1>2, <1>11, SeqDef
  <2> QED
    BY <1>2, <1>11, <2>1, LenProperties
<1> QED
  BY <1>1, <1>2, <1>3, <1>4, <1>5, <1>6, <1>7, <1>8, <1>10, <1>11, <1>12

\* The number of rows of the whole reduction is greater than every id, and the least such.
LEMMA BatchSizeFacts ==
  ASSUME NEW in, Len(in.indices) \in Nat, DOMAIN in.indices = 1..Len(in.indices),
         \A i \in 1..Len(in.indices) : SegmentId(in, i) \in Int
  PROVE  /\ \A i \in DOMAIN in.indices : SegmentId(in, i) < BatchSize(in)
         /\ BatchSize(in) = 1 \/ \E i \in DOMAIN in.indices : BatchSize(in) = 1 + SegmentId(in, i)
PROOF
<1> DEFINE len == Len(in.indices)
           Ids(m) == {0} \cup {SegmentId(in, i) : i \in 1..m}
           Bounded(m) == \E max \in Ids(m) : \A i \in 1..m : SegmentId(in, i) <= max
           Unbounded == {m \in 0..len : ~Bounded(m)}
<1>1. Unbounded = {}
  <2>1. SUFFICES ASSUME Unbounded # {} PROVE FALSE
    OBVIOUS
  <2>2. PICK m \in Unbounded : \A y \in Unbounded : m <= y
    <3>1. Unbounded \in SUBSET Nat
      OBVIOUS
    <3> HIDE DEF Unbounded
    <3> QED
      BY <2>1, <3>1, LeastRow
  <2>3. m \in 0..len /\ ~Bounded(m)
    BY <2>2
  <2>4. m # 0
    <3>1. Bounded(0)
      OBVIOUS
    <3> QED
      BY <2>3, <3>1
  <2>5. m - 1 \in 0..len /\ ~(m <= m - 1) /\ m \in 1..len
    BY <2>3, <2>4
  <2>6. m - 1 \notin Unbounded
    BY <2>2, <2>5
  <2>7. PICK max \in Ids(m - 1) : \A i \in 1..m - 1 : SegmentId(in, i) <= max
    BY <2>5, <2>6
  <2>8. max \in Int /\ SegmentId(in, m) \in Int /\ \A i \in 1..m : SegmentId(in, i) \in Int
    BY <2>5, <2>7
  <2>9. \A i \in 1..m : i \in 1..m - 1 \/ i = m
    BY <2>5
  <2>10. max \in Ids(m) /\ SegmentId(in, m) \in Ids(m)
    BY <2>5, <2>7
  <2>11. Bounded(m)
    <3>1. CASE SegmentId(in, m) <= max
      BY <2>7, <2>9, <2>10, <3>1
    <3>2. CASE max < SegmentId(in, m)
      <4>1. \A i \in 1..m : SegmentId(in, i) <= SegmentId(in, m)
        BY <2>7, <2>8, <2>9, <3>2
      <4> QED
        BY <2>10, <4>1
    <3> QED
      BY <2>8, <3>1, <3>2
  <2> QED
    BY <2>3, <2>11
<1>2. PICK max : /\ max = CHOOSE x \in {0} \cup {SegmentId(in, i) : i \in DOMAIN in.indices} :
                            \A i \in DOMAIN in.indices : SegmentId(in, i) <= x
  OBVIOUS
<1>3. /\ max \in {0} \cup {SegmentId(in, i) : i \in DOMAIN in.indices}
      /\ \A i \in DOMAIN in.indices : SegmentId(in, i) <= max
  <2>1. Bounded(len)
    <3>1. len \in 0..len
      OBVIOUS
    <3>2. len \notin Unbounded
      <4> HIDE DEF Unbounded
      <4> QED
        BY <1>1
    <3> QED
      BY <3>1, <3>2
  <2> QED
    BY <1>2, <2>1
<1>4. BatchSize(in) = 1 + max
  BY <1>2, Zenon DEF BatchSize
<1>5. max \in Int
  BY <1>3
<1> QED
  BY <1>3, <1>4, <1>5

\* Every position holds one nonzero element, and each has its position.
LEMMA PositionsUnique ==
  ASSUME RInv, pc = "done", NEW s \in 1..Segments, NEW d \in Dimensions, Nonzero(s, d)
  PROVE  /\ Position(s, d) \in DOMAIN output
         /\ output[Position(s, d)] = Element(s, d)
         /\ \A t \in 1..Segments, e \in Dimensions :
              Nonzero(t, e) /\ Position(t, e) = Position(s, d) => t = s /\ e = d
PROOF
<1>1. /\ Segments \in Nat /\ input.embed_dim \in Nat /\ OffsetsUpTo(Segments + 1)
      /\ segment_offsets[Segments + 1] \in Nat
      /\ DOMAIN output = 1..segment_offsets[Segments + 1]
      /\ \A p \in DOMAIN output :
           \E t \in 1..Segments, e \in Dimensions :
             Nonzero(t, e) /\ p = Position(t, e) /\ output[p] = Element(t, e)
  BY DoneFacts
<1>2. \A t, u \in 1..Segments, e, f \in Dimensions :
        Nonzero(t, e) /\ Nonzero(u, f) =>
          /\ Position(t, e) \in 1..segment_offsets[Segments + 1]
          /\ t < u \/ (t = u /\ e < f) => Position(t, e) < Position(u, f)
  BY <1>1, PositionFacts
<1>3. Position(s, d) \in DOMAIN output
  BY <1>1, <1>2
<1>4. ASSUME NEW t \in 1..Segments, NEW e \in Dimensions, Nonzero(t, e),
             Position(t, e) = Position(s, d)
      PROVE  t = s /\ e = d
  <2>1. Position(s, d) \in Int
    BY <1>1, <1>3
  <2>2. ~(t < s \/ (t = s /\ e < d)) /\ ~(s < t \/ (s = t /\ d < e))
    BY <1>2, <1>4, <2>1
  <2>3. s \in Int /\ t \in Int /\ d \in Int /\ e \in Int
    BY <1>1 DEF Dimensions
  <2> QED
    BY <2>2, <2>3
<1> QED
  BY <1>1, <1>3, <1>4

\* The coordinates are those of the nonzero elements of the segments.
LEMMA CoordinateFacts ==
  ASSUME RInv, pc = "done"
  PROVE  /\ \A c : c \in Coordinates <=>
              \E s \in 1..Segments, d \in Dimensions : Nonzero(s, d) /\ c = <<segment_order[s], d>>
         /\ \A s \in 1..Segments, d \in Dimensions :
              Coordinate(<<segment_order[s], d>>) = Element(s, d)
PROOF
<1>1. /\ {SegmentId(input, i) : i \in DOMAIN input.indices} = {segment_order[s] : s \in 1..Segments}
      /\ \A s \in 1..Segments, d \in Dimensions :
           Reduction(segment_order[s], d) = segment_sums[s][d]
      /\ input.is_mean => \A s \in 1..Segments :
           segment_counts[s] = Cardinality(RowsOf(input, segment_order[s]))
  BY DoneFacts
<1>2. \A s \in 1..Segments, d \in Dimensions :
        Reduction(segment_order[s], d) # 0 <=> Nonzero(s, d)
  BY <1>1 DEF Nonzero
<1>3. \A c : c \in Coordinates <=>
        \E s \in 1..Segments, d \in Dimensions : Nonzero(s, d) /\ c = <<segment_order[s], d>>
  <2>1. Coordinates = {c \in {segment_order[s] : s \in 1..Segments} \X Dimensions :
                         Reduction(c[1], c[2]) # 0}
    BY <1>1 DEF Coordinates
  <2> QED
    BY <1>2, <2>1
<1>4. \A s \in 1..Segments, d \in Dimensions : Coordinate(<<segment_order[s], d>>) = Element(s, d)
  <2> TAKE s \in 1..Segments, d \in Dimensions
  <2> DEFINE c == <<segment_order[s], d>>
  <2>1. c[1] = segment_order[s] /\ c[2] = d
    OBVIOUS
  <2>2. Coordinate(c) = [index |-> IF input.dims = 1 THEN <<segment_order[s]>>
                                   ELSE <<segment_order[s], d - 1>>,
                         sum |-> Reduction(segment_order[s], d),
                         count |-> IF input.is_mean THEN Cardinality(RowsOf(input, segment_order[s]))
                                   ELSE 1]
    BY <2>1 DEF Coordinate
  <2> HIDE DEF c
  <2> QED
    BY <1>1, <2>2 DEF Element, c
<1> QED
  BY <1>3, <1>4

\* There are as many outputs as nonzero elements of the reduction.
LEMMA OutputsCounted ==
  ASSUME RInv, pc = "done"
  PROVE  Len(output) = Cardinality(Coordinates)
PROOF
<1>1. /\ segment_offsets[Segments + 1] \in Nat /\ Len(output) = segment_offsets[Segments + 1]
      /\ DOMAIN output = 1..segment_offsets[Segments + 1]
      /\ \A p \in DOMAIN output :
           \E s \in 1..Segments, d \in Dimensions :
             Nonzero(s, d) /\ p = Position(s, d) /\ output[p] = Element(s, d)
      /\ \A s, t \in 1..Segments : segment_order[s] = segment_order[t] => s = t
  BY DoneFacts
<1>2. \A c : c \in Coordinates <=>
        \E s \in 1..Segments, d \in Dimensions : Nonzero(s, d) /\ c = <<segment_order[s], d>>
  BY CoordinateFacts
<1>3. \A s \in 1..Segments, d \in Dimensions : Nonzero(s, d) =>
        /\ Position(s, d) \in DOMAIN output
        /\ \A t \in 1..Segments, e \in Dimensions :
             Nonzero(t, e) /\ Position(t, e) = Position(s, d) => t = s /\ e = d
  BY PositionsUnique
<1> DEFINE At(p, c) == \E s \in 1..Segments, d \in Dimensions :
                         Nonzero(s, d) /\ p = Position(s, d) /\ c = <<segment_order[s], d>>
           f == [p \in DOMAIN output |-> CHOOSE c : At(p, c)]
<1>4. \A p \in DOMAIN output : At(p, f[p])
  <2> TAKE p \in DOMAIN output
  <2>1. PICK s \in 1..Segments, d \in Dimensions : Nonzero(s, d) /\ p = Position(s, d)
    BY <1>1
  <2>2. At(p, <<segment_order[s], d>>)
    BY <2>1
  <2>3. f[p] = CHOOSE c : At(p, c)
    OBVIOUS
  <2> HIDE DEF At, f
  <2> QED
    BY <2>2, <2>3
<1>5. \A p \in DOMAIN output : f[p] \in Coordinates
  BY <1>2, <1>4
<1>6. DOMAIN f = DOMAIN output /\ f \in [DOMAIN output -> Coordinates]
  BY <1>5
<1> HIDE DEF f
<1>7. ASSUME NEW p \in DOMAIN output, NEW q \in DOMAIN output, f[p] = f[q]
      PROVE  p = q
  <2>1. PICK s \in 1..Segments, d \in Dimensions :
          Nonzero(s, d) /\ p = Position(s, d) /\ f[p] = <<segment_order[s], d>>
    BY <1>4
  <2>2. PICK t \in 1..Segments, e \in Dimensions :
          Nonzero(t, e) /\ q = Position(t, e) /\ f[q] = <<segment_order[t], e>>
    BY <1>4
  <2>3. segment_order[s] = segment_order[t] /\ d = e
    BY <1>7, <2>1, <2>2
  <2> QED
    BY <1>1, <2>1, <2>2, <2>3
<1>8. ASSUME NEW c \in Coordinates
      PROVE  \E p \in DOMAIN output : f[p] = c
  <2>1. PICK s \in 1..Segments, d \in Dimensions : Nonzero(s, d) /\ c = <<segment_order[s], d>>
    BY <1>2
  <2>2. Position(s, d) \in DOMAIN output
    BY <1>3, <2>1
  <2>3. PICK t \in 1..Segments, e \in Dimensions :
          /\ Nonzero(t, e) /\ Position(s, d) = Position(t, e)
          /\ f[Position(s, d)] = <<segment_order[t], e>>
    BY <1>4, <2>2
  <2>4. t = s /\ e = d
    BY <1>3, <2>1, <2>3
  <2> QED
    BY <2>1, <2>2, <2>3, <2>4
<1>9. f \in Bijection(1..Len(output), Coordinates)
  <2>1. DOMAIN output = 1..Len(output)
    BY <1>1
  <2> QED
    BY <1>6, <1>7, <1>8, <2>1 DEF Bijection, Injection, Surjection, IsInjective
<1> QED
  BY <1>1, <1>9, FS_CountingElements DEF ExistsBijection

\* The outputs come in the order of the segments, and of the dimensions within each.
LEMMA OutputsOrdered ==
  ASSUME RInv, pc = "done", Ascending, NEW i \in DOMAIN output, NEW j \in DOMAIN output, i < j
  PROVE  Precedes(output[i].index, output[j].index)
PROOF
<1>1. /\ Segments \in Nat /\ input.embed_dim \in Nat /\ OffsetsUpTo(Segments + 1)
      /\ segment_offsets[Segments + 1] \in Nat /\ input \in Inputs
      /\ DOMAIN output = 1..segment_offsets[Segments + 1]
      /\ \A s \in 1..Segments : segment_order[s] \in Int
      /\ \A s, t \in 1..Segments : s < t => segment_order[s] < segment_order[t]
  BY DoneFacts
<1>2. PICK s \in 1..Segments, d \in Dimensions :
        Nonzero(s, d) /\ i = Position(s, d) /\ output[i] = Element(s, d)
  BY DoneFacts
<1>3. PICK t \in 1..Segments, e \in Dimensions :
        Nonzero(t, e) /\ j = Position(t, e) /\ output[j] = Element(t, e)
  BY DoneFacts
<1>4. i \in Int /\ j \in Int /\ s \in Int /\ t \in Int /\ d \in Int /\ e \in Int
  BY <1>1 DEF Dimensions
<1>5. s < t \/ (s = t /\ d < e)
  <2>1. t < s \/ (t = s /\ e < d) => j < i
    BY <1>1, <1>2, <1>3, PositionFacts
  <2>2. t = s /\ e = d => i = j
    BY <1>2, <1>3
  <2> QED
    BY <1>4, <2>1, <2>2
<1>6. output[i].index = IF input.dims = 1 THEN <<segment_order[s]>> ELSE <<segment_order[s], d - 1>>
  BY <1>2 DEF Element
<1>7. output[j].index = IF input.dims = 1 THEN <<segment_order[t]>> ELSE <<segment_order[t], e - 1>>
  BY <1>3 DEF Element
<1>8. CASE s < t
  <2>1. segment_order[s] < segment_order[t]
    BY <1>1, <1>8
  <2>2. 1 \in DOMAIN output[i].index /\ output[i].index[1] = segment_order[s]
        /\ output[j].index[1] = segment_order[t]
    BY <1>6, <1>7
  <2>3. \A k \in 1..1 - 1 : FALSE
    OBVIOUS
  <2> QED
    BY <2>1, <2>2, <2>3 DEF Precedes
<1>9. CASE s = t /\ d < e
  <2>1. input.dims # 1
    <3>1. input.dims = 1 => input.embed_dim = 1
      BY <1>1, InputsAssumption
    <3> QED
      BY <1>4, <1>9, <3>1 DEF Dimensions
  <2>2. /\ 2 \in DOMAIN output[i].index
        /\ output[i].index[1] = segment_order[s] /\ output[j].index[1] = segment_order[s]
        /\ output[i].index[2] = d - 1 /\ output[j].index[2] = e - 1
    BY <1>6, <1>7, <1>9, <2>1
  <2>3. d - 1 < e - 1 /\ \A k \in 1..2 - 1 : k = 1
    BY <1>4, <1>9
  <2> QED
    BY <2>2, <2>3 DEF Precedes
<1> QED
  BY <1>5, <1>8, <1>9

\* The outputs are the nonzero elements of the reduction, each once, with the count of its
\* segment, in the order of Where when the ids ascend; the shape is that of the reduction.
LEMMA RInvReturnsNonzeros == RInv => ReturnsNonzeros
PROOF
<1> SUFFICES ASSUME RInv, pc = "done"
             PROVE  /\ {output[i] : i \in DOMAIN output} = {Coordinate(c) : c \in Coordinates}
                    /\ Len(output) = Cardinality(Coordinates)
                    /\ Ascending => \A i, j \in DOMAIN output :
                                      i < j => Precedes(output[i].index, output[j].index)
                    /\ input.indices # <<>> =>
                         /\ \A i \in DOMAIN input.indices : SegmentId(input, i) < output_shape[1]
                         /\ \E i \in DOMAIN input.indices :
                              output_shape[1] = 1 + SegmentId(input, i) \/ output_shape[1] = 1
  BY DEF ReturnsNonzeros
<1>1. {output[i] : i \in DOMAIN output} = {Coordinate(c) : c \in Coordinates}
  <2>1. ASSUME NEW i \in DOMAIN output
        PROVE  \E c \in Coordinates : output[i] = Coordinate(c)
    <3>1. PICK s \in 1..Segments, d \in Dimensions : Nonzero(s, d) /\ output[i] = Element(s, d)
      BY DoneFacts
    <3>2. <<segment_order[s], d>> \in Coordinates
          /\ Coordinate(<<segment_order[s], d>>) = Element(s, d)
      BY <3>1, CoordinateFacts
    <3> QED
      BY <3>1, <3>2
  <2>2. ASSUME NEW c \in Coordinates
        PROVE  \E i \in DOMAIN output : output[i] = Coordinate(c)
    <3>1. PICK s \in 1..Segments, d \in Dimensions : Nonzero(s, d) /\ c = <<segment_order[s], d>>
      BY CoordinateFacts
    <3>2. Coordinate(c) = Element(s, d)
      BY <3>1, CoordinateFacts
    <3>3. Position(s, d) \in DOMAIN output /\ output[Position(s, d)] = Element(s, d)
      BY <3>1, PositionsUnique
    <3> QED
      BY <3>2, <3>3
  <2> QED
    BY <2>1, <2>2
<1>2. Len(output) = Cardinality(Coordinates)
  BY OutputsCounted
<1>3. Ascending => \A i, j \in DOMAIN output :
                     i < j => Precedes(output[i].index, output[j].index)
  BY OutputsOrdered
<1>4. ASSUME input.indices # <<>>
      PROVE  /\ \A i \in DOMAIN input.indices : SegmentId(input, i) < output_shape[1]
             /\ \E i \in DOMAIN input.indices :
                  output_shape[1] = 1 + SegmentId(input, i) \/ output_shape[1] = 1
  <2>1. /\ Len(input.indices) \in Nat /\ DOMAIN input.indices = 1..Len(input.indices)
        /\ \A i \in 1..Len(input.indices) : SegmentId(input, i) \in Int
        /\ input \in Inputs
    BY DoneFacts
  <2>2. output_shape[1] = BatchSize(input)
    BY DEF RInv, Reduces, Ready, Reducing
  <2>3. Len(input.indices) # 0
    <3>1. input.indices \in Seq(Int)
      BY <2>1, InputsAssumption
    <3> QED
      BY <1>4, <3>1, EmptySeq
  <2>4. 1 \in DOMAIN input.indices
    BY <2>1, <2>3
  <2>5. /\ \A i \in DOMAIN input.indices : SegmentId(input, i) < BatchSize(input)
        /\ \/ BatchSize(input) = 1
           \/ \E i \in DOMAIN input.indices : BatchSize(input) = 1 + SegmentId(input, i)
    BY <2>1, BatchSizeFacts
  <2> QED
    BY <2>2, <2>4, <2>5
<1> QED
  BY <1>1, <1>2, <1>3, <1>4

\* When Compute returns, its outputs are the nonzero elements of the reduction: for any input,
\* any number of workers, and any split and interleaving of theirs.
THEOREM NonzeroReturnsNonzeros == Spec => []ReturnsNonzeros
PROOF
  BY InitRInv, NextRInv, RInvReturnsNonzeros, PTL DEF Spec
=============================================================================
