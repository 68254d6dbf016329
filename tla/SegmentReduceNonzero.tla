------------------------ MODULE SegmentReduceNonzero ------------------------
(***************************************************************************)
(* KPFusedSparseSegmentReduceNonzeroOp::Compute: the nonzero elements of a *)
(* sparse segment reduction.  One thread reduces; when there are enough    *)
(* segments, the worker threads count the nonzero elements of each, one    *)
(* thread sums the counts up to offsets, and the workers fill the outputs  *)
(* from these offsets, without a lock.                                     *)
(*                                                                         *)
(* Segments, dimensions and output positions are counted from 1; ids and   *)
(* rows of the input as in the code.  A mean is kept as a sum and a count, *)
(* so that it is zero when the sum is: floats that underflow are left out. *)
(***************************************************************************)
EXTENDS Integers, Sequences, FiniteSets

CONSTANTS
  Inputs,       \* what Compute may be called with
  MinSegments   \* fewer segments than that, 16 in the code, are left to one thread

(* An input is [dims: the rank of the data, data: its rows, which have one *)
(* element when dims is 1, indices: row numbers, slice_input: rows of ids, *)
(* col: begin[1], is_mean, num_threads].                                   *)
VARIABLES
  input,
  pc,     \* "start", "failed", "reduce", "count", "offsets", "fill" or "done"
  n,      \* where the loops of one thread are
  output_shape,
  segment_order,
  segment_sums,
  segment_counts,     \* empty unless is_mean_
  segment_nz_counts,
  segment_offsets,
  shards, \* intervals of segments the threads have left: [s, end: segments, d, out_idx]
  output  \* output_indices and output_nonzero, side by side

vars == <<input, pc, n, output_shape, segment_order, segment_sums, segment_counts,
          segment_nz_counts, segment_offsets, shards, output>>
reduced == <<output_shape, segment_order, segment_sums, segment_counts>>

Unwritten == [index |-> <<>>]

Rejected(in) ==
  \/ in.col < 0 \/ in.col >= in.width
  \/ Len(in.indices) # Len(in.slice_input)

SegmentId(in, i) == in.slice_input[i][in.col + 1]
DataRow(in, i) == in.data[in.indices[i] + 1]

\* Ids and rows are integers, and each row that is named has a number for each dimension.
ASSUME InputsAssumption ==
  \A in \in Inputs :
    /\ in.embed_dim \in Nat
    /\ in.dims = 1 => in.embed_dim = 1
    /\ in.indices \in Seq(Int)
    /\ ~Rejected(in) => \A i \in 1..Len(in.indices) :
                          /\ SegmentId(in, i) \in Int
                          /\ \A d \in 1..in.embed_dim : DataRow(in, i)[d] \in Int

\* max_seg_id starts from zero, whether or not there is an id.
BatchSize(in) ==
  1 + (CHOOSE max \in {0} \cup {SegmentId(in, i) : i \in DOMAIN in.indices} :
         \A i \in DOMAIN in.indices : SegmentId(in, i) <= max)

Segments == Len(segment_order)
Dimensions == 1..input.embed_dim
Parallel == input.dims = 2 /\ Segments >= MinSegments /\ input.num_threads > 1

Nonzero(s, d) == segment_sums[s][d] # 0
NonzeroDimensions(s) == {d \in Dimensions : Nonzero(s, d)}

------------------------------------------------------------------------------
Init ==
  /\ input \in Inputs
  /\ pc = "start" /\ n = 1
  /\ output_shape = <<>>
  /\ segment_order = <<>> /\ segment_sums = <<>> /\ segment_counts = <<>>
  /\ segment_nz_counts = <<>> /\ segment_offsets = <<>>
  /\ shards = {} /\ output = <<>>

Start ==
  /\ pc = "start"
  /\ IF Rejected(input)
     THEN pc' = "failed" /\ UNCHANGED output_shape
     ELSE /\ pc' = "reduce"
          /\ output_shape' = IF input.dims = 1 THEN <<BatchSize(input)>>
                             ELSE <<BatchSize(input), input.embed_dim>>
  /\ UNCHANGED <<input, n, segment_order, segment_sums, segment_counts, segment_nz_counts,
                 segment_offsets, shards, output>>

SegmentOf(seg_id) == {s \in 1..Segments : segment_order[s] = seg_id}

\* The count of a segment starts with its second row (a mutant of NewSegment).
NewSegmentUncounted ==
  LET seg_id == SegmentId(input, n)
  IN  /\ SegmentOf(seg_id) = {}
      /\ segment_order' = Append(segment_order, seg_id)
      /\ segment_sums' = Append(segment_sums, [d \in Dimensions |-> DataRow(input, n)[d]])
      /\ UNCHANGED segment_counts

\* A row for a segment that has none yet.
NewSegment ==
  LET seg_id == SegmentId(input, n)
  IN  /\ SegmentOf(seg_id) = {}
      /\ segment_order' = Append(segment_order, seg_id)
      /\ segment_sums' = Append(segment_sums, [d \in Dimensions |-> DataRow(input, n)[d]])
      /\ segment_counts' = IF input.is_mean THEN Append(segment_counts, 1) ELSE segment_counts

\* A row is counted only with its segment's first (a mutant of OldSegment).
OldSegmentUncounted ==
  \E s \in SegmentOf(SegmentId(input, n)) :
    /\ segment_sums' = [segment_sums EXCEPT ![s] =
                          [d \in Dimensions |-> @[d] + DataRow(input, n)[d]]]
    /\ UNCHANGED <<segment_order, segment_counts>>

\* A row for a segment that has one.
OldSegment ==
  \E s \in SegmentOf(SegmentId(input, n)) :
    /\ segment_sums' = [segment_sums EXCEPT ![s] =
                          [d \in Dimensions |-> @[d] + DataRow(input, n)[d]]]
    /\ segment_counts' = IF input.is_mean THEN [segment_counts EXCEPT ![s] = @ + 1]
                         ELSE segment_counts
    /\ UNCHANGED segment_order

ReduceRow ==
  /\ pc = "reduce" /\ n <= Len(input.indices)
  /\ NewSegment \/ OldSegment
  /\ n' = n + 1
  /\ UNCHANGED <<input, pc, output_shape, segment_nz_counts, segment_offsets, shards, output>>

------------------------------------------------------------------------------
(* Shard() splits the segments into intervals, which threads work on in    *)
(* any order and at once, and returns when all are done.                   *)

\* The offset of the next segment (a mutant of OutIdx).
OutIdxOfNext(s) == segment_offsets[s + 1]

\* Where the filling of a segment begins.
OutIdx(s) == segment_offsets[s] + 1

Intervals == {i \in (1..Segments) \X (2..Segments + 1) : i[1] < i[2]}
In(s, i) == i[1] <= s /\ s < i[2]

Sharded ==
  {p \in SUBSET Intervals :
     /\ ~Parallel => Cardinality(p) <= 1
     /\ \A s \in 1..Segments : \E i \in p : \A j \in p : In(s, j) <=> j = i}

BeginCount ==
  /\ pc = "reduce" /\ n > Len(input.indices)
  /\ pc' = "count"
  /\ segment_nz_counts' = [s \in 1..Segments |-> 0]
  /\ \E intervals \in Sharded :
       shards' = {[s |-> i[1], end |-> i[2], d |-> 1, out_idx |-> 1] : i \in intervals}
  /\ UNCHANGED <<input, n, reduced, segment_offsets, output>>

NonzeroCount(s) == Cardinality(NonzeroDimensions(s))

CountSegment(w) ==
  /\ pc = "count" /\ w \in shards
  /\ segment_nz_counts' = [segment_nz_counts EXCEPT ![w.s] = NonzeroCount(w.s)]
  /\ shards' = (shards \ {w}) \cup (IF w.s + 1 < w.end THEN {[w EXCEPT !.s = @ + 1]} ELSE {})
  /\ UNCHANGED <<input, pc, n, reduced, segment_offsets, output>>

EndCount ==
  /\ pc = "count" /\ shards = {}
  /\ pc' = "offsets" /\ n' = 1
  /\ segment_offsets' = <<0>>
  /\ UNCHANGED <<input, reduced, segment_nz_counts, shards, output>>

AddOffset ==
  /\ pc = "offsets" /\ n <= Segments
  /\ segment_offsets' = Append(segment_offsets, segment_offsets[n] + segment_nz_counts[n])
  /\ n' = n + 1
  /\ UNCHANGED <<input, pc, reduced, segment_nz_counts, shards, output>>

BeginFill ==
  /\ pc = "offsets" /\ n > Segments
  /\ pc' = "fill"
  /\ output' = [i \in 1..segment_offsets[n] |-> Unwritten]
  /\ \E intervals \in Sharded :
       shards' = {[s |-> i[1], end |-> i[2], d |-> 1, out_idx |-> OutIdx(i[1])] :
                    i \in intervals}
  /\ UNCHANGED <<input, n, reduced, segment_nz_counts, segment_offsets>>

Element(s, d) ==
  [index |-> IF input.dims = 1 THEN <<segment_order[s]>> ELSE <<segment_order[s], d - 1>>,
   sum |-> segment_sums[s][d],
   count |-> IF input.is_mean THEN segment_counts[s] ELSE 1]

\* The dimension is passed over without looking at the value (a mutant of AfterElement).
AfterElementAlways(w) == [w EXCEPT !.d = @ + 1, !.out_idx = @ + 1]

AfterElement(w) ==
  [w EXCEPT !.d = @ + 1, !.out_idx = IF Nonzero(w.s, w.d) THEN @ + 1 ELSE @]

FillElement(w) ==
  /\ pc = "fill" /\ w \in shards /\ w.d \in Dimensions
  /\ output' = IF Nonzero(w.s, w.d) THEN [output EXCEPT ![w.out_idx] = Element(w.s, w.d)]
               ELSE output
  /\ shards' = (shards \ {w}) \cup {AfterElement(w)}
  /\ UNCHANGED <<input, pc, n, reduced, segment_nz_counts, segment_offsets>>

\* A worker starts each segment from its offset; one thread goes on from where it is.
NextSegment(w) ==
  /\ pc = "fill" /\ w \in shards /\ w.d \notin Dimensions
  /\ shards' = (shards \ {w}) \cup
       (IF w.s + 1 < w.end
        THEN {[w EXCEPT !.s = @ + 1, !.d = 1,
                        !.out_idx = IF Parallel THEN OutIdx(w.s + 1) ELSE @]}
        ELSE {})
  /\ UNCHANGED <<input, pc, n, reduced, segment_nz_counts, segment_offsets, output>>

EndFill ==
  /\ pc = "fill" /\ shards = {}
  /\ pc' = "done"
  /\ UNCHANGED <<input, n, reduced, segment_nz_counts, segment_offsets, shards, output>>

Returned == pc \in {"failed", "done"} /\ UNCHANGED vars

Next ==
  \/ Start \/ ReduceRow \/ BeginCount \/ EndCount \/ AddOffset \/ BeginFill \/ EndFill
  \/ \E w \in shards : CountSegment(w) \/ FillElement(w) \/ NextSegment(w)
  \/ Returned

Spec == Init /\ [][Next]_vars

------------------------------------------------------------------------------
(* Properties. *)

TypeOK ==
  /\ input \in Inputs
  /\ pc \in {"start", "failed", "reduce", "count", "offsets", "fill", "done"}
  /\ n \in Nat \ {0}
  /\ segment_order \in Seq(Int) /\ Len(segment_sums) = Segments
  /\ \A s, t \in 1..Segments : segment_order[s] = segment_order[t] => s = t
  /\ Len(segment_counts) = IF input.is_mean THEN Segments ELSE 0
  /\ pc \in {"count", "offsets", "fill", "done"} =>
       segment_nz_counts \in [1..Segments -> 0..input.embed_dim]
  /\ pc \in {"fill", "done"} => segment_offsets \in [1..Segments + 1 -> Nat]
  /\ shards \subseteq [s : 1..Segments, end : 2..Segments + 1, d : 1..input.embed_dim + 1,
                       out_idx : Nat \ {0}]

\* The counting threads and the filling threads agree: whatever thread writes next writes within
\* the outputs that were allocated, and where nobody has written.
WritesFit ==
  pc = "fill" =>
    \A w \in shards : w.d \in Dimensions /\ Nonzero(w.s, w.d) =>
      w.out_idx \in DOMAIN output /\ output[w.out_idx] = Unwritten

\* No element of the outputs, which are not initialised, is left as it was allocated.
OutputFull == pc = "done" => \A i \in DOMAIN output : output[i] # Unwritten

(* What the kernel stands for: the reduction, and the coordinates of its nonzero elements. *)
RowsOf(in, id) == {i \in DOMAIN in.indices : SegmentId(in, i) = id}
PartialSums(in, id, d) ==
  LET upto[i \in 0..Len(in.indices)] ==
        IF i = 0 THEN 0
        ELSE upto[i - 1] + IF i \in RowsOf(in, id) THEN DataRow(in, i)[d] ELSE 0
  IN  upto
Reduction(id, d) == PartialSums(input, id, d)[Len(input.indices)]

Coordinates ==
  {c \in {SegmentId(input, i) : i \in DOMAIN input.indices} \X Dimensions :
     Reduction(c[1], c[2]) # 0}
Coordinate(c) ==
  [index |-> IF input.dims = 1 THEN <<c[1]>> ELSE <<c[1], c[2] - 1>>,
   sum |-> Reduction(c[1], c[2]),
   count |-> IF input.is_mean THEN Cardinality(RowsOf(input, c[1])) ELSE 1]
Precedes(x, y) ==
  \E k \in DOMAIN x : x[k] < y[k] /\ \A j \in 1..k - 1 : x[j] = y[j]
Ascending ==
  \A i, j \in DOMAIN input.indices : i < j => SegmentId(input, i) <= SegmentId(input, j)

\* The outputs hold each nonzero element of the reduction once, with its coordinates, in the
\* order of Where when the segment ids ascend, as those of SparseSegmentSum must; and the shape
\* is that of the whole reduction unless it is empty.
ReturnsNonzeros ==
  pc = "done" =>
    /\ {output[i] : i \in DOMAIN output} = {Coordinate(c) : c \in Coordinates}
    /\ Len(output) = Cardinality(Coordinates)
    /\ Ascending => \A i, j \in DOMAIN output :
                      i < j => Precedes(output[i].index, output[j].index)
    /\ input.indices # <<>> =>
         /\ \A i \in DOMAIN input.indices : SegmentId(input, i) < output_shape[1]
         /\ \E i \in DOMAIN input.indices :
              output_shape[1] = 1 + SegmentId(input, i) \/ output_shape[1] = 1
=============================================================================
