----------------------- MODULE MCSegmentReduceNonzero -----------------------
(***************************************************************************)
(* Inputs for TLC: those of the kernel's unit tests, and small ones with   *)
(* segments that cancel out, come back, or are all there is.               *)
(***************************************************************************)
EXTENDS SegmentReduceNonzero

Matrix(data, indices, ids, is_mean, num_threads) ==
  [dims |-> 2, data |-> data, embed_dim |-> Len(data[1]), indices |-> indices,
   slice_input |-> [i \in DOMAIN ids |-> <<9, ids[i]>>], width |-> 2, col |-> 1,
   is_mean |-> is_mean, num_threads |-> num_threads]

Vector(data, indices, ids, is_mean) ==
  [dims |-> 1, data |-> [i \in DOMAIN data |-> <<data[i]>>], embed_dim |-> 1,
   indices |-> indices, slice_input |-> [i \in DOMAIN ids |-> <<ids[i]>>], width |-> 1,
   col |-> 0, is_mean |-> is_mean, num_threads |-> 4]

\* Test2DReduceSum and Test2DReduceMean.
Rows == <<<<1, 2, 3>>, <<4, 0, 6>>, <<7, 8, 9>>, <<0, 0, 0>>, <<1, 1, 1>>>>
Tested(is_mean, num_threads) ==
  Matrix(Rows, <<0, 2, 1, 4, 3>>, <<2, 2, 3, 3, 4>>, is_mean, num_threads)

\* Segments of two, one and no nonzero elements, the second by cancellation.
Sparse == <<<<1, 2>>, <<0, 3>>, <<-1, 4>>, <<0, 0>>>>

MCInputs ==
  {Tested(TRUE, 4), Tested(FALSE, 4), Tested(FALSE, 1),
   Matrix(Sparse, <<0, 1, 2, 0, 3>>, <<0, 1, 2, 2, 5>>, TRUE, 2),
   \* Ids that do not ascend; the second segment is met again.
   Matrix(Sparse, <<3, 0, 1, 2, 1>>, <<4, 2, 7, 2, 0>>, FALSE, 2),
   \* Fewer segments than MinSegments, none, no dimension, all zero.
   Matrix(Sparse, <<0, 1, 2>>, <<0, 0, 3>>, TRUE, 4),
   Matrix(Sparse, <<>>, <<>>, FALSE, 4),
   Matrix(<<<<>>, <<>>>>, <<0, 1, 0>>, <<0, 1, 2>>, TRUE, 4),
   Matrix(Sparse, <<3, 3, 3, 3>>, <<0, 1, 2, 3>>, FALSE, 4),
   \* TestReduceMean, TestReduceSum.
   Vector(<<1, 2, 3, 4, 5, 6, 7, 8>>, <<0, 2, 1>>, <<2, 2, 3>>, TRUE),
   Vector(<<1, -1, 0>>, <<0, 1, 2, 0>>, <<0, 0, 1, 3>>, FALSE),
   \* TestColsOutOfBounds, TestIndicesOutOfBounds.
   [Vector(<<1, 2>>, <<0, 1>>, <<0, 1>>, FALSE) EXCEPT !.col = 1],
   Vector(<<1, 2>>, <<0, 1>>, <<0>>, FALSE)}
=============================================================================
