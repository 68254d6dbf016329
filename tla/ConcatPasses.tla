---------------------------- MODULE ConcatPasses ----------------------------
(***************************************************************************)
(* ANNC's passes over concatenations of tensors (legalize_concat.cc,       *)
(* ConcatOpPatterns.cpp): thlo.concatenate becomes tensor.concat; slices   *)
(* of one tensor that are concatenated side by side are merged; operations *)
(* whose results are concatenated write into the result themselves; what   *)
(* is left is taken apart into insertions.                                 *)
(***************************************************************************)
EXTENDS TensorBlock

Dim(o) == o.attr.dim

\* ConcatenateOpPattern
LegalizeConcat(b, c) == [b EXCEPT !.ops[Position(b, c)].op = "concat"]

------------------------------------------------------------------------------
(* SimplifyTensorConcatOp *)

\* Slices of any strides (a mutant of UnitStrides).
AnyStrides(o) == TRUE

UnitStrides(o) == \A d \in DOMAIN o.attr.stride : o.attr.stride[d] = 1

\* contiguousExtractSlicesInternal
Contiguous(o1, o2, d) == o1.attr.off[d] + o1.attr.size[d] = o2.attr.off[d]

\* v, of the same source, starts in some dimension where u ends.
Follows(b, u, v) ==
  LET o1 == DefiningOp(b, u)
      o2 == DefiningOp(b, v)
  IN  /\ o1.op = "extract_slice" /\ o2.op = "extract_slice"
      /\ o1.in[1] = o2.in[1]
      /\ UnitStrides(o1) /\ UnitStrides(o2)
      /\ \E d \in DOMAIN o1.attr.off : Contiguous(o1, o2, d)

\* Operands in a row each of which follows the one before it, two of them at least.
MergeOpportunities(b, in) ==
  LET Extend(chains, v) ==
        IF chains # <<>> /\ Follows(b, Last(Last(chains)), v)
        THEN Append(Front(chains), Append(Last(chains), v))
        ELSE Append(chains, <<v>>)
  IN  Selected(FoldLeft(Extend, <<>>, in), LAMBDA chain : Len(chain) > 1)

\* The last dimension in which the last two are contiguous.
MergeDim(b, dst) ==
  LET o1 == DefiningOp(b, dst[Len(dst) - 1])
      o2 == DefiningOp(b, Last(dst))
  IN  Max({d \in DOMAIN o1.attr.off : Contiguous(o1, o2, d)})

\* Along one dimension, the sizes of all together.
SizeOfAll(b, dst, d) == FoldLeft(LAMBDA s, v : s + ShapeOf(b, v)[d], 0, dst)

\* Its elements are f32, whatever those of the slices are.
MergedSlice(b, dst, merge_dim) ==
  LET first == DefiningOp(b, dst[1])
      size  == [first.attr.size EXCEPT ![merge_dim] = SizeOfAll(b, dst, merge_dim)]
  IN  Operation("extract_slice", first.in, size, "f32", [first.attr EXCEPT !.size = size])

\* computeReassocIndices: the merge dimension is put together with its neighbour on the side
\* of the concat dimension.
Reassociation(rank, dim, merge_dim) ==
  LET direction == IF dim > merge_dim THEN -1 ELSE 1
      Group(i) == IF i + direction # merge_dim THEN <<i>>
                  ELSE IF direction = 1 THEN <<i, i + 1>> ELSE <<i - 1, i>>
      others == SetToSortSeq(1..rank \ {merge_dim}, <)
  IN  [k \in DOMAIN others |-> Group(others[k])]

\* The last dimension goes, whichever is merged (a mutant of WithoutDim).
WithoutLastDim(shape, d) == Front(shape)

WithoutDim(shape, d) == RemoveAt(shape, d)

\* What the slices dst are replaced by goes in front of c; it is the last one added.
AddMerged(b, c, dst, merge_dim) ==
  LET dim     == Dim(DefiningOp(b, c))
      dtype   == DefiningOp(b, dst[1]).elem
      slice   == MergedSlice(b, dst, merge_dim)
      sliced  == Insert(b, Position(b, c), slice)
      merged  == [ShapeOf(b, dst[1]) EXCEPT ![dim] = SizeOfAll(b, dst, dim)]
      groups  == [groups |-> Reassociation(Len(merged), dim, merge_dim)]
      collapsed == Insert(sliced, Position(sliced, c),
                     Operation("collapse_shape", <<b.next>>, WithoutDim(merged, merge_dim),
                               dtype, groups))
  IN  IF dim = merge_dim THEN sliced
      ELSE Insert(collapsed, Position(collapsed, c),
             Operation("expand_shape", <<b.next + 1>>, merged, dtype, groups))

\* The concatenation keeps its operands (a mutant of RewriteConcatSlices).
AddMergedSlices(b, c, dst) == AddMerged(b, c, dst, MergeDim(b, dst))

\* The merged operand takes the place of the first one of dst, the others go.
RewriteConcatSlices(b, c, dst) ==
  LET added == AddMerged(b, c, dst, MergeDim(b, dst))
      kept  == Selected(DefiningOp(b, c).in, LAMBDA v : v = dst[1] \/ v \notin ToSet(dst))
  IN  SetOperands(added, c, ReplaceAll(kept, dst[1], added.next - 1))

SimplifiesConcat(b, c) == MergeOpportunities(b, DefiningOp(b, c).in) # <<>>

SimplifyConcat(b, c) ==
  DropDead(FoldLeft(LAMBDA acc, dst : RewriteConcatSlices(acc, c, dst), b,
                    MergeOpportunities(b, DefiningOp(b, c).in)))

------------------------------------------------------------------------------
(* ConcatRemoval *)

\* isOperandErasable
Erasable(b, v) ==
  LET o == DefiningOp(b, v)
  IN  o.op \in DestinationStyle /\ DefiningOp(b, DestinationOf(o)).op = "empty"

\* In the order of the operands (a mutant of SortedInputs).
UnsortedInputs(b, in) == in

\* sortedInputs: arguments first, the last one foremost, then by the order of the block.
SortedInputs(b, in) ==
  LET others(sorted, o) ==
        IF o.op = "arg" THEN sorted ELSE sorted \o Selected(in, LAMBDA v : v = o.id)
  IN  Reverse(Selected(in, LAMBDA v : DefiningOp(b, v).op = "arg"))
        \o FoldLeft(others, <<>>, b.ops)

\* computeConcatOffset: the sizes of the operands before the first that is v.
ConcatOffset(b, c, v) ==
  LET o == DefiningOp(b, c)
      idx == SelectInSeq(o.in, LAMBDA u : u = v)
  IN  FoldLeft(LAMBDA off, u : off + ShapeOf(b, u)[Dim(o)], 0, SubSeq(o.in, 1, idx - 1))

\* Where v comes to lie in the result of c.
RegionOf(b, c, v) ==
  Region([d \in DOMAIN ShapeOf(b, v) |-> IF d = Dim(DefiningOp(b, c)) THEN ConcatOffset(b, c, v)
                                         ELSE 0],
         ShapeOf(b, v))

\* acc is [b, at: where the rewriter inserts, last: the result so far].
InsertBehind(acc, p, c, v) ==
  LET o == DefiningOp(acc.b, c)
  IN  [b |-> Insert(acc.b, p, Operation("insert_slice", <<v, acc.last>>, o.shape, o.elem,
                                        RegionOf(acc.b, c, v))),
       at |-> p + 1, last |-> acc.b.next]

\* v's operation gets the part of the result it computes as its init.
Redirect(acc, c, v) ==
  LET o == DefiningOp(acc.b, v)
      region == RegionOf(acc.b, c, v)
      extracted == Insert(acc.b, acc.at,
                     Operation("extract_slice", <<acc.last>>, o.shape, o.elem, region))
  IN  [acc EXCEPT !.b = SetInit(extracted, v, acc.b.next)]

\* Nothing is redirected (a mutant of PlaceOperand).
PlaceCopy(acc, c, v, erasable) ==
  LET of == IF DefiningOp(acc.b, v).op = "arg" THEN acc.last ELSE v
  IN  InsertBehind(acc, Position(acc.b, of) + 1, c, v)

PlaceOperand(acc, c, v, erasable) ==
  LET redirected == Redirect(acc, c, v)
      of == IF DefiningOp(acc.b, v).op = "arg" THEN acc.last ELSE v
  IN  IF erasable THEN InsertBehind(redirected, Position(redirected.b, v) + 1, c, v)
      ELSE InsertBehind(acc, Position(acc.b, of) + 1, c, v)

RemovesConcat(b, c) == Cardinality(Uses(b, c)) = 1

ConcatRemoval(b, c) ==
  LET o == DefiningOp(b, c)
      start == [b |-> Insert(b, Start(b), Operation("empty", <<>>, o.shape, o.elem, <<>>)),
                at |-> Start(b) + 1, last |-> b.next]
      placed == FoldLeft(LAMBDA acc, v : PlaceOperand(acc, c, v, Erasable(b, v)), start,
                         SortedInputs(b, o.in))
  IN  DropDead(ReplaceOp(placed.b, c, placed.last))

------------------------------------------------------------------------------
(* DecomposeTensorConcatOp *)

\* acc is [b, last: the result so far, off: how much of it there is].
InsertNext(b, c, acc, v) ==
  LET o == DefiningOp(b, c)
      s == ShapeOf(b, v)
      region == Region([d \in DOMAIN s |-> IF d = Dim(o) THEN acc.off ELSE 0], s)
  IN  [b |-> Insert(acc.b, Position(acc.b, c),
               Operation("insert_slice", <<v, acc.last>>, o.shape, o.elem, region)),
       last |-> acc.b.next, off |-> acc.off + s[Dim(o)]]

DecomposeConcat(b, c) ==
  LET o == DefiningOp(b, c)
      start == [b |-> Insert(b, Position(b, c),
                             Operation("empty", <<>>, o.shape, o.elem, <<>>)),
                last |-> b.next, off |-> 0]
      filled == FoldLeft(LAMBDA acc, v : InsertNext(b, c, acc, v), start, o.in)
      cast == Insert(filled.b, Position(filled.b, c),
                     Operation("cast", <<filled.last>>, o.shape, o.elem, <<>>))
  IN  DropDead(ReplaceOp(cast, c, filled.b.next))
=============================================================================
