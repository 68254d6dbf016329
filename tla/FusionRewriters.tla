--------------------------- MODULE FusionRewriters ---------------------------
(***************************************************************************)
(* The ten match_and_rewrite functions of graph_opt.cc.  Each one is an    *)
(* operator of a view (graph and index map) and the node the optimizer     *)
(* visits; it returns what the function does to the graph:                 *)
(*   kind "none"   a guard failed and nothing was touched;                 *)
(*   kind "half"   the fused node was added with the inputs "in" and then  *)
(*                 a later guard returned false;                           *)
(*   kind "fused"  the fused node was added with the attributes "attr",    *)
(*                 took the visited node's place, and its output k-1       *)
(*                 replaced the tensor old[k].                             *)
(***************************************************************************)
EXTENDS NodeGraph

NoAttr == <<>>
NoMatch == [kind |-> "none", in |-> <<>>, old |-> <<>>, attr |-> NoAttr]
Half(in) == [kind |-> "half", in |-> in, old |-> <<>>, attr |-> NoAttr]
FusedWith(in, old, attr) == [kind |-> "fused", in |-> in, old |-> old, attr |-> attr]
Fused(in, old) == FusedWith(in, old, NoAttr)

Out(nd, p) == [n |-> nd.name, p |-> p]

IsConcat(nd) == nd.op \in {"Concat", "ConcatV2"} /\ Len(nd.in) = 3
IsSelect(nd) == nd.op \in {"Select", "SelectV2"} /\ Len(nd.in) = 3
IsBatchMatMul(nd) == nd.op \in {"BatchMatMul", "BatchMatMulV2", "BatchMatMulV3"}

\* x[:, k]: the masks of a column slice.
ColumnSlice(nd) ==
  /\ CheckIntAttr(nd, "shrink_axis_mask", 2)
  /\ CheckIntAttr(nd, "begin_mask", 1)
  /\ CheckIntAttr(nd, "end_mask", 1)

\* The constant among two operands, the left one first; NoRef when neither is.
NoRef == [n |-> <<>>, p |-> Control]
ConstOperand(v, nd) ==
  IF IsConst(Arg(v, nd, 0)) THEN nd.in[1]
  ELSE IF IsConst(Arg(v, nd, 1)) THEN nd.in[2]
  ELSE NoRef

SparseDynamicStitch(v, node) ==
  LET inputs == Len(node.in)
      parts  == inputs \div 2
      partition == Arg(v, node, 0)
      range    == Arg(v, partition, 0)
      size     == Arg(v, range, 1)
      cast     == Arg(v, partition, 1)
      floorMod == Arg(v, cast, 0)
      gather(k)   == Arg(v, node, parts + k - 1)
      slot(k)     == Arg(v, gather(k), 1)
      floorDiv(k) == Arg(v, slot(k), 0)
      leftOK ==
        /\ node.op = "ParallelDynamicStitch" /\ inputs % 2 = 0
        /\ Is(partition, "DynamicPartition", 2)
        /\ Is(range, "Range", 3)
        /\ CheckConstValue(Arg(v, range, 0), <<0>>)
        /\ CheckConstValue(Arg(v, range, 2), <<1>>)
        /\ Is(size, "Size", 1)
        /\ Is(cast, "Cast", 1)
        /\ Is(floorMod, "FloorMod", 2)
        /\ CheckConstValue(Arg(v, floorMod, 1), <<parts>>)
        /\ CheckIntAttr(node, "N", parts)
        /\ CheckIntAttr(partition, "num_partitions", parts)
      rightOK(k) ==
        /\ Is(gather(k), "GatherV2", 3)
        /\ CheckConstValue(Arg(v, gather(k), 2), <<0>>)
        /\ Is(slot(k), "DynamicPartition", 2)
        /\ CheckIntAttr(slot(k), "num_partitions", parts)
        /\ Is(floorDiv(k), "FloorDiv", 2)
        /\ CheckConstValue(Arg(v, floorDiv(k), 1), <<parts>>)
      \* The branches the loop accepts before the first that fails.
      good == {k \in 1..parts : \A j \in 1..k : rightOK(j)}
      in   == <<size.in[1]>> \o [k \in 1..Cardinality(good) |-> gather(k).in[1]]
  IN  IF ~leftOK THEN NoMatch
      ELSE IF good # 1..parts THEN Half(in)
      ELSE FusedWith(in, <<Out(node, 0)>>, [N |-> parts])

\* Attribute combiner: 1 for Mean, 0 for Sum.
Combiner(reduce) == [combiner |-> IF reduce.op = "SparseSegmentMean" THEN 1 ELSE 0]

SparseSegmentReduce(v, node) ==
  LET shape == Arg(v, node, 0)
      reduce == Arg(v, shape, 0)
      cast  == Arg(v, reduce, 2)
      slice == Arg(v, cast, 0)
      guard ==
        /\ Is(node, "StridedSlice", 4)
        /\ Is(shape, "Shape", 1)
        /\ Len(reduce.in) = 3 /\ reduce.op \in {"SparseSegmentMean", "SparseSegmentSum"}
        /\ Is(cast, "Cast", 1)
        /\ Is(slice, "StridedSlice", 4)
        /\ CheckConstShape(Arg(v, slice, 1), <<2>>)
        /\ ColumnSlice(slice)
        /\ CheckConstShape(Arg(v, node, 1), <<1>>)
        /\ CheckIntAttr(node, "shrink_axis_mask", 1)
  IN  IF guard
      THEN FusedWith(<<reduce.in[1], reduce.in[2], slice.in[1], slice.in[2], node.in[2]>>,
                     <<Out(reduce, 0), Out(node, 0)>>, Combiner(reduce))
      ELSE NoMatch

\* The slice is looked for below "cast", the consumer of Where, and not below "cast1".
SparseSegmentReduceNonzero(v, node) ==
  LET reduce == Arg(v, node, 0)
      where  == Arg(v, node, 1)
      cast   == GetUser(v, where, "Cast")
      notEqual == Arg(v, where, 0)
      zeros  == Arg(v, notEqual, 1)
      cast1  == Arg(v, reduce, 2)
      slice  == Arg(v, cast, 0)
      shape  == GetUser(v, reduce, "Shape")
      cast2  == GetUser(v, shape, "Cast")
      guard ==
        /\ Is(node, "GatherND", 2)
        /\ Len(reduce.in) = 3 /\ reduce.op \in {"SparseSegmentMean", "SparseSegmentSum"}
        /\ Is(where, "Where", 1)
        /\ cast # NoNode
        /\ Is(notEqual, "NotEqual", 2)
        /\ Is(zeros, "ZerosLike", 1)
        /\ Is(cast1, "Cast", 1)
        /\ Is(slice, "StridedSlice", 4)
        /\ shape # NoNode
        /\ cast2 # NoNode
        /\ CheckConstShape(Arg(v, slice, 1), <<2>>)
        /\ ColumnSlice(slice)
  IN  IF guard
      THEN FusedWith(<<reduce.in[1], reduce.in[2], slice.in[1], slice.in[2]>>,
                     <<Out(cast2, 0), Out(cast, 0), Out(node, 0)>>, Combiner(reduce))
      ELSE NoMatch

\* The first operand of pack, whatever it is (a mutant of PaddingTail).
PaddingTailUnchecked(v, in, pack, old) == Fused(Append(in, pack.in[1]), old)

\* The tail the two padding rewriters share: the fused node gets four inputs and is in the
\* graph before the constant operand of pack is looked for.
PaddingTail(v, in, pack, old) ==
  IF ConstOperand(v, pack) = NoRef THEN Half(in)
  ELSE Fused(Append(in, ConstOperand(v, pack)), old)

EmbeddingPadding(v, node) ==
  LET concat == Arg(v, node, 0)
      fill   == Arg(v, concat, 1)
      pack   == GetOperand(v, fill, "Pack")
      zero   == GetOperand(v, fill, "Const")
      sub    == GetOperand(v, pack, "Sub")
      slice  == Arg(v, sub, 0)
      cast   == Arg(v, slice, 0)
      guard ==
        /\ node.op = "Reshape"
        /\ GetUser(v, node, "ConcatV2") # NoNode
        /\ IsConcat(concat)
        /\ CheckConstValue(Arg(v, concat, 2), <<0>>)
        /\ Is(fill, "Fill", 2)
        /\ pack # NoNode /\ Len(pack.in) = 2
        /\ zero # NoNode /\ CheckConstValue(zero, <<0>>)
        /\ sub # NoNode /\ Len(sub.in) = 2
        /\ Is(slice, "StridedSlice", 4)
        /\ cast.op = "Cast"
  IN  IF guard
      THEN PaddingTail(v, <<cast.in[1], concat.in[1], sub.in[2], node.in[2]>>, pack,
                       <<Out(sub, 0), Out(node, 0)>>)
      ELSE NoMatch

EmbeddingPaddingFast(v, node) ==
  LET shape  == Arg(v, node, 0)
      reshape == Arg(v, shape, 0)
      concat == Arg(v, reshape, 0)
      fill   == Arg(v, concat, 1)
      pack   == Arg(v, fill, 0)
      sub    == Arg(v, pack, 0)
      slice  == Arg(v, sub, 0)
      cast   == Arg(v, slice, 0)
      guard ==
        /\ Is(node, "StridedSlice", 4)
        /\ CheckConstShape(Arg(v, node, 1), <<0>>)
        /\ CheckConstShape(Arg(v, node, 2), <<1>>)
        /\ CheckConstShape(Arg(v, node, 3), <<1>>)
        /\ CheckIntAttr(node, "shrink_axis_mask", 1)
        /\ Is(shape, "Shape", 1)
        /\ Is(reshape, "Reshape", 2)
        /\ IsConcat(concat)
        /\ Is(fill, "Fill", 2)
        /\ Is(pack, "Pack", 2)
        /\ Is(sub, "Sub", 2)
        /\ Is(slice, "StridedSlice", 4)
        /\ cast.op = "Cast"
  IN  IF guard
      THEN PaddingTail(v, <<cast.in[1], concat.in[1], sub.in[2], reshape.in[2]>>, pack,
                       <<Out(sub, 0), Out(node, 0)>>)
      ELSE NoMatch

\* The comparisons whose constants become inputs 4 to 7, in the order the code pushes them.
\* The first without a constant operand returns false, with the fused node in the graph.
SparseSelect(v, node) ==
  LET select0 == Arg(v, node, 0)
      select1 == Arg(v, select0, 2)
      fill    == Arg(v, select1, 1)
      cast    == Arg(v, select1, 2)
      equal   == Arg(v, select1, 0)
      reshape == GetOperand(v, equal, "Reshape")
      greater == Arg(v, cast, 0)
      reshape4 == Arg(v, greater, 0)
      equal1  == Arg(v, select0, 0)
      reshape1 == GetOperand(v, equal1, "Reshape")
      select2 == Arg(v, node, 1)
      equal2  == Arg(v, select2, 0)
      fill1   == Arg(v, select2, 2)
      reshape2 == GetOperand(v, equal2, "Reshape")
      isColumn(r) == CheckConstValue(Arg(v, r, 1), <<-1, 1>>)
      isOnes(f)   == Is(f, "Fill", 2) /\ CheckConstValue(Arg(v, f, 1), <<1>>)
      guard ==
        /\ IsConcat(node)
        /\ IsSelect(select0)
        /\ IsSelect(select1)
        /\ isOnes(fill)
        /\ Is(cast, "Cast", 1)
        /\ Is(equal, "Equal", 2)
        /\ reshape # NoNode
        /\ Is(greater, "Greater", 2)
        /\ Is(reshape4, "Reshape", 2) /\ isColumn(reshape4)
        /\ Is(equal1, "Equal", 2)
        /\ reshape1 # NoNode /\ isColumn(reshape1)
        /\ IsSelect(select2)
        /\ Is(equal2, "Equal", 2)
        /\ isOnes(fill1)
        /\ reshape2 # NoNode /\ isColumn(reshape2)
      compared == <<equal, equal1, equal2, greater>>
      good == {k \in 1..4 : \A j \in 1..k : ConstOperand(v, compared[j]) # NoRef}
      in   == <<reshape.in[1], reshape1.in[1], reshape2.in[1]>>
                \o [k \in 1..Cardinality(good) |-> ConstOperand(v, compared[k])]
  IN  IF ~guard THEN NoMatch
      ELSE IF good # 1..4 THEN Half(in)
      ELSE Fused(in, <<Out(reshape, 0), Out(select0, 0), Out(node, 0)>>)

Gather(v, node) ==
  LET gather  == Arg(v, node, 0)
      unique  == Arg(v, node, 1)
      unique1 == Arg(v, unique, 0)
      slice   == Arg(v, unique1, 0)
      guard ==
        /\ Is(node, "GatherV2", 3) /\ CheckConstValue(Arg(v, node, 2), <<0>>)
        /\ Is(gather, "GatherV2", 3) /\ CheckConstValue(Arg(v, gather, 2), <<0>>)
        /\ Is(unique, "Unique", 1)
        /\ Is(unique1, "Unique", 1)
        /\ slice.op = "StridedSlice" /\ ColumnSlice(slice)
  IN  IF guard
      THEN Fused(<<gather.in[1], slice.in[1], slice.in[2]>>,
                 <<Out(unique1, 0), Out(unique1, 1), Out(node, 0)>>)
      ELSE NoMatch

SparseReshape(v, node) ==
  LET concat   == Arg(v, node, 0)
      reshape  == Arg(v, concat, 1)
      slice    == Arg(v, reshape, 0)
      cast1    == Arg(v, concat, 0)
      reshape1 == Arg(v, cast1, 0)
      range    == Arg(v, reshape1, 0)
      cast     == Arg(v, node, 1)
      pack     == Arg(v, cast, 0)
      slice1   == Arg(v, pack, 0)
      shape    == Arg(v, slice1, 0)
      isColumn(r) == Is(r, "Reshape", 2) /\ CheckConstValue(Arg(v, r, 1), <<-1, 1>>)
      guard ==
        /\ Is(node, "SparseReshape", 3)
        /\ IsConcat(concat) /\ CheckConstValue(Arg(v, concat, 2), <<-1>>)
        /\ isColumn(reshape)
        /\ Is(slice, "StridedSlice", 4) /\ ColumnSlice(slice)
        /\ Is(cast1, "Cast", 1)
        /\ isColumn(reshape1)
        /\ Is(range, "Range", 3)
        /\ CheckConstValue(Arg(v, range, 0), <<0>>)
        /\ CheckConstValue(Arg(v, range, 2), <<1>>)
        /\ Is(cast, "Cast", 1)
        /\ Is(pack, "Pack", 2)
        /\ Is(slice1, "StridedSlice", 4)
        /\ CheckConstValue(Arg(v, slice1, 1), <<0>>)
        /\ CheckConstValue(Arg(v, slice1, 2), <<1>>)
        /\ CheckConstValue(Arg(v, slice1, 3), <<1>>)
        /\ CheckIntAttr(slice1, "shrink_axis_mask", 1)
        /\ Is(shape, "Shape", 1)
  IN  IF guard
      THEN Fused(<<shape.in[1], slice.in[2], node.in[3], pack.in[2]>>,
                 <<Out(node, 0), Out(node, 1)>>)
      ELSE NoMatch

EmbeddingActionIdGather(v, node) ==
  LET reshape == Arg(v, node, 0)
      gather  == Arg(v, reshape, 0)
      pack1   == Arg(v, reshape, 1)
      gather1 == Arg(v, gather, 0)
      fill    == Arg(v, node, 1)
      pack    == Arg(v, fill, 0)
      guard ==
        /\ IsConcat(node) /\ CheckConstValue(Arg(v, node, 2), <<-1>>)
        /\ Is(reshape, "Reshape", 2)
        /\ Is(pack1, "Pack", 2) /\ CheckConstValue(Arg(v, pack1, 1), <<-1>>)
        /\ Is(gather, "GatherV2", 3) /\ CheckConstValue(Arg(v, gather, 2), <<0>>)
        /\ Is(gather1, "GatherV2", 3) /\ CheckConstValue(Arg(v, gather1, 2), <<0>>)
        /\ Is(fill, "Fill", 2) /\ CheckConstValue(Arg(v, fill, 1), <<0>>)
        /\ Is(pack, "Pack", 2)
  IN  IF guard
      THEN Fused(<<gather1.in[2], gather1.in[1], gather.in[2], pack.in[1], pack.in[2]>>,
                 <<Out(node, 0)>>)
      ELSE NoMatch

\* The bias is taken to be the second summand (a mutant of BatchMatMulAddSigmoid).
ProductFirst(v, node) ==
  LET add == Arg(v, node, 0)
      m   == IF IsBatchMatMul(Arg(v, add, 0)) THEN 0 ELSE 1
      matmul == Arg(v, add, m)
  IN  IF /\ Is(node, "Sigmoid", 1)
         /\ Is(add, "AddV2", 2)
         /\ IsBatchMatMul(matmul) /\ Len(matmul.in) = 2
      THEN Fused(<<matmul.in[1], matmul.in[2], add.in[2]>>, <<Out(node, 0)>>)
      ELSE NoMatch

BatchMatMulAddSigmoid(v, node) ==
  LET add == Arg(v, node, 0)
      m   == IF IsBatchMatMul(Arg(v, add, 0)) THEN 0 ELSE 1
      matmul == Arg(v, add, m)
      guard ==
        /\ Is(node, "Sigmoid", 1)
        /\ Is(add, "AddV2", 2)
        /\ IsBatchMatMul(matmul) /\ Len(matmul.in) = 2
  IN  IF guard
      THEN Fused(<<matmul.in[1], matmul.in[2], add.in[2 - m]>>, <<Out(node, 0)>>)
      ELSE NoMatch

------------------------------------------------------------------------------
(* PatternRewriter::match_and_rewrite, by the op the rewriter's name() gives the fused node. *)
MatchAndRewrite(op, v, node) ==
  CASE op = "KPFusedSparseDynamicStitch"        -> SparseDynamicStitch(v, node)
    [] op = "KPFusedSparseSegmentReduce"        -> SparseSegmentReduce(v, node)
    [] op = "KPFusedSparseSegmentReduceNonzero" -> SparseSegmentReduceNonzero(v, node)
    [] op = "KPFusedEmbeddingPadding"           -> EmbeddingPadding(v, node)
    [] op = "KPFusedEmbeddingPaddingFast"       -> EmbeddingPaddingFast(v, node)
    [] op = "KPFusedSparseSelect"               -> SparseSelect(v, node)
    [] op = "KPFusedGather"                     -> Gather(v, node)
    [] op = "KPFusedSparseReshape"              -> SparseReshape(v, node)
    [] op = "KPFusedEmbeddingActionIdGather"    -> EmbeddingActionIdGather(v, node)
    [] op = "KPFusedBatchMatMulAddSigmoid"      -> BatchMatMulAddSigmoid(v, node)
    [] OTHER                                    -> NoMatch

\* The number of inputs REGISTER_OP declares for each fused op, n being the attribute N.
RegisteredInputs(op, n) ==
  CASE op = "KPFusedSparseDynamicStitch"        -> 1 + n
    [] op = "KPFusedSparseSegmentReduce"        -> 5
    [] op = "KPFusedSparseSegmentReduceNonzero" -> 4
    [] op \in {"KPFusedEmbeddingPadding", "KPFusedEmbeddingPaddingFast"} -> 5
    [] op = "KPFusedSparseSelect"               -> 7
    [] op = "KPFusedGather"                     -> 3
    [] op = "KPFusedSparseReshape"              -> 4
    [] op = "KPFusedEmbeddingActionIdGather"    -> 5
    [] op = "KPFusedBatchMatMulAddSigmoid"      -> 3

FusedOps == {"KPFusedSparseDynamicStitch", "KPFusedSparseSegmentReduce",
             "KPFusedSparseSegmentReduceNonzero", "KPFusedEmbeddingPadding",
             "KPFusedEmbeddingPaddingFast", "KPFusedSparseSelect", "KPFusedGather",
             "KPFusedSparseReshape", "KPFusedEmbeddingActionIdGather",
             "KPFusedBatchMatMulAddSigmoid"}
=============================================================================
