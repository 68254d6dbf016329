---------------------------- MODULE GraphSemantics ----------------------------
(***************************************************************************)
(* What a graph computes, as terms: the term of a tensor is the op, port,  *)
(* attributes and argument terms that produce it.  A fused node stands for *)
(* the expression its kernel in annc/tensorflow/kernels evaluates, written *)
(* over the ops the kernel replaces, so that two graphs compute the same   *)
(* tensor when their terms are equal.  Element types, and the run-time     *)
(* checks by which a kernel refuses its inputs, are left out.              *)
(***************************************************************************)
EXTENDS NodeGraph

Term(op, port, attr, data, args) ==
  [op |-> op, port |-> port, attr |-> attr, data |-> data, args |-> args]

Lit(data) == Term("Const", 0, <<>>, data, <<>>)

(* Laws of TensorFlow's ops, applied once every argument is in normal form. *)
Normal(t) ==
  \* x[:, k] and x[k] do not depend on the end and the stride of the axis they shrink.
  IF t.op = "StridedSlice" /\ "shrink_axis_mask" \in DOMAIN t.attr
  THEN [t EXCEPT !.args = SubSeq(t.args, 1, 2)]
  \* Unique: (values[positions]) is the input, so gathering by one and then the other is
  \* gathering by the input.
  ELSE IF /\ t.op = "GatherV2" /\ t.args[1].op = "GatherV2"
          /\ t.args[2].op = "Unique" /\ t.args[2].port = 1
          /\ t.args[1].args[2] = [t.args[2] EXCEPT !.port = 0]
  THEN [t EXCEPT !.args[1] = t.args[1].args[1], !.args[2] = t.args[2].args[1]]
  \* A product is written as the first summand.
  ELSE IF t.op = "AddV2" /\ t.args[2].op = "BatchMatMulV2" /\ t.args[1].op # "BatchMatMulV2"
  THEN [t EXCEPT !.args = <<t.args[2], t.args[1]>>]
  \* A choice between equal values is no choice.
  ELSE IF t.op = "Select" /\ t.args[2] = t.args[3]
  THEN t.args[2]
  ELSE t

Op(op, args) == Normal(Term(op, 0, <<>>, <<>>, args))
OpPort(op, p, args) == Normal(Term(op, p, <<>>, <<>>, args))

Column(x, begin) ==
  Normal(Term("StridedSlice", 0, [shrink_axis_mask |-> 2, begin_mask |-> 1, end_mask |-> 1],
              <<>>, <<x, begin>>))
Element(x, begin) ==
  Normal(Term("StridedSlice", 0, [shrink_axis_mask |-> 1], <<>>, <<x, begin>>))

Ones(like) == Op("Fill", <<Op("Shape", <<like>>), Lit(<<1>>)>>)

(* The kernels: output p of the fused node nd on arguments a. *)
KPFusedSparseDynamicStitch(a) ==
  LET parts == Len(a) - 1
      table == Op("Cast", <<Op("FloorMod", <<a[1], Lit(<<parts>>)>>)>>)
      split(x, k) == Normal(Term("DynamicPartition", k - 1, [num_partitions |-> parts],
                                 <<>>, <<x, table>>))
      where == Op("Range", <<Lit(<<0>>), Op("Size", <<a[1]>>), Lit(<<1>>)>>)
      row   == Op("FloorDiv", <<a[1], Lit(<<parts>>)>>)
  IN  Normal(Term("ParallelDynamicStitch", 0, [N |-> parts], <<>>,
        [k \in 1..2 * parts |->
           IF k <= parts THEN split(where, k)
           ELSE Op("GatherV2", <<a[k - parts + 1], split(row, k - parts), Lit(<<0>>)>>)]))

KPFusedSparseSegmentReduce(nd, p, a) ==
  LET op == IF nd.attr["combiner"] = 1 THEN "SparseSegmentMean" ELSE "SparseSegmentSum"
      reduced == Op(op, <<a[1], a[2], Op("Cast", <<Column(a[3], a[4])>>)>>)
  IN  IF p = 0 THEN reduced ELSE Element(Op("Shape", <<reduced>>), a[5])

KPFusedEmbeddingPadding(fast, p, a) ==
  LET rows   == Op("Sub", <<Element(Op("Cast", <<a[1]>>), Lit(<<0>>)), a[3]>>)
      fill   == Op("Fill", <<Op("Pack", <<rows, a[5]>>), Lit(<<0>>)>>)
      padded == Op("Reshape", <<Op("ConcatV2", <<a[2], fill, Lit(<<0>>)>>), a[4]>>)
  IN  IF p = 0 THEN rows
      ELSE IF fast THEN Element(Op("Shape", <<padded>>), Lit(<<0>>)) ELSE padded

\* The arguments by the names REGISTER_OP gives them; equal3 and input_c are not used.
KPFusedSparseSelect(p, a) ==
  LET col(x)  == Op("Reshape", <<x, Lit(<<-1, 1>>)>>)
      inA     == col(a[1])
      inB     == col(a[2])
      greater == a[4]
      equal1  == a[5]
      equal2  == a[6]
      ones    == Ones(inA)
      above   == Op("Cast", <<Op("Greater", <<inA, greater>>)>>)
      first   == Op("Select", <<Op("Equal", <<inB, equal1>>), ones, above>>)
      second  == Op("Select", <<Op("Equal", <<inB, equal2>>), ones, first>>)
  IN  IF p = 0 THEN inA
      ELSE IF p = 1 THEN second
      ELSE Op("ConcatV2", <<second, ones, Lit(<<-1>>)>>)

KPFusedGather(p, a) ==
  LET keys == Column(a[2], a[3])
  IN  IF p \in {0, 1} THEN OpPort("Unique", p, <<keys>>)
      ELSE Op("GatherV2", <<a[1], OpPort("Unique", 0, <<keys>>), Lit(<<0>>)>>)

KPFusedSparseReshape(p, a) ==
  LET col(x) == Op("Reshape", <<x, Lit(<<-1, 1>>)>>)
      rows   == Element(Op("Shape", <<a[1]>>), Lit(<<0>>))
      index  == Op("Cast", <<col(Op("Range", <<Lit(<<0>>), rows, Lit(<<1>>)>>))>>)
      pairs  == Op("ConcatV2", <<index, col(Column(a[1], a[2])), Lit(<<-1>>)>>)
      shape  == Op("Cast", <<Op("Pack", <<rows, a[4]>>)>>)
  IN  OpPort("SparseReshape", p, <<pairs, shape, a[3]>>)

KPFusedEmbeddingActionIdGather(a) ==
  LET rows == Op("GatherV2", <<Op("GatherV2", <<a[2], a[1], Lit(<<0>>)>>), a[3], Lit(<<0>>)>>)
      left == Op("Reshape", <<rows, Op("Pack", <<a[4], Lit(<<-1>>)>>)>>)
  IN  Op("ConcatV2", <<left, Op("Fill", <<Op("Pack", <<a[4], a[5]>>), Lit(<<0>>)>>),
                       Lit(<<-1>>)>>)

KPFusedBatchMatMulAddSigmoid(a) ==
  Op("Sigmoid", <<Op("AddV2", <<Op("BatchMatMulV2", <<a[1], a[2]>>), a[3]>>)>>)

Evaluate(nd, p, a) ==
  CASE nd.op = "KPFusedSparseDynamicStitch"     -> KPFusedSparseDynamicStitch(a)
    [] nd.op = "KPFusedSparseSegmentReduce"     -> KPFusedSparseSegmentReduce(nd, p, a)
    [] nd.op = "KPFusedEmbeddingPadding"        -> KPFusedEmbeddingPadding(FALSE, p, a)
    [] nd.op = "KPFusedEmbeddingPaddingFast"    -> KPFusedEmbeddingPadding(TRUE, p, a)
    [] nd.op = "KPFusedSparseSelect"            -> KPFusedSparseSelect(p, a)
    [] nd.op = "KPFusedGather"                  -> KPFusedGather(p, a)
    [] nd.op = "KPFusedSparseReshape"           -> KPFusedSparseReshape(p, a)
    [] nd.op = "KPFusedEmbeddingActionIdGather" -> KPFusedEmbeddingActionIdGather(a)
    [] nd.op = "KPFusedBatchMatMulAddSigmoid"   -> KPFusedBatchMatMulAddSigmoid(a)
    [] nd.op = "Input" -> Term("Input", p, [name |-> nd.name], <<>>, <<>>)
    [] OTHER -> Normal(Term(nd.op, p, nd.attr, nd.val.data, a))

Producer(g, n) == CHOOSE i \in DOMAIN g : g[i].name = n

\* The term of a tensor of an acyclic graph, and those of a sequence of tensors.
RECURSIVE Value(_, _)
RECURSIVE Values(_, _)
Value(g, ref) ==
  LET nd   == g[Producer(g, ref.n)]
      data == SelectSeq(nd.in, LAMBDA r : r.p # Control)
  IN  Evaluate(nd, ref.p, Values(g, data))
Values(g, refs) ==
  IF refs = <<>> THEN <<>> ELSE <<Value(g, Head(refs))>> \o Values(g, Tail(refs))
=============================================================================
