--------------------------- MODULE MCGraphOptimizer ---------------------------
(***************************************************************************)
(* Instances of GraphOptimizer for TLC.  The items are the subgraphs the   *)
(* ten rewriters look for, as TensorFlow's embedding columns build them,   *)
(* joined where a model joins them, and the same subgraphs with one thing  *)
(* changed that a rewriter must notice.                                    *)
(***************************************************************************)
EXTENDS GraphOptimizer, GraphSemantics

CONSTANTS
  Unverified  \* fused ops whose kernels are not compared with the pattern

T(n) == [n |-> <<n>>, p |-> 0]
Port(n, p) == [n |-> <<n>>, p |-> p]

NodeWith(n, op, attr, in) ==
  [name |-> <<n>>, op |-> op, attr |-> attr, in |-> in, val |-> NoTensor]
Nd(n, op, in) == NodeWith(n, op, <<>>, in)
Input(n) == Nd(n, "Input", <<>>)
Tensor(n, dims, data) ==
  [name |-> <<n>>, op |-> "Const", attr |-> <<>>, in |-> <<>>,
   val |-> [dims |-> dims, data |-> data]]
Scalar(n, x) == Tensor(n, <<>>, <<x>>)
Vec(n, data) == Tensor(n, <<Len(data)>>, data)
ColumnOf(n, x, begin) ==
  NodeWith(n, "StridedSlice", [shrink_axis_mask |-> 2, begin_mask |-> 1, end_mask |-> 1],
           <<T(x), T(begin), T("from1"), T("step")>>)
ElementOf(n, x) ==
  NodeWith(n, "StridedSlice", [shrink_axis_mask |-> 1],
           <<T(x), T("first"), T("second"), T("step")>>)

Consts ==
  <<Scalar("zero", 0), Scalar("one", 1), Scalar("minus", -1), Scalar("dim", 8),
    Vec("column", <<-1, 1>>), Vec("first", <<0>>), Vec("second", <<1>>), Vec("step", <<1>>),
    Vec("from0", <<0, 0>>), Vec("from1", <<0, 1>>)>>

\* safe_embedding_lookup_sparse: unique ids, gathered rows, reduced by segment, padded.
Lookup ==
  <<Input("keys"), Input("table"),
    ColumnOf("ids", "keys", "from1"), Nd("unique1", "Unique", <<T("ids")>>),
    Nd("unique", "Unique", <<T("unique1")>>),
    Nd("rows", "GatherV2", <<T("table"), T("unique"), T("zero")>>),
    Nd("embedded", "GatherV2", <<T("rows"), Port("unique", 1), T("zero")>>),
    ColumnOf("owner", "keys", "from0"), Nd("segments", "Cast", <<T("owner")>>)>>
Reduced(op) ==
  <<Nd("reduced", op, <<T("embedded"), Port("unique1", 1), T("segments")>>),
    Nd("shape", "Shape", <<T("reduced")>>), ElementOf("pooled", "shape")>>
Padded(dim) ==
  <<Input("origin"), Nd("origin32", "Cast", <<T("origin")>>), ElementOf("batch", "origin32"),
    Nd("missing", "Sub", <<T("batch"), T("pooled")>>),
    Nd("dims", "Pack", <<T("missing"), T(dim)>>), Nd("fill", "Fill", <<T("dims"), T("zero")>>),
    Nd("joined", "ConcatV2", <<T("reduced"), T("fill"), T("zero")>>),
    Vec("fold", <<-1, 16>>), Nd("padded", "Reshape", <<T("joined"), T("fold")>>),
    Nd("paddedShape", "Shape", <<T("padded")>>), ElementOf("paddedRows", "paddedShape"),
    Input("dense"), Nd("features", "ConcatV2", <<T("padded"), T("dense"), T("one")>>)>>

Stitch(divisor) ==
  <<Input("x"), Scalar("two", 2), Scalar("three", 3),
    Nd("count", "Size", <<T("x")>>), Nd("range", "Range", <<T("zero"), T("count"), T("one")>>),
    Nd("mod", "FloorMod", <<T("x"), T("two")>>), Nd("table_of", "Cast", <<T("mod")>>),
    Nd("div", "FloorDiv", <<T("x"), T(divisor)>>),
    NodeWith("where", "DynamicPartition", [num_partitions |-> 2], <<T("range"), T("table_of")>>),
    NodeWith("which", "DynamicPartition", [num_partitions |-> 2], <<T("div"), T("table_of")>>),
    Input("t0"), Input("t1"),
    Nd("g0", "GatherV2", <<T("t0"), T("which"), T("zero")>>),
    Nd("g1", "GatherV2", <<T("t1"), Port("which", 1), T("zero")>>),
    NodeWith("stitch", "ParallelDynamicStitch", [N |-> 2],
             <<T("where"), Port("where", 1), T("g0"), T("g1")>>),
    Nd("user", "Identity", <<T("stitch")>>)>>

Select(bound) ==
  <<Input("x"), Nd("rx", "Reshape", <<T("x"), T("column")>>), Input("limit"),
    Scalar("c1", 11), Scalar("c2", 12), Scalar("c3", 13), Scalar("c4", 14),
    Nd("is1", "Equal", <<T("rx"), T("c1")>>), Nd("above", "Greater", <<T("rx"), T(bound)>>),
    Nd("cast", "Cast", <<T("above")>>), Nd("sx", "Shape", <<T("rx")>>),
    Nd("ones", "Fill", <<T("sx"), T("one")>>),
    Nd("inner", "Select", <<T("is1"), T("ones"), T("cast")>>),
    Nd("is2", "Equal", <<T("rx"), T("c2")>>),
    Nd("outer", "Select", <<T("is2"), T("ones"), T("inner")>>),
    Nd("is3", "Equal", <<T("rx"), T("c3")>>),
    Nd("right", "Select", <<T("is3"), T("ones"), T("ones")>>),
    Nd("pair", "ConcatV2", <<T("outer"), T("right"), T("minus")>>),
    Nd("user", "Identity", <<T("pair")>>)>>

ToSparse ==
  <<Input("keys"), Input("to"), Nd("shape", "Shape", <<T("keys")>>), ElementOf("n", "shape"),
    Nd("range", "Range", <<T("zero"), T("n"), T("one")>>),
    Nd("rr", "Reshape", <<T("range"), T("column")>>), Nd("index", "Cast", <<T("rr")>>),
    ColumnOf("ids", "keys", "from1"), Nd("ri", "Reshape", <<T("ids"), T("column")>>),
    Nd("pairs", "ConcatV2", <<T("index"), T("ri"), T("minus")>>),
    Nd("sizes", "Pack", <<T("n"), T("dim")>>), Nd("dense", "Cast", <<T("sizes")>>),
    Nd("sparse", "SparseReshape", <<T("pairs"), T("dense"), T("to")>>),
    Nd("indices", "Identity", <<T("sparse")>>), Nd("dense2", "Identity", <<Port("sparse", 1)>>)>>

ActionId ==
  <<Input("ids"), Input("params"), Input("more"), Input("batch"),
    Nd("g1", "GatherV2", <<T("params"), T("ids"), T("zero")>>),
    Nd("g", "GatherV2", <<T("g1"), T("more"), T("zero")>>),
    Nd("flat", "Pack", <<T("batch"), T("minus")>>), Nd("rows", "Reshape", <<T("g"), T("flat")>>),
    Nd("dims", "Pack", <<T("batch"), T("dim")>>), Nd("fill", "Fill", <<T("dims"), T("zero")>>),
    Nd("padded", "ConcatV2", <<T("rows"), T("fill"), T("minus")>>),
    Nd("user", "Identity", <<T("padded")>>)>>

Sigmoid(summands) ==
  <<Input("a"), Input("b"), Input("bias"), Nd("product", "BatchMatMulV2", <<T("a"), T("b")>>),
    Nd("sum", "AddV2", summands), Nd("sigmoid", "Sigmoid", <<T("sum")>>),
    Nd("user", "Identity", <<T("sigmoid")>>),
    Nd("after", "NoOp", <<Port("sigmoid", Control)>>)>>

Nonzero ==
  <<Nd("zeros", "ZerosLike", <<T("reduced")>>), Nd("filled", "NotEqual", <<T("reduced"), T("zeros")>>),
    Nd("where", "Where", <<T("filled")>>), Nd("at", "Cast", <<T("where")>>),
    Nd("size", "Cast", <<T("shape")>>), Nd("values", "GatherND", <<T("reduced"), T("where")>>)>>

Item(nodes, fetched) == [nodes |-> nodes, fetch |-> {<<n>> : n \in fetched}]

Embedding(op, dim) ==
  Item(Consts \o Lookup \o Reduced(op) \o Padded(dim), {"features", "paddedRows"})

\* Nothing outside the pattern reads what the fused node replaces.
SoundItems ==
  {Embedding("SparseSegmentMean", "dim"), Embedding("SparseSegmentSum", "dim"),
   Item(Consts \o Stitch("two"), {"user"}),
   Item(Consts \o ToSparse, {"indices", "dense2"}),
   Item(Consts \o ActionId, {"user"}),
   Item(Consts \o Lookup \o Reduced("SparseSegmentMean") \o Nonzero, {"values", "at", "size"}),
   Item(Consts \o Sigmoid(<<T("product"), T("bias")>>), {"user"}),
   Item(Consts \o Sigmoid(<<T("bias"), T("product")>>), {"user"})}

\* A node that is fetched, or awaited by a control edge, and read as well outlives its fusion.
SurvivingItems ==
  {Item(Consts \o Sigmoid(<<T("product"), T("bias")>>), {"user", "sigmoid"}),
   Item(Consts \o Sigmoid(<<T("product"), T("bias")>>), {"user", "after"}),
   Item(Consts \o Lookup \o Reduced("SparseSegmentMean"), {"pooled", "reduced"})}

\* The last operand a rewriter looks at is not the constant it needs.
HalfItems ==
  {Embedding("SparseSegmentMean", "batch"), Item(Consts \o Stitch("three"), {"user"}),
   Item(Consts \o Select("limit"), {"user"})}

SelectItems == {Item(Consts \o Select("c4"), {"user"})}

AllItems == SoundItems \cup SurvivingItems \cup HalfItems \cup SelectItems

MCEnvironments ==
  {[all |-> TRUE, on |-> {}], [all |-> TRUE, on |-> NotInAll],
   [all |-> FALSE, on |-> {"KPFusedEmbeddingPadding", "KPFusedGather"}]}
EverythingOn == {[all |-> TRUE, on |-> NotInAll]}

\* The fetches compute, at every moment of a pass, what they computed in the graph the pass
\* was given.
ValuePreserved ==
  start # <<>> /\ ({graph[i].op : i \in DOMAIN graph} \cap Unverified = {}) =>
    \A n \in fetch : LET ref == [n |-> n, p |-> 0]
                     IN  Value(graph, ref) = Value(start, ref)
=============================================================================
