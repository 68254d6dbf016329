----------------------------- MODULE HloSemantics -----------------------------
(***************************************************************************)
(* What a computation computes: XLA's operations, and the kernels that     *)
(* ANNC's custom calls name, on small integers.  A tensor is a function of *)
(* the row-major offsets of its elements.                                  *)
(***************************************************************************)
EXTENDS Hlo, LayoutPacking, TLC

\* Quotients and exponentials only need to tell their arguments apart: x / y to four digits,
\* and e^x as a power of two, for the x from -12 on that a softmax meets here.
Quot(x, y) == IF y = 0 THEN Garbage ELSE (x * 5040) \div y
Exp(x) == 2 ^ (12 + x)
MaxOf2(x, y) == IF x > y THEN x ELSE y

Truth(b) == IF b THEN 1 ELSE 0

Elementwise(op, attr, x) ==
  CASE op = "Multiply" -> x[1] * x[2]
    [] op = "Add"      -> x[1] + x[2]
    [] op = "Subtract" -> x[1] - x[2]
    [] op = "Divide"   -> Quot(x[1], x[2])
    [] op = "Maximum"  -> MaxOf2(x[1], x[2])
    [] op = "Exp"      -> Exp(x[1])
    [] op = "Convert"  -> x[1]
    [] op = "And"      -> x[1] * x[2]
    [] op = "Select"   -> IF x[1] = 1 THEN x[2] ELSE x[3]
    [] op = "Compare"  -> Truth(CASE attr.dir = "Ge" -> x[1] >= x[2]
                                  [] attr.dir = "Gt" -> x[1] > x[2]
                                  [] attr.dir = "Lt" -> x[1] < x[2]
                                  [] attr.dir = "Eq" -> x[1] = x[2])

\* Rows of a table; indices are clamped to it.
Gathered(ins, shapes, s, o) ==
  LET width == shapes[1][2]
      index == ins[2][o \div width]
      row   == IF index < 0 THEN 0 ELSE IF index >= shapes[1][1] THEN shapes[1][1] - 1 ELSE index
  IN  ins[1][row * width + (o % width)]

\* A dot of matrices, or of a batch of them; lc and rc are the contracting dimensions.
Dotted(attr, ins, shapes, s, o) ==
  LET rank == Len(s)
      At(shape, contracting, free, k) ==
        OffsetOf(shape, [d \in DOMAIN s |-> IF d = contracting THEN k
                                            ELSE IF d < rank - 1 THEN Coord(s, o, d)
                                            ELSE Coord(s, o, free)])
  IN  Sum(LAMBDA k : ins[1][At(shapes[1], attr.lc, rank - 1, k)]
                       * ins[2][At(shapes[2], attr.rc, rank, k)],
          0..shapes[1][attr.lc] - 1)

Reducing(fn, init, tensor, offsets) ==
  IF fn = "Add" THEN init + Sum(LAMBDA p : tensor[p], offsets)
  ELSE FoldSet(LAMBDA p, acc : MaxOf2(acc, tensor[p]), init, offsets)

InstrElement(instr, ins, shapes, o) ==
  LET s == instr.shape
      a == instr.attr
      kept == SetToSortSeq(DOMAIN shapes[1] \ a.dims, <)
  IN  CASE instr.op = "Constant"    -> a.data[o + 1]
        [] instr.op = "Broadcast"   ->
             ins[1][OffsetOf(shapes[1], [d \in DOMAIN a.dims |-> Coord(s, o, a.dims[d])])]
        [] instr.op = "Reshape"     -> ins[1][o]
        [] instr.op = "Concatenate" -> Concatenated(a.dim, ins, shapes, s, o)
        [] instr.op = "Slice"       ->
             ins[1][OffsetOf(shapes[1], [d \in DOMAIN s |-> Coord(s, o, d) + a.starts[d]])]
        [] instr.op = "Gather"      -> Gathered(ins, shapes, s, o)
        [] instr.op = "Dot"         -> Dotted(a, ins, shapes, s, o)
        [] instr.op = "Reduce"      ->
             Reducing(a.fn, ins[2][0], ins[1],
               {p \in Offsets(shapes[1]) :
                  \A k \in DOMAIN kept : Coord(shapes[1], p, kept[k]) = Coord(s, o, k)})
        [] instr.op = "ReduceWindow" ->
             Reducing(a.fn, ins[2][0], ins[1],
               {p \in Offsets(shapes[1]) : \A d \in DOMAIN s :
                  Coord(shapes[1], p, d) + a.low[d] - Coord(s, o, d) * a.stride[d]
                    \in 0..a.size[d] - 1})
        [] OTHER -> Elementwise(instr.op, a, [k \in DOMAIN ins |-> ins[k][o]])

------------------------------------------------------------------------------
(* The kernels, on in[0], in[1], ... as in[1], in[2], ...: element o of the output. *)

Read(buffer, o) == IF o \in DOMAIN buffer THEN buffer[o] ELSE Garbage

\* cblas_sgemm, row-major and untransposed, over k; a and b say how the operands are read.
Gemm(k, n, a(_), b(_), o) ==
  Sum(LAMBDA l : a((o \div n) * k + l) * b(l * n + (o % n)), 0..k - 1)

Matmul(in, o) ==
  LET m == in[3][0]  k == in[3][1]  n == in[4][1]
  IN  IF o >= m * n THEN Garbage
      ELSE Gemm(k, n, LAMBDA p : Read(in[1], p), LAMBDA p : Read(in[2], p), o)

\* __layout_matmul: kp_sgemm reads the right operand in the order of kn4; place is where each
\* of its elements is then.
Kn4Place(in) ==
  LET order == Packing(<<in[3][1], in[4][1]>>, "kn4")
  IN  [p \in 0..Len(order) - 1 |-> (CHOOSE q \in DOMAIN order : order[q] = p) - 1]

LayoutMatmul(in, place, o) ==
  LET m == in[3][0]  k == in[3][1]  n == in[4][1]
  IN  IF o >= m * n THEN Garbage
      ELSE Gemm(k, n, LAMBDA p : Read(in[1], p), LAMBDA p : Read(in[2], place[p]), o)

BatchMatmul(in, o) ==
  LET batch == in[3][0]  m == in[3][1]  k == in[3][2]  n == in[4][2]
      i == o \div (m * n)
  IN  IF i >= batch THEN Garbage
      ELSE Gemm(k, n, LAMBDA p : Read(in[1], i * m * k + p),
                LAMBDA p : Read(in[2], i * k * n + p), o % (m * n))

\* The shapes of lhs and rhs follow those of the other operands.
MatmulAdd(in, o) ==
  LET m == in[5][0]  k == in[5][1]  n == in[6][1]
  IN  IF o >= m * n THEN Garbage
      ELSE Read(in[1], o)
             + Gemm(k, n, LAMBDA p : Read(in[2], p), LAMBDA p : Read(in[3], p), o)

\* max_val, in[0], is not looked at.
MatmulAddRelu(in, o) ==
  LET m == in[7][0]  k == in[7][1]  n == in[8][1]
  IN  IF o >= m * n THEN Garbage
      ELSE MaxOf2(0, Read(in[2], o)
             + Gemm(k, n, LAMBDA p : Read(in[3], p), LAMBDA p : Read(in[4], p), o))

\* __pooling: the mean of the rows whose arg is positive, zero if there is none.
Pooling(in, o) ==
  LET k == in[5][1]  n == in[6][2]
      starts == in[3]  limits == in[4]
      i == o \div n   j == o % n
      cond_0(p) == Read(in[1], i * k + p) > 0
      red_1 == Cardinality({p \in 0..k - 1 : cond_0(p)})
      sliced == {p \in 0..k - 1 : /\ starts[0] <= i /\ i < limits[0]
                                  /\ starts[1] <= p /\ p < limits[1]
                                  /\ starts[2] <= j /\ j < limits[2] /\ cond_0(p)}
  IN  IF red_1 = 0 THEN 0
      ELSE Quot(Sum(LAMBDA p : Read(in[2], i * k * n + p * n + j), sliced), red_1)

\* __xla_cpu_runtime_XnnPackSoftMaxND: rows of as many channels as the last dimension has.
XnnPackSoftMax(in, shape, o) ==
  LET channels == shape[Len(shape)]
      row == {(o \div channels) * channels + p : p \in 0..channels - 1}
      top == FoldSet(LAMBDA p, acc : MaxOf2(acc, in[1][p]), in[1][o], row)
  IN  Quot(Exp(in[1][o] - top), Sum(LAMBDA p : Exp(in[1][p] - top), row))

CallTensor(instr, ins) ==
  LET target == instr.attr.target
      place  == Kn4Place(ins)
      Element(o) ==
        CASE target = "__matmul"          -> Matmul(ins, o)
          [] target = "__layout_matmul"   -> LayoutMatmul(ins, place, o)
          [] target = "__batch_matmul"    -> BatchMatmul(ins, o)
          [] target = "__matmul_add"      -> MatmulAdd(ins, o)
          [] target = "__matmul_add_relu" -> MatmulAddRelu(ins, o)
          [] target = "__pooling"         -> Pooling(ins, o)
          [] target = "__xnnpack$softmax" -> XnnPackSoftMax(ins, instr.shape, o)
  IN  Whole([o \in Offsets(instr.shape) |-> Element(o)])

------------------------------------------------------------------------------

\* The tensors of all instructions, from those known, in rounds of those whose operands are
\* there.  A fusion is its body on its operands.
RECURSIVE Tensors(_, _, _)
Tensors(instrs, shapes, known) ==
  LET Tensor(instr, ins, in_shapes) ==
        CASE instr.op = "Fusion" ->
               Tensors(instr.attr.body,
                       [p \in ToSet(instr.attr.params) |->
                          in_shapes[SelectInSeq(instr.attr.params, LAMBDA q : q = p)]],
                       [p \in ToSet(instr.attr.params) |->
                          ins[SelectInSeq(instr.attr.params, LAMBDA q : q = p)]])
                 [instr.attr.root]
          [] instr.op = "CustomCall" -> CallTensor(instr, ins)
          [] OTHER -> Whole([o \in Offsets(instr.shape) |->
                                InstrElement(instr, ins, in_shapes, o)])
      ShapeOf(i) == IF i \in DOMAIN instrs THEN instrs[i].shape ELSE shapes[i]
      round[k \in 0..Cardinality(DOMAIN instrs)] ==
        IF k = 0 THEN known
        ELSE LET prior == round[k - 1]
                 ready == {i \in DOMAIN instrs \ DOMAIN prior :
                             ToSet(instrs[i].in) \subseteq DOMAIN prior}
             IN  IF ready = {} THEN prior
                 ELSE prior @@ [i \in ready |->
                        Tensor(instrs[i], [j \in DOMAIN instrs[i].in |-> prior[instrs[i].in[j]]],
                               [j \in DOMAIN instrs[i].in |-> ShapeOf(instrs[i].in[j])])]
  IN  round[Cardinality(DOMAIN instrs)]

\* What the root computes from the parameters.
Value(c, params) ==
  LET live == Reached(c, {c.root})
  IN  Tensors([i \in live |-> c.instrs[i]], <<>>, params)[c.root]
=============================================================================
