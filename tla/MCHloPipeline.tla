---------------------------- MODULE MCHloPipeline ----------------------------
(***************************************************************************)
(* Instances of HloPipeline for TLC: the computations the passes look for, *)
(* as TensorFlow's embedding columns, dense layers and softmax come out of *)
(* its bridge to XLA, alone and joined, and with one thing changed that a  *)
(* pass must notice.                                                       *)
(***************************************************************************)
EXTENDS HloPipeline, HloSemantics

\* A computation of these parameters, which are numbered from 1; more is added behind them.
Computation(params) ==
  [instrs |-> [i \in DOMAIN params |-> params[i]], root |-> Len(params), next |-> Len(params) + 1]

\* The last instruction becomes the root.
Add1(c, instrs) == LET d == Add(c, instrs) IN [d EXCEPT !.root = d.next - 1]

Param(type, shape) == Instr("Parameter", <<>>, type, shape, <<>>)
Scalar(type, x) == Instr("Constant", <<>>, type, <<>>, [data |-> <<x>>])
Broadcast(x, type, shape, dims) == Instr("Broadcast", <<x>>, type, shape, [dims |-> dims])
Elem(op, in, type, shape) == Instr(op, in, type, shape, <<>>)
Compare(in, shape, dir) == Instr("Compare", in, "PRED", shape, [dir |-> dir])
Reduce(x, init, shape, dims, fn) ==
  Instr("Reduce", <<x, init>>, "F32", shape, [dims |-> dims, fn |-> fn])

\* Rows of the table for the indices of a column, zero for those out of bounds.
Lookup(c, table, column, type, bound) ==
  LET n == c.next
      s == Shape(c, column)
      t == s \o <<Shape(c, table)[2]>>
  IN  Add1(c, <<
        Elem("Convert", <<column>>, type, s),
        Scalar(type, 0), Broadcast(n + 1, type, s, <<>>),
        Scalar(type, bound), Broadcast(n + 3, type, s, <<>>),
        Compare(<<n, n + 2>>, s, "Ge"), Compare(<<n, n + 4>>, s, "Lt"),
        Elem("And", <<n + 5, n + 6>>, "PRED", s),
        Elem("Convert", <<n + 7>>, "F32", s), Broadcast(n + 8, "F32", t, <<1, 2>>),
        Scalar(type, 0), Broadcast(n + 10, type, s, <<>>),
        Elem("Select", <<n + 7, n, n + 11>>, type, s),
        Elem("Gather", <<table, n + 12>>, "F32", t),
        Elem("Multiply", <<n + 9, n + 13>>, "F32", t)>>)

\* The sum over the width of a column, which the previous ones are added to.
SumOfSlice(c, mul, from, to) ==
  LET n == c.next
      s == Shape(c, mul)
  IN  Add1(c, <<
        Instr("Slice", <<mul>>, "F32", <<s[1], to - from, s[3]>>,
              [starts |-> <<0, from, 0>>, limits |-> <<s[1], to, s[3]>>]),
        Scalar("F32", 0), Reduce(n, n + 1, <<s[1], s[3]>>, {2}, "Add")>>)

\* One lookup for columns of these widths, taken apart again.
Columns2(widths, rows, joined) ==
  LET wide  == FoldLeft(LAMBDA x, y : x + y, 0, widths)
      cols  == [k \in DOMAIN widths |-> k + 1]
      start == Computation(<<Param("F32", <<rows, 2>>)>>
                 \o [k \in DOMAIN widths |-> Param("F32", <<2, widths[k]>>)])
      concat == Add1(start, <<Instr("Concatenate", cols, "F32", <<2, wide>>, [dim |-> 2])>>)
      looked == Lookup(concat, 1, concat.root, "S32", rows)
      from(k) == FoldLeft(LAMBDA x, y : x + y, 0, SubSeq(widths, 1, k))
      Extended(acc, k) ==
        LET sliced == SumOfSlice(acc.c, looked.root, from(k - 1), from(k))
        IN  [c |-> sliced, sums |-> Append(acc.sums, sliced.root)]
      all == FoldLeft(Extended, [c |-> looked, sums |-> <<>>], [k \in DOMAIN widths |-> k])
      PlusSum(c, k) == Add1(c, <<Elem("Add", <<c.root, all.sums[k]>>, "F32", <<2, 2>>)>>)
  IN  IF joined THEN FoldLeft(PlusSum, [all.c EXCEPT !.root = all.sums[1]],
                              [k \in 1..Len(widths) - 1 |-> k + 1])
      ELSE [all.c EXCEPT !.root = all.sums[1]]

\* Two lookups in one table, the second one with a bound of its own.
TwoLookups(type, bound) ==
  LET c == Computation(<<Param("F32", <<4, 2>>), Param("F32", <<2, 2>>), Param("F32", <<2, 2>>)>>)
      one == Lookup(c, 1, 2, type, 4)
      two == Lookup(one, 1, 3, type, bound)
  IN  Add1(two, <<Elem("Add", <<one.root, two.root>>, "F32", <<2, 2, 2>>)>>)

\* The mean of the looked-up rows whose argument is positive.
Pool(c, mul, arg) ==
  LET n == c.next
      z == n            \* zero
      s == Shape(c, mul)
      mk == <<s[1], s[2]>>
      mn == <<s[1], s[3]>>
  IN  Add1(c, <<
        Scalar("F32", 0), Scalar("S64", 0), Broadcast(n + 1, "S64", mk, <<>>),
        Compare(<<arg, n + 2>>, mk, "Gt"), Elem("Convert", <<n + 3>>, "F32", mk),
        Reduce(n + 4, z, <<s[1]>>, {2}, "Add"), Broadcast(z, "F32", <<s[1]>>, <<>>),
        Compare(<<n + 5, n + 6>>, <<s[1]>>, "Eq"), Broadcast(n + 7, "PRED", mn, <<1>>),
        Broadcast(z, "F32", mn, <<>>),
        Instr("Slice", <<mul>>, "F32", s, [starts |-> <<0, 0, 0>>, limits |-> s]),
        Broadcast(n + 3, "PRED", s, <<1, 2>>), Broadcast(z, "F32", s, <<>>),
        Elem("Select", <<n + 11, n + 10, n + 12>>, "F32", s),
        Reduce(n + 13, z, mn, {2}, "Add"), Elem("Reshape", <<n + 14>>, "F32", mn),
        Broadcast(n + 5, "F32", mn, <<1>>), Elem("Divide", <<n + 15, n + 16>>, "F32", mn),
        Elem("Select", <<n + 8, n + 9, n + 17>>, "F32", mn)>>)

Pooling1 ==
  LET c == Computation(<<Param("F32", <<4, 2>>), Param("F32", <<3, 3>>), Param("S64", <<3, 3>>)>>)
      looked == Lookup(c, 1, 2, "S32", 4)
  IN  Pool(looked, looked.root, 3)

\* A sum over windows, and the sum of those.
Windows(shape, size, stride, dims) ==
  LET c == Computation(<<Param("F32", shape)>>)
      s == [d \in DOMAIN shape |-> (shape[d] - size[d]) \div stride[d] + 1]
      none == [d \in DOMAIN shape |-> 0]
  IN  Add1(c, <<
        Scalar("F32", 0),
        Instr("ReduceWindow", <<1, 2>>, "F32", s,
              [size |-> size, stride |-> stride, low |-> none, high |-> none, fn |-> "Add"]),
        Reduce(3, 2, WithoutDims(s, dims), dims, "Add")>>)

\* Windows of windows, summed up.
WindowsTwice ==
  LET c == Computation(<<Param("F32", <<2, 8>>)>>)
      Window(x, shape) ==
        Instr("ReduceWindow", <<x, 2>>, "F32", shape,
              [size |-> <<1, 2>>, stride |-> <<1, 2>>, low |-> <<0, 0>>, high |-> <<0, 0>>,
               fn |-> "Add"])
  IN  Add1(c, <<Scalar("F32", 0), Window(1, <<2, 4>>), Window(3, <<2, 2>>),
                Reduce(4, 2, <<2>>, {2}, "Add")>>)

\* From one number per row to the shape of x, over a column.
Spread(c, per_row, shape) ==
  LET n == c.next
      column == <<shape[1], 1>>
  IN  Add1(c, <<
        Elem("Reshape", <<per_row>>, "F32", column), Broadcast(n, "F32", column, <<1, 2>>),
        Elem("Reshape", <<n + 1>>, "F32", <<shape[1]>>), Broadcast(n + 2, "F32", shape, <<1>>)>>)

\* The softmax of x over its rows; bounded: its maximum is bounded below by -inf.
Softmax(c, x, bounded) ==
  LET shape == Shape(c, x)
      max == Add1(c, <<Scalar("F32", NegInf), Reduce(x, c.next, <<shape[1]>>, {2}, "Max")>>)
      top == IF bounded
             THEN Add1(max, <<Broadcast(c.next, "F32", <<shape[1]>>, <<>>),
                              Elem("Maximum", <<max.root, max.next>>, "F32", <<shape[1]>>)>>)
             ELSE max
      spread == Spread(top, top.root, shape)
      exp == Add1(spread, <<Elem("Subtract", <<x, spread.root>>, "F32", shape),
                            Elem("Exp", <<spread.next>>, "F32", shape)>>)
      sum == Add1(exp, <<Scalar("F32", 0), Reduce(exp.root, exp.next, <<shape[1]>>, {2}, "Add")>>)
      below == Spread(sum, sum.root, shape)
  IN  Add1(below, <<Elem("Divide", <<exp.root, below.root>>, "F32", shape)>>)

\* The input of a softmax has exactly two users; reading it once more stops the pass.
SoftmaxOf(bounded) == Softmax(Computation(<<Param("F32", <<2, 3>>)>>), 1, bounded)
SoftmaxReused ==
  LET c == SoftmaxOf(FALSE) IN Add1(c, <<Elem("Multiply", <<1, c.root>>, "F32", <<2, 3>>)>>)

\* A product, a bias, a relu.
Dot(lhs, rhs, shape) ==
  Instr("Dot", <<lhs, rhs>>, "F32", shape, [lc |-> Len(shape), rc |-> Len(shape) - 1])

Dense(m, k, n, bias_first) ==
  LET s == <<m, n>>
      c == Computation(<<Param("F32", <<m, k>>), Param("F32", <<k, n>>), Param("F32", s)>>)
  IN  Add1(c, <<
        Dot(1, 2, s),
        Elem("Add", IF bias_first THEN <<3, 4>> ELSE <<4, 3>>, "F32", s),
        Scalar("F32", 0), Broadcast(6, "F32", s, <<>>),
        Elem("Maximum", IF bias_first THEN <<7, 5>> ELSE <<5, 7>>, "F32", s)>>)

\* The product is read by the sum and by the end.
DenseReused ==
  LET c == Dense(12, 2, 12, FALSE)
  IN  Add1(c, <<Elem("Add", <<4, c.root>>, "F32", <<12, 12>>)>>)

With(c, i, field, value) == [c EXCEPT !.instrs[i][field] = value]

\* Two layers: the second one's left operand is what the first one's call returns.
TwoLayers(k, n) ==
  LET s == <<12, n>>
      c == Computation(<<Param("F32", <<12, k>>), Param("F32", <<k, n>>), Param("F32", s),
                         Param("F32", <<n, n>>)>>)
  IN  Add1(c, <<Dot(1, 2, s), Elem("Add", <<5, 3>>, "F32", s), Dot(6, 4, s)>>)

BatchDense ==
  Add1(Computation(<<Param("F32", <<2, 8, 2>>), Param("F32", <<2, 2, 8>>)>>),
       <<Dot(1, 2, <<2, 8, 8>>)>>)

\* Products with a variable, instruction 2, on the right, whose size and whose number of rows
\* on the left decide; ...
Weights(m, k, n) ==
  Add1(Computation(<<Param("F32", <<m, k>>), Param("F32", <<k, n>>)>>), <<Dot(1, 2, <<m, n>>)>>)

\* ... with a bias behind the product; on the left, of a product whose other operand is
\* computed; in two products; behind a softmax.
BiasedWeights ==
  Add1(Computation(<<Param("F32", <<12, 13>>), Param("F32", <<13, 13>>), Param("F32", <<12, 13>>)>>),
       <<Dot(1, 2, <<12, 13>>), Elem("Add", <<4, 3>>, "F32", <<12, 13>>)>>)

LeftWeights ==
  Add1(Computation(<<Param("F32", <<13, 12>>), Param("F32", <<13, 13>>)>>),
       <<Elem("Add", <<1, 1>>, "F32", <<13, 12>>), Dot(2, 3, <<13, 12>>)>>)

SharedWeights ==
  Add1(Computation(<<Param("F32", <<12, 13>>), Param("F32", <<13, 13>>), Param("F32", <<12, 13>>)>>),
       <<Dot(1, 2, <<12, 13>>), Dot(3, 2, <<12, 13>>), Elem("Add", <<4, 5>>, "F32", <<12, 13>>)>>)

SoftmaxWeights ==
  LET c == Softmax(Computation(<<Param("F32", <<12, 13>>), Param("F32", <<13, 13>>)>>), 1, FALSE)
  IN  Add1(c, <<Dot(c.root, 2, <<12, 13>>)>>)

------------------------------------------------------------------------------

Word1(key, value) == [dashes |-> TRUE, key |-> key, value |-> value]
On(key) == Word1(key, "true")
NoDashes == [dashes |-> FALSE, key |-> "", value |-> ""]

Everything == <<On("graph-opt"), Word1("pooling", "1"), On("matmul"), On("batch-matmul"),
                On("matmul-add"), Word1("matmul-add-relu", "")>>

Compile(module, text) ==
  [module |-> module, words |-> text, variables |-> {}, annc_opt |-> FALSE,
   bisheng |-> FALSE, xnnpack |-> FALSE]
Bisheng(module, text) == [Compile(module, text) EXCEPT !.bisheng = TRUE]
XnnPack(module, text) == [Compile(module, text) EXCEPT !.xnnpack = TRUE]
PackedAt(variables, module, text) ==
  [Compile(module, text) EXCEPT !.annc_opt = TRUE, !.variables = variables]
Packed(module, text) == PackedAt({2}, module, text)

\* As docs/constant-folding.md has it.
LayoutMatmul1 == <<On("layout-matmul")>>

MCTileSizes == <<16, 14>>

MCCompilations == {
  Bisheng(Columns2(<<1, 2, 1>>, 4, TRUE), <<>>),
  Bisheng(Columns2(<<2, 1, 3>>, 4, TRUE), Everything),
  Compile(Columns2(<<1, 2>>, 4, TRUE), Everything),
  Bisheng(Columns2(<<1, 1>>, 4, TRUE), Everything),
  Bisheng(TwoLookups("S32", 4), Everything),
  Bisheng(TwoLookups("S32", 6), Everything),
  Bisheng(TwoLookups("S64", 4), <<On("sps-emd-2")>>),
  Compile(Pooling1, Everything),
  Compile(Pooling1, <<On("pooling")>>),
  Bisheng(Pooling1, Everything),
  Bisheng(Windows(<<2, 4>>, <<1, 2>>, <<1, 2>>, {2}), <<>>),
  Bisheng(Windows(<<4, 6>>, <<2, 3>>, <<2, 3>>, {1, 2}), <<>>),
  Bisheng(Windows(<<2, 4>>, <<1, 2>>, <<1, 1>>, {2}), <<>>),
  Bisheng(Windows(<<4, 4>>, <<2, 2>>, <<2, 2>>, {2}), <<>>),
  Bisheng(WindowsTwice, <<>>),
  XnnPack(SoftmaxOf(FALSE), Everything),
  XnnPack(SoftmaxOf(TRUE), <<>>),
  XnnPack(SoftmaxReused, <<>>),
  Compile(Dense(12, 2, 12, FALSE), Everything),
  Compile(Dense(12, 2, 12, TRUE), <<On("matmul-add"), On("matmul")>>),
  Compile(Dense(12, 2, 12, FALSE), <<On("matmul"), NoDashes, On("matmul-add")>>),
  Compile(Dense(2, 3, 2, TRUE), Everything \o <<Word1("matmul-add-relu", "0")>>),
  Compile(Dense(2, 3, 2, FALSE), <<On("gemm-opt")>>),
  Compile(With(Dense(12, 2, 12, FALSE), 4, "control", TRUE), Everything),
  Compile(With(Dense(12, 2, 12, FALSE), 2, "major", FALSE), Everything),
  Compile(Dense(12, 2, 12, FALSE), Everything \o <<Word1("annc-pass", "false"), On("others")>>),
  Compile(DenseReused, Everything),
  Compile(TwoLayers(2, 12), Everything),
  Compile(BatchDense, Everything),
  Packed(Weights(12, 13, 17), LayoutMatmul1),
  Packed(Weights(12, 13, 17), <<Word1("matmul", "0"), On("layout-matmul")>>),
  Packed(Weights(12, 13, 17), <<Word1("gemm-opt", "false")>>),
  Packed(Weights(12, 13, 17), <<On("layout-matmul"), Word1("annc-pass", "0")>>),
  Packed(With(Weights(12, 13, 17), 3, "control", TRUE), LayoutMatmul1),
  Packed(Weights(12, 2, 13), LayoutMatmul1),
  Packed(Weights(12, 2, 12), <<On("gemm-opt")>>),
  Packed(Weights(2, 13, 13), LayoutMatmul1),
  PackedAt({}, Weights(12, 13, 13), LayoutMatmul1),
  Packed(BiasedWeights, LayoutMatmul1),
  Packed(BiasedWeights, <<On("layout-matmul"), On("matmul-add")>>),
  Packed(LeftWeights, LayoutMatmul1),
  PackedAt({1, 2}, Weights(13, 13, 13), LayoutMatmul1),
  PackedAt({1, 2}, Weights(2, 13, 13), LayoutMatmul1),
  Packed(SharedWeights, LayoutMatmul1),
  [Packed(SoftmaxWeights, LayoutMatmul1) EXCEPT !.xnnpack = TRUE],
  PackedAt({2, 4}, TwoLayers(13, 13), LayoutMatmul1),
  PackedAt({2, 4}, TwoLayers(2, 13), LayoutMatmul1),
  PackedAt({4}, TwoLayers(13, 13), LayoutMatmul1 \o <<On("matmul-add")>>),
  Compile(Weights(12, 2, 12), <<Word1("gemm-opt", "0"), Word1("matmul", "0")>>),
  Compile(Weights(12, 13, 13), <<On("matmul")>>)}

\* The data a computation is run on: small numbers, of either sign; a packed parameter is
\* reordered by each packing.
Repacked(tensor, shape, format) ==
  LET order == Packing(shape, format)
  IN  [o \in DOMAIN tensor |-> tensor[order[o + 1]]]

Params(c) ==
  [p \in {i \in Ids(c) : Op(c, i) = "Parameter"} |->
     [o \in Offsets(Shape(c, p)) |-> ((p * 5 + o * o * 3 + o * 7) % 11) - 3]]

PackedParams(c) ==
  [p \in DOMAIN Params(c) |->
     IF p \notin DOMAIN packings THEN Params(c)[p]
     ELSE FoldLeft(LAMBDA tensor, format : Repacked(tensor, Shape(c, p), format),
                   Params(c)[p], packings[p])]

\* The root computes, whenever the computation could be run, what it computed in the module XLA
\* was given: at every step at which variables and the calls that expect them packed agree,
\* which is every step if there is neither.
ValuePreserved ==
  LayoutsAgree => Value(comp, PackedParams(comp)) = Value(request.module, Params(request.module))
=============================================================================
