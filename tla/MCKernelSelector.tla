-------------------------- MODULE MCKernelSelector --------------------------
(***************************************************************************)
(* Instances of KernelSelector for TLC: two runs of the pass, over map     *)
(* files in which ranges overlap, touch and repeat, and over modules with  *)
(* a dot of each kind, transposed or not, at the ends of those ranges.     *)
(***************************************************************************)
EXTENDS KernelSelector

Line(kernel, elements, symbol) ==
  [regex |-> TRUE, kernel |-> kernel, elements |-> elements, symbol |-> symbol]
Noise == [regex |-> FALSE]

N(n) == <<n>>
Any == <<Star>>
From(n) == <<n, Star>>
To(m, n) == <<m, n>>

\* Overlapping ranges for the product of a 2x3 and a 3x4 matrix, the narrow one after the wide
\* one, and one that ends just below it.
Overlapping ==
  <<Line("gemm", <<To(1, 3), Any, N(3)>>, "wide"), Line("gemm", <<To(1, 2), Any, N(3)>>, "narrow"),
    Line("gemm", <<To(0, 1), Any, Any>>, "below"), Line("gemv", <<N(2), To(3, 3)>>, "GEMV")>>

\* The same key twice, a line of the wrong rank and one that is no entry between them.
Repeated ==
  <<Line("batch3d", <<Any>>, "first"), Noise, Line("batch3d", <<N(2), N(2)>>, "rank"),
    Line("batch3d", <<Any, To(0, IntMax), Any, Any>>, "last"), Line("argmax", <<Any>>, "ArgMax")>>

\* An unknown name between two lines that fit.
Broken ==
  <<Line("batch4d", <<N(1), From(2), N(2), N(1), N(2)>>, "Batch4D"),
    Line("conv", <<Any>>, "Conv"), Line("gemm", <<Any>>, "GEMM")>>

\* A reversed range, which release builds store, and a range whose lower end is a size.
Reversed == <<Line("gemm", <<To(4, 1), Any, Any>>, "never"), Line("gemm", <<From(2), N(4), N(3)>>, "GEMM")>>

MCTexts == {Overlapping, Repeated, Broken, Reversed}

Dot(lhs, rhs, batch, lc, rc) ==
  [opcode |-> "dot", lhs |-> lhs, rhs |-> rhs, batch |-> batch, lc |-> lc, rc |-> rc]
Reduce(op_type, operands, dims) ==
  [opcode |-> "reduce", op_type |-> op_type, operands |-> operands, lhs |-> dims]

MCModules ==
  {<<Dot(<<2, 3>>, <<3, 4>>, 0, 1, 0), Dot(<<3, 2>>, <<4, 3>>, 0, 0, 1)>>,
   <<Dot(<<2, 3>>, <<3>>, 0, 1, 0), Dot(<<2, 3, 2>>, <<2, 4, 3>>, 1, 1, 2)>>,
   <<Dot(<<1, 2, 2, 2>>, <<1, 2, 2, 1>>, 2, 3, 2), Reduce("ArgMax", 4, <<2, 2, 3>>),
     Reduce("ArgMax", 2, <<2, 2, 3>>)>>}

MCCompilations == {1, 2}
OneRun == {1}

\* A dot of a transposed matrix, which is not square, and a vector.
TransposedModules == {<<Dot(<<3, 2>>, <<3>>, 0, 0, 0)>>}
GemvTexts == {<<Line("gemv", <<Any>>, "GEMV")>>}
=============================================================================
