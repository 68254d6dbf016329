------------------------------ MODULE DotKernels ------------------------------
(***************************************************************************)
(* What a dot of HLO computes, and what the kernels of kernel_selector.cc  *)
(* compute when called for it, as the set of products that are summed:     *)
(* <<c, a, b>> says that the element at offset a of the left operand times *)
(* the one at offset b of the right operand is added to the output at c.   *)
(* Buffers are row-major, which the kernels assume.                        *)
(*                                                                         *)
(* A dot is [lhs, rhs: dimensions, batch: how many of them are batch       *)
(* dimensions (the leading ones, after DotDecomposer), lc, rc: the         *)
(* contracting dimension of each operand], counted from 0 as in the code.  *)
(***************************************************************************)
EXTENDS Integers, Sequences

\* Offset of an index tuple in a row-major array.
Offset(dims, at) ==
  LET upto[k \in 0..Len(dims)] == IF k = 0 THEN 0 ELSE upto[k - 1] * dims[k] + at[k]
  IN  upto[Len(dims)]

\* The dimension of an operand that is neither a batch nor the contracting one: 0-based, and
\* its size, 1 when there is none.
FreeDims(dims, batch, c) == (batch..Len(dims) - 1) \ {c}
FreeSize(dims, batch, c) ==
  IF FreeDims(dims, batch, c) = {} THEN 1
  ELSE dims[1 + (CHOOSE f \in FreeDims(dims, batch, c) : TRUE)]

\* XLA's shape inference: batch dimensions, then those left of each operand.
OutputDims(dot) ==
  LET left(dims, c) == IF FreeDims(dims, dot.batch, c) = {} THEN <<>>
                       ELSE <<FreeSize(dims, dot.batch, c)>>
  IN  SubSeq(dot.lhs, 1, dot.batch) \o left(dot.lhs, dot.lc) \o left(dot.rhs, dot.rc)

\* What XLA has verified of a dot, and made of it: up to two batch dimensions of equal sizes, the
\* leading ones; a matrix and a matrix or, without a batch, a matrix and a vector, which agree in
\* the dimension they are contracted along.
IsDot(dot) ==
  /\ dot.batch \in 0..2
  /\ dot.lhs \in Seq(Nat) /\ Len(dot.lhs) = dot.batch + 2
  /\ dot.rhs \in Seq(Nat) /\ Len(dot.rhs) \in {dot.batch + 2, 1}
  /\ Len(dot.rhs) = 1 => dot.batch = 0
  /\ dot.lc \in dot.batch..Len(dot.lhs) - 1 /\ dot.rc \in dot.batch..Len(dot.rhs) - 1
  /\ dot.lhs[dot.lc + 1] = dot.rhs[dot.rc + 1]
  /\ \A i \in 1..dot.batch : dot.lhs[i] = dot.rhs[i]

\* All index tuples below dims, for up to two batch dimensions.
Tuples(dims) ==
  CASE Len(dims) = 0 -> {<<>>}
    [] Len(dims) = 1 -> {<<i>> : i \in 0..dims[1] - 1}
    [] Len(dims) = 2 -> {<<i, j>> : i \in 0..dims[1] - 1, j \in 0..dims[2] - 1}

\* The index of an operand, and of the output, which has no free dimension for a vector.
OperandAt(dot, dims, c, bs, free, k) ==
  bs \o [i \in 1..Len(dims) - dot.batch |-> IF dot.batch + i - 1 = c THEN k ELSE free]
OutputAt(dot, bs, m, n) == SubSeq(bs \o <<m, n>>, 1, Len(OutputDims(dot)))

DotProducts(dot) ==
  LET out == OutputDims(dot)
  IN  {<<Offset(out, OutputAt(dot, bs, m, n)),
         Offset(dot.lhs, OperandAt(dot, dot.lhs, dot.lc, bs, m, k)),
         Offset(dot.rhs, OperandAt(dot, dot.rhs, dot.rc, bs, n, k))>> :
         bs \in Tuples(SubSeq(dot.lhs, 1, dot.batch)),
         m \in 0..FreeSize(dot.lhs, dot.batch, dot.lc) - 1,
         n \in 0..FreeSize(dot.rhs, dot.batch, dot.rc) - 1,
         k \in 0..dot.lhs[dot.lc + 1] - 1}

------------------------------------------------------------------------------
(* The kernels, on arguments by the names of their parameters. *)

\* cblas_sgemm, row-major, on the arguments every kernel derives: the b-th product of a batch.
Gemm(arg, b) ==
  LET lda == IF arg.trA THEN arg.M ELSE arg.K
      ldb == IF arg.trB THEN arg.K ELSE arg.N
      ldc == arg.N
  IN  {<<b * arg.M * arg.N + m * ldc + n,
         b * arg.M * arg.K + (IF arg.trA THEN k * lda + m ELSE m * lda + k),
         b * arg.K * arg.N + (IF arg.trB THEN n * ldb + k ELSE k * ldb + n)>> :
         m \in 0..arg.M - 1, n \in 0..arg.N - 1, k \in 0..arg.K - 1}

\* cblas_sgemv: A has M rows and N columns, whether it is transposed or not.
Gemv(arg) ==
  LET lda == IF arg.trA THEN arg.M ELSE arg.N
  IN  {<<IF arg.trA THEN n ELSE m, m * lda + n, IF arg.trA THEN m ELSE n>> :
         m \in 0..arg.M - 1, n \in 0..arg.N - 1}

KernelProducts(op_type, arg) ==
  CASE op_type = "GEMM"    -> Gemm(arg, 0)
    [] op_type = "GEMV"    -> Gemv(arg)
    [] op_type = "BATCH3D" -> UNION {Gemm(arg, b) : b \in 0..arg.P - 1}
    [] op_type = "BATCH4D" -> UNION {Gemm(arg, b) : b \in 0..arg.Q * arg.P - 1}
=============================================================================
