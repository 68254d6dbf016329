-------------------------- MODULE MCParallelKernels --------------------------
(***************************************************************************)
(* Instances of ParallelKernels for TLC: two calls on pools of one to four *)
(* threads, with fewer units than threads, as many, more, and none.        *)
(***************************************************************************)
EXTENDS ParallelKernels

Batch3D(P) == [kernel |-> "Batch3DParallel", P |-> P]
Batch4D(Q, P) == [kernel |-> "Batch4DParallel", Q |-> Q, P |-> P]
ArgMax(B, M) == [kernel |-> "ArgMax3DParallel", B |-> B, M |-> M]
Product(M, N, trA, trB, beta) ==
  [kernel |-> "GEMMParallel", M |-> M, N |-> N, K |-> 3, trA |-> trA, trB |-> trB,
   beta |-> beta]
GEMM(M, N, beta) == Product(M, N, FALSE, FALSE, beta)

Two(n, p, q) == [njobs |-> n, call |-> <<p, q>>]

MCCalls == {1, 2}

\* A GEMM waits for njobs closures and schedules SqrtJobs^2: pools of a square number.
MCScenarios ==
  {Two(2, Batch3D(5), ArgMax(1, 1)), Two(3, Batch3D(4), Batch3D(2)),
   Two(2, Batch4D(2, 2), Batch3D(0)), Two(3, ArgMax(2, 2), Batch3D(1)),
   Two(2, ArgMax(1, 3), ArgMax(1, 0)), Two(4, GEMM(3, 3, 0), Batch3D(1)),
   Two(4, GEMM(2, 1, 1), Batch3D(0)), Two(1, GEMM(1, 2, 0), Batch4D(1, 2))}

\* The same kernel on a pool of two threads, which is what many small machines have.
TwoThreads == {Two(2, GEMM(2, 2, 0), Batch3D(1))}

\* What HandleDot emits for a dot that contracts the first dimension of its left operand.
Transposed == {Two(4, Product(2, 2, TRUE, FALSE, 0), Batch3D(1))}
=============================================================================
