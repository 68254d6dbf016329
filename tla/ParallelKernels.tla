--------------------------- MODULE ParallelKernels ---------------------------
(***************************************************************************)
(* The parallel kernels of annc/service/cpu/xla/kernel_selector.cc:        *)
(* Batch3DParallel, Batch4DParallel, ArgMax3DParallel and GEMMParallel.    *)
(* Each cuts its output into jobs, schedules a closure per job on the      *)
(* intra-op thread pool, and waits for a tsl::BlockingCounter on its own   *)
(* stack that every closure decrements when it is done.  Several calls     *)
(* share the pool; a caller is not a thread of the pool.                   *)
(*                                                                         *)
(* A job is an interval of units: the batches of a batch kernel, the rows  *)
(* of argmax, the tiles of a GEMM.  A unit is one call of cblas_sgemm or   *)
(* ArgMaxTask, and one step of the model.                                  *)
(***************************************************************************)
EXTENDS Integers, Sequences, FiniteSets

CONSTANTS
  Calls,     \* calls in progress
  Scenarios  \* [njobs |-> threads of the pool, call |-> the arguments of each call]

\* XLA's shapes have no negative sizes, and a pool has a thread.
WellFormed(p) ==
  CASE p.kernel = "Batch3DParallel"  -> p.P \in Nat
    [] p.kernel = "Batch4DParallel"  -> p.P \in Nat /\ p.Q \in Nat
    [] p.kernel = "ArgMax3DParallel" -> p.B \in Nat /\ p.M \in Nat
    [] p.kernel = "GEMMParallel"     -> p.M \in Nat /\ p.N \in Nat /\ p.K \in Nat
    [] OTHER -> FALSE

ASSUME ScenariosAssumption ==
  \A s \in Scenarios : /\ s.njobs \in Nat \ {0}
                       /\ \A c \in Calls : WellFormed(s.call[c])

VARIABLES
  njobs,    \* NumThreads()
  call,     \* [kernel, and its shape arguments]
  C,        \* the output: per cell, what was added to it since it was last overwritten
  pc,       \* "called", "scheduling" (which includes the wait) or "returned"
  first,    \* batchIdx: the first unit no closure has been given
  bc,       \* the blocking counter
  span,     \* the closures scheduled: [next |-> unit to do next, last |-> the end]
  queued, running  \* those no thread has taken, and those a thread executes

vars == <<njobs, call, C, pc, first, bc, span, queued, running>>

IsBatch(p) == p.kernel \in {"Batch3DParallel", "Batch4DParallel"}
IsGEMM(p) == p.kernel = "GEMMParallel"

Least(a, b) == IF a < b THEN a ELSE b

\* (int)sqrt(njobs)
SqrtJobs == CHOOSE s \in 0..njobs : s * s <= njobs /\ (s + 1) * (s + 1) > njobs

\* The turns of the loop of a sequential kernel.
Turns(p) ==
  CASE p.kernel = "Batch3DParallel"  -> p.P
    [] p.kernel = "Batch4DParallel"  -> p.P * p.Q
    [] p.kernel = "ArgMax3DParallel" -> p.B * p.M

Units(p) == IF IsGEMM(p) THEN SqrtJobs * SqrtJobs ELSE Turns(p)

(* Outputs. *)
Cells(p) == IF IsGEMM(p) THEN (0..p.M - 1) \X (0..p.N - 1) ELSE 0..Turns(p) - 1

\* What the buffer holds before the call.
Old == <<-1, -1>>

\* Where the dot product for a cell starts in A and in B.
RowStart(p, m) == IF p.trA THEN m ELSE m * p.K
ColumnStart(p, n) == IF p.trB THEN n * p.K ELSE n

\* The sequential kernels: one cblas_sgemm over everything, or a loop over the units.
Sequential(p) ==
  [x \in Cells(p) |->
     IF ~IsGEMM(p) THEN <<<<x, x>>>>
     ELSE LET product == <<RowStart(p, x[1]), ColumnStart(p, x[2])>>
          IN  IF p.beta = 0 THEN <<product>> ELSE <<Old, product>>]

\* Tiles of one size (a mutant of Tile): the remainder is nobody's.
EqualTile(p, u) ==
  [M_start |-> (u \div SqrtJobs) * (p.M \div SqrtJobs),
   N_start |-> (u % SqrtJobs) * (p.N \div SqrtJobs),
   M_len |-> p.M \div SqrtJobs, N_len |-> p.N \div SqrtJobs]

\* Tile u of a GEMM: row i and column j, the last of each taking the remainder.
Tile(p, u) ==
  LET i == u \div SqrtJobs
      j == u % SqrtJobs
      height == p.M \div SqrtJobs
      width  == p.N \div SqrtJobs
  IN  [M_start |-> i * height, N_start |-> j * width,
       M_len |-> IF i = SqrtJobs - 1 THEN p.M - i * height ELSE height,
       N_len |-> IF j = SqrtJobs - 1 THEN p.N - j * width ELSE width]

\* The tile's cblas_sgemm, over &A[M_start * lda] and &B[N_start]: offsets for a matrix that
\* is not transposed, whatever trA and trB are.
TileProduct(p, tile, m, n) ==
  LET lda == IF p.trA THEN p.M ELSE p.K
  IN  <<tile.M_start * lda + RowStart(p, m - tile.M_start),
        tile.N_start + ColumnStart(p, n - tile.N_start)>>

\* The buffer after unit u.  Batches are computed with beta = 0; a tile adds to what is there.
AfterUnit(p, buffer, u) ==
  IF ~IsGEMM(p) THEN [buffer EXCEPT ![u] = <<<<u, u>>>>]
  ELSE LET tile == Tile(p, u)
           InTile(x) == /\ x[1] \in tile.M_start..tile.M_start + tile.M_len - 1
                        /\ x[2] \in tile.N_start..tile.N_start + tile.N_len - 1
       IN  [x \in Cells(p) |->
              IF InTile(x) THEN Append(buffer[x], TileProduct(p, tile, x[1], x[2]))
              ELSE buffer[x]]

(* Jobs. *)
\* Mutants of InitialCount: batches shared out before they are counted, and a count that
\* forgets that there may be fewer batches than threads.
RoundedCount(p) == IF IsBatch(p) THEN Units(p) \div njobs ELSE njobs
PoolCount(p) == njobs

InitialCount(p) == IF IsBatch(p) THEN Least(Units(p), njobs) ELSE njobs

\* Mutants of EndOfJob: the remainder goes to a job of its own; the end belongs to the job.
RemainderLast(p, t, f) ==
  CASE IsBatch(p) -> IF Units(p) < njobs THEN f + 1 ELSE f + Units(p) \div njobs
    [] p.kernel = "ArgMax3DParallel" ->
         Least((t + 1) * ((Units(p) + njobs - 1) \div njobs), Units(p))
    [] IsGEMM(p) -> f + 1
EndInclusive(p, t, f) ==
  CASE IsBatch(p) -> f + Units(p) \div njobs + (IF t < Units(p) % njobs THEN 1 ELSE 0)
    [] p.kernel = "ArgMax3DParallel" ->
         Least((t + 1) * ((Units(p) + njobs - 1) \div njobs) + 1, Units(p))
    [] IsGEMM(p) -> f + 1

\* The end of the job that starts at unit f and is the t-th one, t counted from 0.
EndOfJob(p, t, f) ==
  CASE IsBatch(p) -> f + Units(p) \div njobs + (IF t < Units(p) % njobs THEN 1 ELSE 0)
    [] p.kernel = "ArgMax3DParallel" ->
         Least((t + 1) * ((Units(p) + njobs - 1) \div njobs), Units(p))
    [] IsGEMM(p) -> f + 1

\* The start: what the last job left, or t * block_size, which may be past the end.
StartOfJob(p, t, f) ==
  IF p.kernel = "ArgMax3DParallel" THEN t * ((Units(p) + njobs - 1) \div njobs) ELSE f

AllScheduled(p, t, f) ==
  CASE IsBatch(p) -> f >= Units(p)
    [] p.kernel = "ArgMax3DParallel" -> t >= njobs
    [] IsGEMM(p) -> t >= Units(p)

------------------------------------------------------------------------------
Init ==
  /\ \E s \in Scenarios : njobs = s.njobs /\ call = s.call
  /\ C = [c \in Calls |-> [x \in Cells(call[c]) |-> <<Old>>]]
  /\ pc = [c \in Calls |-> "called"]
  /\ first = [c \in Calls |-> 0]
  /\ bc = [c \in Calls |-> 0]
  /\ span = [c \in Calls |-> <<>>]
  /\ queued = [c \in Calls |-> {}]
  /\ running = [c \in Calls |-> {}]

\* A GEMM with beta = 0 clears its output and goes on with beta_v = 1.
Enter(c) ==
  /\ pc[c] = "called"
  /\ pc' = [pc EXCEPT ![c] = "scheduling"]
  /\ bc' = [bc EXCEPT ![c] = InitialCount(call[c])]
  /\ C' = IF IsGEMM(call[c]) /\ call[c].beta = 0
          THEN [C EXCEPT ![c] = [x \in Cells(call[c]) |-> <<>>]]
          ELSE C
  /\ UNCHANGED <<njobs, call, first, span, queued, running>>

\* One turn of the scheduling loop.
Schedule(c) ==
  LET p == call[c]
      t == Len(span[c])
      job == [next |-> StartOfJob(p, t, first[c]), last |-> EndOfJob(p, t, first[c])]
  IN  /\ pc[c] = "scheduling"
      /\ ~AllScheduled(p, t, first[c])
      /\ span' = [span EXCEPT ![c] = Append(@, job)]
      /\ queued' = [queued EXCEPT ![c] = @ \cup {t + 1}]
      /\ first' = [first EXCEPT ![c] = job.last]
      /\ UNCHANGED <<njobs, call, C, pc, bc, running>>

\* bc.Wait() comes back; the counter goes out of scope.
Return(c) ==
  /\ pc[c] = "scheduling"
  /\ AllScheduled(call[c], Len(span[c]), first[c])
  /\ bc[c] = 0
  /\ pc' = [pc EXCEPT ![c] = "returned"]
  /\ UNCHANGED <<njobs, call, C, first, bc, span, queued, running>>

Busy == UNION {{<<c, k>> : k \in running[c]} : c \in Calls}

\* A thread of the pool takes a closure.
Take(c, k) ==
  /\ k \in queued[c]
  /\ Cardinality(Busy) < njobs
  /\ queued' = [queued EXCEPT ![c] = @ \ {k}]
  /\ running' = [running EXCEPT ![c] = @ \cup {k}]
  /\ UNCHANGED <<njobs, call, C, pc, first, bc, span>>

DoUnit(c, k) ==
  /\ k \in running[c]
  /\ span[c][k].next < span[c][k].last
  /\ C' = [C EXCEPT ![c] = AfterUnit(call[c], @, span[c][k].next)]
  /\ span' = [span EXCEPT ![c][k].next = @ + 1]
  /\ UNCHANGED <<njobs, call, pc, first, bc, queued, running>>

DecrementCount(c, k) ==
  /\ k \in running[c]
  /\ span[c][k].next >= span[c][k].last
  /\ bc' = [bc EXCEPT ![c] = @ - 1]
  /\ running' = [running EXCEPT ![c] = @ \ {k}]
  /\ UNCHANGED <<njobs, call, C, pc, first, span, queued>>

\* Every call has returned.
Quiet == /\ \A c \in Calls : pc[c] = "returned" /\ queued[c] = {} /\ running[c] = {}
         /\ UNCHANGED vars

Caller(c) == Enter(c) \/ Schedule(c) \/ Return(c)
Thread(c) == \E k \in DOMAIN span[c] : Take(c, k) \/ DoUnit(c, k) \/ DecrementCount(c, k)

Next == Quiet \/ \E c \in Calls : Caller(c) \/ Thread(c)

Spec == Init /\ [][Next]_vars

\* The scheduler runs every caller that can go on, and the pool's threads as long as there is
\* a closure to take or to finish.
FairSpec ==
  /\ Spec
  /\ \A c \in Calls : WF_vars(Caller(c)) /\ WF_vars(Thread(c))

------------------------------------------------------------------------------
(* Properties. *)

Outstanding(c) == queued[c] \cup running[c]

TypeOK ==
  /\ pc \in [Calls -> {"called", "scheduling", "returned"}]
  /\ first \in [Calls -> Nat] /\ bc \in [Calls -> Nat]
  /\ \A c \in Calls :
       /\ span[c] \in Seq([next : Nat, last : Nat])
       /\ Outstanding(c) \subseteq DOMAIN span[c] /\ queued[c] \cap running[c] = {}

\* While a closure of a call is queued or running, the counter it will decrement exists: the
\* call has not returned, and has not been counted down to zero early.
CounterAlive ==
  \A c \in Calls : Outstanding(c) # {} => pc[c] = "scheduling" /\ bc[c] >= Cardinality(Outstanding(c))

\* No two closures are given the same unit, so no two threads write the same cells.
UnitsDisjoint ==
  \A c \in Calls : \A k, l \in Outstanding(c) :
    k # l => span[c][k].last <= span[c][l].next \/ span[c][l].last <= span[c][k].next
             \/ span[c][k].next >= span[c][k].last \/ span[c][l].next >= span[c][l].last

\* The caller sees what the sequential kernel would have computed, and nothing writes to the
\* output after that.
Atomic == INSTANCE KernelCalls WITH
  returned <- {c \in Calls : pc[c] = "returned"},
  output <- [c \in Calls |-> IF pc[c] = "returned" THEN C[c] ELSE <<>>]

ImplementsSequential == Atomic!CallsSpec

\* bc.Wait() comes back: as many closures are scheduled as the counter was told.
Returns == \A c \in Calls : <>(pc[c] = "returned")
=============================================================================
