------------------------ MODULE ParallelKernelsProofs ------------------------
(***************************************************************************)
(* Proofs about ParallelKernels: whatever calls share the pool, however    *)
(* many threads it has, and whatever the sizes, a call that returns leaves *)
(* the output of the sequential kernel and nothing that refers to its      *)
(* stack.  Jobs are looked at first, then tiles, then the steps.           *)
(***************************************************************************)
EXTENDS ParallelKernels, TLAPS, WellFoundedInduction, FiniteSetTheorems, SequenceTheorems

(* Numbers. *)

\* A set of natural numbers that is not empty has a least one.
LEMMA LeastExists ==
  ASSUME NEW T \in SUBSET Nat, T # {}
  PROVE  \E x \in T : \A y \in T : x <= y
PROOF
<1>1. PICK x \in T : \A y \in T : <<y, x>> \notin OpToRel(<, Nat)
  BY NatLessThanWellFounded, WFMin
<1>2. \A y \in T : ~(y < x)
  BY <1>1 DEF OpToRel
<1> QED
  BY <1>2

\* Quotient and remainder.
LEMMA DivMod ==
  ASSUME NEW a \in Nat, NEW b \in Nat \ {0}
  PROVE  /\ a = b * (a \div b) + (a % b)
         /\ a \div b \in Nat /\ a % b \in Nat /\ a % b < b
  OBVIOUS

\* A remainder below b belongs to one quotient only.
LEMMA DivModUnique ==
  ASSUME NEW b \in Nat \ {0}, NEW i \in Nat, NEW j \in Nat, j < b
  PROVE  (i * b + j) \div b = i /\ (i * b + j) % b = j
PROOF
<1> DEFINE a == i * b + j
           q == a \div b
           r == a % b
<1>1. a \in Nat
  OBVIOUS
<1>2. a = b * q + r /\ q \in Nat /\ r \in Nat /\ r < b
  BY <1>1, DivMod
<1> HIDE DEF q, r
<1>3. ~(q < i)
  <2> SUFFICES ASSUME q + 1 <= i PROVE FALSE
    BY <1>2
  <2>1. (q + 1) * b <= i * b
    BY <1>2
  <2> QED
    BY <2>1, <1>2
<1>4. ~(i < q)
  <2> SUFFICES ASSUME i + 1 <= q PROVE FALSE
    BY <1>2
  <2>1. (i + 1) * b <= q * b
    BY <1>2
  <2> QED
    BY <2>1, <1>2
<1>5. q = i /\ r = j
  BY <1>2, <1>3, <1>4
<1> QED
  BY <1>5 DEF q, r

\* (int)sqrt(njobs): the pool's threads are at least a square.
LEMMA SqrtFacts ==
  ASSUME njobs \in Nat \ {0}
  PROVE  SqrtJobs \in Nat \ {0} /\ SqrtJobs * SqrtJobs <= njobs
PROOF
<1> DEFINE T == {s \in Nat : (s + 1) * (s + 1) > njobs}
<1>1. T \in SUBSET Nat /\ njobs \in T
  OBVIOUS
<1>2. PICK s \in T : \A y \in T : s <= y
  <2> HIDE DEF T
  <2> QED
    BY <1>1, LeastExists
<1>3. s * s <= njobs
  <2>1. CASE s = 0
    BY <2>1
  <2>2. CASE s # 0
    <3>1. s - 1 \in Nat /\ s - 1 \notin T
      BY <2>2, <1>2
    <3> QED
      BY <3>1
  <2> QED
    BY <2>1, <2>2
<1>4. s \in 0..njobs /\ (s + 1) * (s + 1) > njobs
  <2>1. s <= s * s
    OBVIOUS
  <2> QED
    BY <2>1, <1>3
<1>5. /\ SqrtJobs \in 0..njobs
      /\ SqrtJobs * SqrtJobs <= njobs /\ (SqrtJobs + 1) * (SqrtJobs + 1) > njobs
  BY <1>3, <1>4 DEF SqrtJobs
<1> QED
  BY <1>5

------------------------------------------------------------------------------
(* Jobs. *)

\* The units of a block, rounded up.
BlockSize(p) == (Units(p) + njobs - 1) \div njobs

\* The first unit that is no job's after t turns of the scheduling loop.
FirstAfter(p, t) ==
  IF IsBatch(p) THEN t * (Units(p) \div njobs) + Least(t, Units(p) % njobs)
  ELSE IF IsGEMM(p) THEN t
  ELSE Least(t * BlockSize(p), Units(p))

\* A well-formed call has a natural number of units; the tiles of a product are no more than
\* the threads.
LEMMA UnitsType ==
  ASSUME njobs \in Nat \ {0}, NEW p, WellFormed(p)
  PROVE  /\ Units(p) \in Nat
         /\ IsGEMM(p) => /\ p.M \in Nat /\ p.N \in Nat /\ p.K \in Nat
                         /\ Units(p) = SqrtJobs * SqrtJobs /\ Units(p) <= njobs
                         /\ ~IsBatch(p)
         /\ (~IsGEMM(p) /\ ~IsBatch(p)) => p.kernel = "ArgMax3DParallel"
PROOF
<1>1. CASE IsGEMM(p)
  BY <1>1, SqrtFacts DEF WellFormed, Units, IsGEMM, IsBatch
<1>2. CASE ~IsGEMM(p)
  BY <1>2 DEF WellFormed, Units, Turns, IsGEMM, IsBatch
<1> QED
  BY <1>1, <1>2

\* Batches are shared out with the remainder over the first jobs.
LEMMA BatchShares ==
  ASSUME NEW u \in Nat, NEW n \in Nat \ {0}, NEW t \in Nat
  PROVE  LET q == u \div n
             r == u % n
             f(s) == s * q + Least(s, r)
         IN  /\ f(t) \in Nat /\ f(t + 1) \in Nat
             /\ f(t + 1) = f(t) + q + (IF t < r THEN 1 ELSE 0)
             /\ f(t) < u => t < Least(u, n) /\ f(t + 1) <= u
PROOF
<1> DEFINE q == u \div n
           r == u % n
<1>1. u = n * q + r /\ q \in Nat /\ r \in Nat /\ r < n
  BY DivMod
<1> HIDE DEF q, r
<1>2. t * q \in Nat /\ (t + 1) * q = t * q + q
  BY <1>1
<1>3. ASSUME t * q + Least(t, r) < u
      PROVE  t < Least(u, n) /\ (t + 1) * q + Least(t + 1, r) <= u
  <2>1. t < n
    <3> SUFFICES ASSUME n <= t PROVE FALSE
      OBVIOUS
    <3>1. n * q <= t * q
      BY <1>1
    <3> QED
      BY <3>1, <1>1, <1>2, <1>3 DEF Least
  <2>2. (t + 1) * q <= n * q
    BY <1>1, <2>1
  <2>3. (t + 1) * q + Least(t + 1, r) <= u
    BY <1>1, <1>2, <2>2 DEF Least
  <2>4. t < u
    <3>1. CASE q = 0
      BY <3>1, <1>1, <1>3, <1>2 DEF Least
    <3>2. CASE q # 0
      <4>1. n <= n * q
        BY <1>1, <3>2
      <4> QED
        BY <4>1, <2>1, <1>1
    <3> QED
      BY <3>1, <3>2
  <2> QED
    BY <2>1, <2>3, <2>4 DEF Least
<1>4. t * q + Least(t, r) \in Nat /\ (t + 1) * q + Least(t + 1, r) \in Nat
  BY <1>1, <1>2 DEF Least
<1>5. (t + 1) * q + Least(t + 1, r) = (t * q + Least(t, r)) + q + (IF t < r THEN 1 ELSE 0)
  BY <1>1, <1>2 DEF Least
<1> QED
  BY <1>3, <1>4, <1>5 DEF q, r

\* Rows of argmax are shared out in blocks, of which the last ones may be empty.
LEMMA Blocks ==
  ASSUME NEW u \in Nat, NEW n \in Nat \ {0}, NEW t \in Nat
  PROVE  LET size == (u + n - 1) \div n
         IN  /\ size \in Nat
             /\ t * size \in Nat
             /\ t * size <= (t + 1) * size
             /\ t >= n => t * size >= u
PROOF
<1> DEFINE size == (u + n - 1) \div n
           rest == (u + n - 1) % n
<1>1. u + n - 1 = n * size + rest /\ size \in Nat /\ rest \in Nat /\ rest < n
  <2>1. u + n - 1 \in Nat
    OBVIOUS
  <2> QED
    BY <2>1, DivMod
<1> HIDE DEF size, rest
<1>2. n * size >= u
  BY <1>1
<1>3. t * size \in Nat /\ (t + 1) * size = t * size + size
  BY <1>1
<1>4. t >= n => t * size >= n * size
  BY <1>1
<1>5. t >= n => t * size >= u
  BY <1>1, <1>2, <1>3, <1>4
<1> QED
  BY <1>1, <1>3, <1>5 DEF size

\* Before the scheduling loop has run, the first unit is the next to schedule.
LEMMA NothingScheduled ==
  ASSUME njobs \in Nat \ {0}, NEW p, WellFormed(p)
  PROVE  FirstAfter(p, 0) = 0
PROOF
<1> USE UnitsType
<1>1. Units(p) \in Nat /\ Units(p) % njobs \in Nat /\ Units(p) \div njobs \in Nat
  BY DivMod
<1>2. BlockSize(p) \in Nat
  BY <1>1, Blocks DEF BlockSize
<1> QED
  BY <1>1, <1>2 DEF FirstAfter, Least

\* A turn of the scheduling loop: as many turns as the counter was told at most, no unit is left
\* out and none is given away twice.
LEMMA NextJob ==
  ASSUME njobs \in Nat \ {0}, NEW p, WellFormed(p), NEW t \in Nat,
         NEW f, f = FirstAfter(p, t), ~AllScheduled(p, t, f)
  PROVE  /\ f \in Nat /\ StartOfJob(p, t, f) \in Nat /\ EndOfJob(p, t, f) \in Nat
         /\ t < InitialCount(p)
         /\ EndOfJob(p, t, f) = FirstAfter(p, t + 1)
         /\ f <= EndOfJob(p, t, f) /\ EndOfJob(p, t, f) <= Units(p)
         /\ f <= StartOfJob(p, t, f)
         /\ StartOfJob(p, t, f) = f \/ Units(p) <= f
PROOF
<1> DEFINE u == Units(p)
<1>1. u \in Nat
  BY UnitsType
<1>2. CASE IsBatch(p)
  <2> DEFINE q == u \div njobs
             r == u % njobs
  <2>1. f = t * q + Least(t, r) /\ FirstAfter(p, t + 1) = (t + 1) * q + Least(t + 1, r)
    BY <1>2 DEF FirstAfter
  <2>2. EndOfJob(p, t, f) = f + q + (IF t < r THEN 1 ELSE 0)
    BY <1>2 DEF EndOfJob, IsBatch, IsGEMM
  <2>3. StartOfJob(p, t, f) = f /\ InitialCount(p) = Least(u, njobs)
    BY <1>2 DEF StartOfJob, InitialCount, IsBatch
  <2>4. ~(f >= u)
    BY <1>2 DEF AllScheduled, IsBatch, IsGEMM
  <2>5. q \in Nat
    BY <1>1, DivMod
  <2> HIDE DEF u
  <2>6. /\ t * q + Least(t, r) \in Nat
        /\ (t + 1) * q + Least(t + 1, r) = t * q + Least(t, r) + q + (IF t < r THEN 1 ELSE 0)
        /\ t * q + Least(t, r) < u => t < Least(u, njobs) /\ (t + 1) * q + Least(t + 1, r) <= u
    BY <1>1, BatchShares
  <2> HIDE DEF q, r
  <2>7. f \in Nat /\ f < u
    BY <1>1, <2>1, <2>4, <2>6
  <2>8. t < Least(u, njobs) /\ FirstAfter(p, t + 1) <= u
    BY <2>1, <2>6, <2>7
  <2>9. EndOfJob(p, t, f) = FirstAfter(p, t + 1)
    BY <2>1, <2>2, <2>6
  <2>10. EndOfJob(p, t, f) \in Nat /\ f <= EndOfJob(p, t, f)
    BY <2>2, <2>5, <2>7
  <2> QED
    BY <2>3, <2>7, <2>8, <2>9, <2>10 DEF u
<1>3. CASE IsGEMM(p)
  <2>1. f = t /\ t < u /\ u <= njobs
    BY <1>1, <1>3, UnitsType DEF FirstAfter, AllScheduled, IsBatch, IsGEMM
  <2>2. /\ EndOfJob(p, t, f) = f + 1 /\ StartOfJob(p, t, f) = f /\ InitialCount(p) = njobs
        /\ FirstAfter(p, t + 1) = t + 1
    BY <1>3 DEF EndOfJob, StartOfJob, InitialCount, FirstAfter, IsBatch, IsGEMM
  <2> QED
    BY <1>1, <2>1, <2>2
<1>4. CASE ~IsBatch(p) /\ ~IsGEMM(p)
  <2> DEFINE size == BlockSize(p)
  <2>1. p.kernel = "ArgMax3DParallel"
    BY <1>4, UnitsType
  <2>2. t < njobs /\ InitialCount(p) = njobs
    BY <2>1, <1>4 DEF AllScheduled, InitialCount, IsBatch
  <2>3. /\ StartOfJob(p, t, f) = t * size /\ EndOfJob(p, t, f) = Least((t + 1) * size, u)
        /\ f = Least(t * size, u) /\ FirstAfter(p, t + 1) = Least((t + 1) * size, u)
    BY <2>1, <1>4 DEF StartOfJob, EndOfJob, FirstAfter, BlockSize, IsBatch, IsGEMM
  <2>4. size \in Nat /\ t * size \in Nat /\ t * size <= (t + 1) * size
    BY <1>1, Blocks DEF BlockSize
  <2> HIDE DEF size, u
  <2> QED
    BY <1>1, <2>2, <2>3, <2>4 DEF Least, u
<1> QED
  BY <1>2, <1>3, <1>4

\* When the loop ends every unit has been given away.
LEMMA AllGivenAway ==
  ASSUME njobs \in Nat \ {0}, NEW p, WellFormed(p), NEW t \in Nat,
         NEW f, f = FirstAfter(p, t), AllScheduled(p, t, f)
  PROVE  f >= Units(p)
PROOF
<1>1. Units(p) \in Nat
  BY UnitsType
<1>2. CASE IsBatch(p)
  BY <1>2 DEF AllScheduled, IsBatch, IsGEMM
<1>3. CASE IsGEMM(p)
  BY <1>3 DEF AllScheduled, FirstAfter, IsBatch, IsGEMM
<1>4. CASE ~IsBatch(p) /\ ~IsGEMM(p)
  <2>1. t >= njobs /\ f = Least(t * BlockSize(p), Units(p))
    BY <1>4, UnitsType DEF AllScheduled, FirstAfter
  <2>2. t * BlockSize(p) \in Nat /\ t * BlockSize(p) >= Units(p)
    BY <1>1, <2>1, Blocks DEF BlockSize
  <2> QED
    BY <1>1, <2>1, <2>2 DEF Least
<1> QED
  BY <1>2, <1>3, <1>4

------------------------------------------------------------------------------
(* The invariant. *)

\* Strip k of the s that n rows or columns are cut into, the last one taking the remainder.
Strip(n, s, k) ==
  LET size == n \div s
  IN  {x \in Nat : /\ k * size <= x
                   /\ x < k * size + (IF k = s - 1 THEN n - k * size ELSE size)}

\* Unit u writes cell x.
Writes(p, u, x) ==
  IF IsGEMM(p)
  THEN x[1] \in Strip(p.M, SqrtJobs, u \div SqrtJobs) /\ x[2] \in Strip(p.N, SqrtJobs, u % SqrtJobs)
  ELSE x = u

\* The units that are still to be done: those of no closure, and those a closure has left.
Pending(c) ==
  {u \in 0..Units(call[c]) - 1 :
     \/ u >= first[c]
     \/ \E k \in DOMAIN span[c] : span[c][k].next <= u /\ u < span[c][k].last}

\* What a cell holds until its unit is done.
Base(p) == IF IsGEMM(p) /\ p.beta = 0 THEN <<>> ELSE <<Old>>

\* The buffer of a call when the units in P are still to be done.
Filled(p, P) ==
  [x \in Cells(p) |-> IF \E u \in P : Writes(p, u, x) THEN Base(p) ELSE Sequential(p)[x]]

\* A product of matrices that are stored as they are read.
Straight(p) == IsGEMM(p) => p.trA = FALSE /\ p.trB = FALSE

StraightCalls == \A s \in Scenarios : \A c \in Calls : Straight(s.call[c])

Apart(a, b) == \/ a.last <= b.next \/ b.last <= a.next
               \/ a.next >= a.last \/ b.next >= b.last

Shapes ==
  /\ njobs \in Nat \ {0}
  /\ \A c \in Calls : WellFormed(call[c])
  /\ pc \in [Calls -> {"called", "scheduling", "returned"}]
  /\ first \in [Calls -> Nat] /\ bc \in [Calls -> Nat]
  /\ span \in [Calls -> Seq([next : Nat, last : Nat])]
  /\ queued \in [Calls -> SUBSET Nat] /\ running \in [Calls -> SUBSET Nat]

\* The counter of a call, and the closures it waits for.
CountInv(c) ==
  /\ first[c] = FirstAfter(call[c], Len(span[c]))
  /\ Outstanding(c) \subseteq DOMAIN span[c]
  /\ queued[c] \cap running[c] = {}
  /\ pc[c] = "called" => span[c] = <<>> /\ bc[c] = 0
  /\ pc[c] # "called" =>
       /\ Len(span[c]) <= InitialCount(call[c])
       /\ bc[c] = (InitialCount(call[c]) - Len(span[c])) + Cardinality(Outstanding(c))
  /\ pc[c] = "returned" =>
       Outstanding(c) = {} /\ AllScheduled(call[c], Len(span[c]), first[c])

\* The closures of a call, and the units they are given.
SpanInv(c) ==
  /\ \A k \in DOMAIN span[c] :
       /\ span[c][k].last <= first[c] /\ span[c][k].last <= Units(call[c])
       /\ k \notin Outstanding(c) => span[c][k].next >= span[c][k].last
  /\ \A k, l \in DOMAIN span[c] : k # l => Apart(span[c][k], span[c][l])

\* The buffer of a call.
BufferInv(c) ==
  C[c] = IF pc[c] = "called" THEN [x \in Cells(call[c]) |-> <<Old>>]
         ELSE Filled(call[c], Pending(c))

JobsInv == Shapes /\ \A c \in Calls : CountInv(c) /\ SpanInv(c)

BuffersInv ==
  /\ C = [c \in Calls |-> C[c]]
  /\ \A c \in Calls : BufferInv(c) /\ Straight(call[c])

\* The pool does not change, so neither does what depends on its size.
LEMMA SamePool ==
  ASSUME njobs' = njobs
  PROVE  /\ SqrtJobs' = SqrtJobs
         /\ \A p : /\ Units(p)' = Units(p) /\ InitialCount(p)' = InitialCount(p)
                   /\ \A t : FirstAfter(p, t)' = FirstAfter(p, t)
                   /\ \A u, x : Writes(p, u, x)' = Writes(p, u, x)
                   /\ \A t, f : AllScheduled(p, t, f)' = AllScheduled(p, t, f)
                   /\ \A P : Filled(p, P)' = Filled(p, P)
PROOF
<1>1. SqrtJobs' = SqrtJobs
  BY DEF SqrtJobs
<1>2. \A p : Units(p)' = Units(p)
  BY <1>1 DEF Units
<1>3. \A p, t : FirstAfter(p, t)' = FirstAfter(p, t)
  BY <1>1, <1>2 DEF FirstAfter, BlockSize
<1>4. \A p, u, x : Writes(p, u, x)' = Writes(p, u, x)
  BY <1>1 DEF Writes
<1>5. \A p, P : Filled(p, P)' = Filled(p, P)
  <2> SUFFICES ASSUME NEW p, NEW P PROVE Filled(p, P)' = Filled(p, P)
    OBVIOUS
  <2>1. \A x : (\E u \in P : Writes(p, u, x))' <=> \E u \in P : Writes(p, u, x)
    BY <1>4
  <2> QED
    BY <2>1 DEF Filled
<1> QED
  BY <1>1, <1>2, <1>3, <1>4, <1>5 DEF InitialCount, AllScheduled

\* What a call still has to schedule depends on its own variables only.
LEMMA SamePending ==
  ASSUME njobs' = njobs, call' = call, NEW d, first'[d] = first[d], span'[d] = span[d]
  PROVE  Pending(d)' = Pending(d)
  BY SamePool DEF Pending

\* A step leaves alone the calls it is not about.
LEMMA OtherCalls ==
  ASSUME njobs' = njobs, call' = call, NEW d \in Calls, CountInv(d), SpanInv(d),
         pc'[d] = pc[d], first'[d] = first[d], bc'[d] = bc[d], span'[d] = span[d],
         queued'[d] = queued[d], running'[d] = running[d]
  PROVE  CountInv(d)' /\ SpanInv(d)'
PROOF
<1>1. Outstanding(d)' = Outstanding(d)
  BY DEF Outstanding
<1>2. CountInv(d)'
  <2>1. /\ InitialCount(call[d])' = InitialCount(call[d])
        /\ FirstAfter(call[d], Len(span[d]))' = FirstAfter(call[d], Len(span[d]))
        /\ AllScheduled(call[d], Len(span[d]), first[d])'
             = AllScheduled(call[d], Len(span[d]), first[d])
    BY SamePool
  <2>2. Cardinality(Outstanding(d))' = Cardinality(Outstanding(d))
    BY <1>1
  <2> QED
    BY <1>1, <2>1, <2>2 DEF CountInv
<1>3. SpanInv(d)'
  BY <1>1, SamePool DEF SpanInv
<1> QED
  BY <1>2, <1>3

\* Before any call has entered.
LEMMA JobsInvInit == Init => JobsInv
PROOF
<1> SUFFICES ASSUME Init PROVE JobsInv
  OBVIOUS
<1>1. Shapes
  BY ScenariosAssumption DEF Init, Shapes
<1>2. ASSUME NEW c \in Calls PROVE CountInv(c) /\ SpanInv(c)
  <2>1. span[c] = <<>> /\ first[c] = 0 /\ bc[c] = 0 /\ pc[c] = "called" /\ Outstanding(c) = {}
    BY DEF Init, Outstanding
  <2>2. FirstAfter(call[c], 0) = 0
    BY <1>1, NothingScheduled DEF Shapes
  <2>3. queued[c] = {} /\ running[c] = {}
    BY DEF Init
  <2> QED
    BY <2>1, <2>2, <2>3 DEF CountInv, SpanInv
<1> QED
  BY <1>1, <1>2 DEF JobsInv

\* The counter starts as a natural number: the closures the loop is going to schedule.
LEMMA CountType ==
  ASSUME njobs \in Nat \ {0}, NEW p, WellFormed(p)
  PROVE  InitialCount(p) \in Nat
  BY UnitsType DEF InitialCount, Least

\* The closures of a call are finitely many.
LEMMA OutstandingFinite ==
  ASSUME Shapes, NEW c \in Calls, CountInv(c)
  PROVE  /\ Len(span[c]) \in Nat /\ DOMAIN span[c] = 1..Len(span[c])
         /\ \A k \in 1..Len(span[c]) : span[c][k].next \in Nat /\ span[c][k].last \in Nat
         /\ IsFiniteSet(Outstanding(c)) /\ Cardinality(Outstanding(c)) \in Nat
PROOF
<1>1. Len(span[c]) \in Nat /\ DOMAIN span[c] = 1..Len(span[c])
  BY DEF Shapes
<1>4. ASSUME NEW k \in 1..Len(span[c])
      PROVE  span[c][k].next \in Nat /\ span[c][k].last \in Nat
  <2>1. span[c] \in Seq([next : Nat, last : Nat])
    BY DEF Shapes
  <2>2. span[c][k] \in [next : Nat, last : Nat]
    BY <2>1, ElementOfSeq
  <2> QED
    BY <2>2
<1>2. IsFiniteSet(1..Len(span[c]))
  BY <1>1, FS_Interval
<1>3. IsFiniteSet(Outstanding(c))
  BY <1>1, <1>2, FS_Subset DEF CountInv
<1> QED
  BY <1>1, <1>3, <1>4, FS_CardinalityType

\* The caller creates the counter.
LEMMA EnterKeepsJobs ==
  ASSUME JobsInv, NEW c \in Calls, Enter(c)
  PROVE  JobsInv'
PROOF
<1>1. /\ njobs' = njobs /\ call' = call /\ first' = first /\ span' = span
      /\ queued' = queued /\ running' = running /\ pc[c] = "called"
      /\ pc' = [pc EXCEPT ![c] = "scheduling"]
      /\ bc' = [bc EXCEPT ![c] = InitialCount(call[c])]
  BY DEF Enter
<1>2. InitialCount(call[c]) \in Nat
  BY CountType DEF JobsInv, Shapes
<1>3. Shapes'
  BY <1>1, <1>2 DEF JobsInv, Shapes
<1>4. ASSUME NEW d \in Calls, d # c PROVE CountInv(d)' /\ SpanInv(d)'
  BY <1>1, <1>4, OtherCalls DEF JobsInv, Shapes
<1>5. CountInv(c)' /\ SpanInv(c)'
  <2>1. span[c] = <<>> /\ Outstanding(c) = {} /\ pc'[c] = "scheduling"
        /\ bc'[c] = InitialCount(call[c])
    BY <1>1 DEF JobsInv, Shapes, CountInv
  <2>2. Outstanding(c)' = {} /\ span'[c] = <<>>
    BY <1>1, <2>1 DEF Outstanding
  <2>3. CountInv(c)'
    BY <1>1, <1>2, <2>1, <2>2, SamePool, FS_EmptySet DEF JobsInv, CountInv
  <2>4. SpanInv(c)'
    BY <2>2 DEF SpanInv
  <2> QED
    BY <2>3, <2>4
<1> QED
  BY <1>3, <1>4, <1>5 DEF JobsInv

\* The caller schedules one more closure, or leaves the loop.
LEMMA ScheduleKeepsJobs ==
  ASSUME JobsInv, NEW c \in Calls, Schedule(c)
  PROVE  JobsInv'
PROOF
<1> DEFINE p == call[c]
           t == Len(span[c])
           job == [next |-> StartOfJob(p, t, first[c]), last |-> EndOfJob(p, t, first[c])]
<1>1. /\ njobs' = njobs /\ call' = call /\ bc' = bc /\ pc' = pc
      /\ running' = running /\ pc[c] = "scheduling"
      /\ ~AllScheduled(p, t, first[c])
      /\ span' = [span EXCEPT ![c] = Append(@, job)]
      /\ queued' = [queued EXCEPT ![c] = @ \cup {t + 1}]
      /\ first' = [first EXCEPT ![c] = job.last]
  BY DEF Schedule
<1>2. CountInv(c) /\ SpanInv(c) /\ Shapes
  BY DEF JobsInv
<1>3. /\ t \in Nat /\ DOMAIN span[c] = 1..t
      /\ \A k \in 1..t : span[c][k].next \in Nat /\ span[c][k].last \in Nat
      /\ IsFiniteSet(Outstanding(c)) /\ Cardinality(Outstanding(c)) \in Nat
  BY <1>2, OutstandingFinite
<1>4. /\ first[c] \in Nat /\ job.next \in Nat /\ job.last \in Nat
      /\ t < InitialCount(p) /\ job.last = FirstAfter(p, t + 1)
      /\ first[c] <= job.last /\ job.last <= Units(p) /\ first[c] <= job.next
  <2>1. njobs \in Nat \ {0} /\ WellFormed(p) /\ first[c] = FirstAfter(p, t)
    BY <1>2 DEF Shapes, CountInv
  <2> QED
    BY <1>1, <1>3, <2>1, NextJob
<1> HIDE DEF job
<1>5. job \in [next : Nat, last : Nat]
  BY <1>4 DEF job
<1>6. /\ span'[c] = Append(span[c], job) /\ span[c] \in Seq([next : Nat, last : Nat])
      /\ first'[c] = job.last /\ queued'[c] = queued[c] \cup {t + 1}
  BY <1>1, <1>2 DEF Shapes
<1>7. /\ span'[c] \in Seq([next : Nat, last : Nat]) /\ Len(span'[c]) = t + 1
      /\ DOMAIN span'[c] = 1..t + 1
      /\ \A k \in 1..t : span'[c][k] = span[c][k]
      /\ span'[c][t + 1] = job
  BY <1>3, <1>5, <1>6
<1>8. Shapes'
  BY <1>1, <1>2, <1>3, <1>4, <1>7 DEF Shapes
<1>9. ASSUME NEW d \in Calls, d # c PROVE CountInv(d)' /\ SpanInv(d)'
  BY <1>1, <1>2, <1>9, OtherCalls DEF JobsInv, Shapes
<1>10. Outstanding(c)' = Outstanding(c) \cup {t + 1} /\ t + 1 \notin Outstanding(c)
  BY <1>1, <1>2, <1>3, <1>6 DEF Outstanding, CountInv
<1>11. CountInv(c)'
  <2>1. Cardinality(Outstanding(c)') = Cardinality(Outstanding(c)) + 1
    BY <1>3, <1>10, FS_AddElement
  <2>2. first'[c] = FirstAfter(p, Len(span[c]))'
    BY <1>1, <1>4, <1>6, <1>7, SamePool
  <2>3. Outstanding(c)' \subseteq 1..t + 1
    BY <1>2, <1>3, <1>10 DEF CountInv
  <2>4. queued'[c] \cap running'[c] = {}
    BY <1>1, <1>2, <1>6, <1>10 DEF CountInv, Outstanding
  <2>5. bc'[c] = (InitialCount(p) - (t + 1)) + Cardinality(Outstanding(c)')
    <3>1. bc[c] = (InitialCount(p) - t) + Cardinality(Outstanding(c))
      BY <1>1, <1>2 DEF CountInv
    <3>2. InitialCount(p) \in Nat /\ bc'[c] = bc[c]
      BY <1>1, <1>2, CountType DEF Shapes
    <3> DEFINE i == InitialCount(p)
               n == Cardinality(Outstanding(c))
               m == Cardinality(Outstanding(c)')
    <3>3. t \in Nat /\ i \in Nat /\ n \in Nat /\ m = n + 1
      BY <1>3, <2>1, <3>2
    <3>4. bc'[c] = (i - t) + n
      BY <3>1, <3>2
    <3> HIDE DEF i, n, m, t
    <3> QED
      BY <3>3, <3>4 DEF i, m
  <2>6. t + 1 <= InitialCount(p)
    <3>1. InitialCount(p) \in Nat
      BY <1>2, CountType DEF Shapes
    <3> QED
      BY <1>3, <1>4, <3>1
  <2>7. InitialCount(p)' = InitialCount(p)
    BY <1>1, SamePool
  <2> QED
    BY <1>1, <1>7, <2>2, <2>3, <2>4, <2>5, <2>6, <2>7 DEF CountInv
<1>12. SpanInv(c)'
  <2> DEFINE old == span[c]
             new == span'[c]
             f == first[c]
             u == Units(p)
             out == Outstanding(c)
  <2>1. /\ \A k \in 1..t : /\ old[k].last <= f /\ old[k].last <= u
                           /\ k \notin out => old[k].next >= old[k].last
        /\ \A k, l \in 1..t : k # l => Apart(old[k], old[l])
    BY <1>2, <1>3 DEF SpanInv
  <2>7. u \in Nat
    BY <1>2, UnitsType DEF Shapes
  <2>8. \A k \in 1..t + 1 : k # t + 1 => k \in 1..t
    BY <1>3
  <2> HIDE DEF t, u
  <2>2. \A k \in 1..t + 1 : new[k].last <= job.last /\ new[k].last <= u
    <3> SUFFICES ASSUME NEW k \in 1..t + 1
                 PROVE  new[k].last <= job.last /\ new[k].last <= u
      OBVIOUS
    <3>1. CASE k = t + 1
      BY <1>4, <1>7, <3>1 DEF u
    <3>2. CASE k # t + 1
      <4>1. k \in 1..t /\ new[k] = old[k]
        BY <1>7, <2>8, <3>2
      <4>2. old[k].last <= f /\ old[k].last <= u /\ old[k].last \in Nat
        BY <1>3, <2>1, <4>1
      <4> QED
        BY <1>4, <4>1, <4>2
    <3> QED
      BY <3>1, <3>2
  <2>3. \A k \in 1..t + 1 : k \notin Outstanding(c)' => new[k].next >= new[k].last
    BY <1>7, <1>10, <2>1, <2>8
  <2>4. \A k \in 1..t : Apart(new[k], job) /\ Apart(job, new[k])
    <3> SUFFICES ASSUME NEW k \in 1..t PROVE Apart(new[k], job) /\ Apart(job, new[k])
      OBVIOUS
    <3>1. new[k].last <= job.next
      <4>1. new[k] = old[k] /\ old[k].last <= f /\ old[k].last \in Nat
        BY <1>3, <1>7, <2>1
      <4> QED
        BY <1>4, <4>1
    <3> QED
      BY <3>1 DEF Apart
  <2>5. \A k, l \in 1..t + 1 : k # l => Apart(new[k], new[l])
    <3> SUFFICES ASSUME NEW k \in 1..t + 1, NEW l \in 1..t + 1, k # l
                 PROVE  Apart(new[k], new[l])
      OBVIOUS
    <3>1. CASE k = t + 1
      BY <1>7, <2>4, <2>8, <3>1
    <3>2. CASE l = t + 1
      BY <1>7, <2>4, <2>8, <3>2
    <3>3. CASE k # t + 1 /\ l # t + 1
      <4>1. k \in 1..t /\ l \in 1..t
        BY <2>8, <3>3
      <4> QED
        BY <1>7, <2>1, <4>1
    <3> QED
      BY <3>1, <3>2, <3>3
  <2>6. Units(p)' = Units(p)
    BY <1>1, SamePool
  <2> QED
    BY <1>1, <1>6, <1>7, <2>2, <2>3, <2>5, <2>6 DEF SpanInv, u
<1> QED
  BY <1>8, <1>9, <1>11, <1>12 DEF JobsInv

\* The caller returns when the counter is zero, that is, when no closure is left.
LEMMA ReturnKeepsJobs ==
  ASSUME JobsInv, NEW c \in Calls, Return(c)
  PROVE  JobsInv'
PROOF
<1>1. /\ njobs' = njobs /\ call' = call /\ first' = first /\ span' = span /\ bc' = bc
      /\ queued' = queued /\ running' = running
      /\ pc[c] = "scheduling" /\ AllScheduled(call[c], Len(span[c]), first[c]) /\ bc[c] = 0
      /\ pc' = [pc EXCEPT ![c] = "returned"]
  BY DEF Return
<1>2. Shapes'
  BY <1>1 DEF JobsInv, Shapes
<1>3. ASSUME NEW d \in Calls, d # c PROVE CountInv(d)' /\ SpanInv(d)'
  BY <1>1, <1>3, OtherCalls DEF JobsInv, Shapes
<1>4. Outstanding(c) = {}
  <2> DEFINE i == InitialCount(call[c])
             n == Cardinality(Outstanding(c))
             t == Len(span[c])
  <2>1. IsFiniteSet(Outstanding(c)) /\ n \in Nat /\ t \in Nat
    BY OutstandingFinite DEF JobsInv
  <2>2. i \in Nat
    BY CountType DEF JobsInv, Shapes
  <2>3. 0 = (i - t) + n /\ t <= i
    BY <1>1 DEF JobsInv, CountInv
  <2>4. n = 0
    <3> HIDE DEF i, n, t
    <3> QED
      BY <2>1, <2>2, <2>3
  <2> QED
    BY <2>1, <2>4, FS_EmptySet
<1>5. pc'[c] = "returned"
  BY <1>1 DEF JobsInv, Shapes
<1>6. Outstanding(c)' = Outstanding(c)
  BY <1>1 DEF Outstanding
<1>7. CountInv(c)' /\ SpanInv(c)'
  <2>1. /\ InitialCount(call[c])' = InitialCount(call[c])
        /\ FirstAfter(call[c], Len(span[c]))' = FirstAfter(call[c], Len(span[c]))
        /\ AllScheduled(call[c], Len(span[c]), first[c])'
             = AllScheduled(call[c], Len(span[c]), first[c])
        /\ Units(call[c])' = Units(call[c])
    BY <1>1, SamePool
  <2>2. CountInv(c) /\ SpanInv(c)
    BY DEF JobsInv
  <2>3. Cardinality(Outstanding(c))' = Cardinality(Outstanding(c))
    BY <1>6
  <2>4. CountInv(c)'
    BY <1>1, <1>4, <1>5, <1>6, <2>1, <2>2, <2>3 DEF CountInv
  <2>5. SpanInv(c)'
    BY <1>1, <1>6, <2>1, <2>2 DEF SpanInv
  <2> QED
    BY <2>4, <2>5
<1> QED
  BY <1>2, <1>3, <1>7 DEF JobsInv

\* A thread takes a closure from the queue.
LEMMA TakeKeepsJobs ==
  ASSUME JobsInv, NEW c \in Calls, NEW k, Take(c, k)
  PROVE  JobsInv'
PROOF
<1>1. /\ njobs' = njobs /\ call' = call /\ first' = first /\ span' = span /\ bc' = bc
      /\ pc' = pc /\ k \in queued[c]
      /\ queued' = [queued EXCEPT ![c] = @ \ {k}]
      /\ running' = [running EXCEPT ![c] = @ \cup {k}]
  BY DEF Take
<1>2. Shapes'
  BY <1>1 DEF JobsInv, Shapes
<1>3. ASSUME NEW d \in Calls, d # c PROVE CountInv(d)' /\ SpanInv(d)'
  BY <1>1, <1>3, OtherCalls DEF JobsInv, Shapes
<1>4. queued'[c] = queued[c] \ {k} /\ running'[c] = running[c] \cup {k}
  BY <1>1 DEF JobsInv, Shapes
<1>5. Outstanding(c)' = Outstanding(c)
  BY <1>1, <1>4 DEF Outstanding
<1>6. CountInv(c)' /\ SpanInv(c)'
  <2>1. /\ InitialCount(call[c])' = InitialCount(call[c])
        /\ FirstAfter(call[c], Len(span[c]))' = FirstAfter(call[c], Len(span[c]))
        /\ AllScheduled(call[c], Len(span[c]), first[c])'
             = AllScheduled(call[c], Len(span[c]), first[c])
        /\ Units(call[c])' = Units(call[c])
    BY <1>1, SamePool
  <2>2. CountInv(c) /\ SpanInv(c)
    BY DEF JobsInv
  <2>3. Cardinality(Outstanding(c))' = Cardinality(Outstanding(c))
    BY <1>5
  <2>4. CountInv(c)'
    BY <1>1, <1>4, <1>5, <2>1, <2>2, <2>3 DEF CountInv
  <2>5. SpanInv(c)'
    BY <1>1, <1>5, <2>1, <2>2 DEF SpanInv
  <2> QED
    BY <2>4, <2>5
<1> QED
  BY <1>2, <1>3, <1>6 DEF JobsInv

\* A closure is done with one more of its units: it has the same end and moves on inside it.
LEMMA UnitDone ==
  ASSUME JobsInv, NEW c \in Calls, NEW k, DoUnit(c, k)
  PROVE  /\ k \in 1..Len(span[c]) /\ k \in Outstanding(c)
         /\ Len(span'[c]) = Len(span[c]) /\ DOMAIN span'[c] = 1..Len(span[c])
         /\ span'[c] \in Seq([next : Nat, last : Nat])
         /\ span'[c][k].next = span[c][k].next + 1 /\ span'[c][k].last = span[c][k].last
         /\ \A l \in 1..Len(span[c]) : l # k => span'[c][l] = span[c][l]
PROOF
<1> DEFINE old == span[c]
           job == [old[k] EXCEPT !.next = @ + 1]
<1>1. k \in running[c] /\ span' = [span EXCEPT ![c][k].next = @ + 1]
  BY DEF DoUnit
<1>2. k \in Outstanding(c)
  BY <1>1 DEF Outstanding
<1>3. old \in Seq([next : Nat, last : Nat]) /\ Len(old) \in Nat /\ DOMAIN old = 1..Len(old)
  BY OutstandingFinite DEF JobsInv, Shapes
<1>4. k \in 1..Len(old)
  BY <1>2, <1>3 DEF JobsInv, CountInv
<1>5. old[k] \in [next : Nat, last : Nat]
  BY <1>3, <1>4, ElementOfSeq
<1>6. job \in [next : Nat, last : Nat] /\ job.next = old[k].next + 1 /\ job.last = old[k].last
  BY <1>5
<1>7. span'[c] = [old EXCEPT ![k] = job]
  BY <1>1 DEF JobsInv, Shapes
<1> HIDE DEF old, job
<1>8. [old EXCEPT ![k] = job] \in Seq([next : Nat, last : Nat])
      /\ Len([old EXCEPT ![k] = job]) = Len(old)
  BY <1>3, <1>4, <1>6, ExceptSeq
<1>9. DOMAIN [old EXCEPT ![k] = job] = 1..Len(old)
  BY <1>3
<1>10. [old EXCEPT ![k] = job][k] = job
       /\ \A l \in 1..Len(old) : l # k => [old EXCEPT ![k] = job][l] = old[l]
  BY <1>3, <1>4
<1> QED
  BY <1>2, <1>4, <1>6, <1>7, <1>8, <1>9, <1>10 DEF old

\* A thread computes the next unit of its closure.
LEMMA DoUnitKeepsJobs ==
  ASSUME JobsInv, NEW c \in Calls, NEW k, DoUnit(c, k)
  PROVE  JobsInv'
PROOF
<1> DEFINE old == span[c]
           new == span'[c]
           n == Len(old)
<1>1. /\ njobs' = njobs /\ call' = call /\ first' = first /\ bc' = bc /\ pc' = pc
      /\ queued' = queued /\ running' = running
      /\ span[c][k].next < span[c][k].last
      /\ span' = [span EXCEPT ![c][k].next = @ + 1]
  BY DEF DoUnit
<1>2. /\ k \in 1..n /\ k \in Outstanding(c) /\ Len(new) = n /\ DOMAIN new = 1..n
      /\ new \in Seq([next : Nat, last : Nat])
      /\ new[k].next = old[k].next + 1 /\ new[k].last = old[k].last
      /\ \A l \in 1..n : l # k => new[l] = old[l]
  BY UnitDone
<1>3. Shapes'
  <2>1. span' \in [Calls -> Seq([next : Nat, last : Nat])]
    <3>1. \A d \in Calls : d # c => span'[d] = span[d]
      BY <1>1 DEF JobsInv, Shapes
    <3>2. DOMAIN span' = Calls /\ span' = [d \in Calls |-> span'[d]]
      BY <1>1 DEF JobsInv, Shapes
    <3>3. \A d \in Calls : span'[d] \in Seq([next : Nat, last : Nat])
      BY <1>2, <3>1 DEF JobsInv, Shapes
    <3> QED
      BY <3>2, <3>3
  <2> QED
    BY <1>1, <2>1 DEF JobsInv, Shapes
<1>4. ASSUME NEW d \in Calls, d # c PROVE CountInv(d)' /\ SpanInv(d)'
  BY <1>1, <1>4, OtherCalls DEF JobsInv, Shapes
<1>5. Outstanding(c)' = Outstanding(c)
  BY <1>1 DEF Outstanding
<1>6. /\ InitialCount(call[c])' = InitialCount(call[c])
      /\ FirstAfter(call[c], Len(span[c]))' = FirstAfter(call[c], Len(span[c]))
      /\ AllScheduled(call[c], Len(span[c]), first[c])'
           = AllScheduled(call[c], Len(span[c]), first[c])
      /\ Units(call[c])' = Units(call[c])
  <2>1. Len(span[c])' = Len(span[c])
    BY <1>2
  <2> QED
    BY <1>1, <2>1, SamePool
<1>7. CountInv(c) /\ SpanInv(c)
  BY DEF JobsInv
<1>8. CountInv(c)'
  <2>1. pc[c] # "called"
    BY <1>2, <1>7 DEF CountInv
  <2>2. Cardinality(Outstanding(c))' = Cardinality(Outstanding(c))
    BY <1>5
  <2>3. n \in Nat /\ DOMAIN old = 1..n
    BY OutstandingFinite DEF JobsInv
  <2> QED
    BY <1>1, <1>2, <1>5, <1>6, <1>7, <2>1, <2>2, <2>3 DEF CountInv
<1>9. SpanInv(c)'
  <2> DEFINE u == Units(call[c])
  <2>1. /\ DOMAIN old = 1..n
        /\ \A l \in 1..n : old[l].next \in Nat /\ old[l].last \in Nat
    BY OutstandingFinite DEF JobsInv
  <2>2. /\ \A l \in 1..n : /\ old[l].last <= first[c] /\ old[l].last <= u
                           /\ l \notin Outstanding(c) => old[l].next >= old[l].last
        /\ \A l, m \in 1..n : l # m => Apart(old[l], old[m])
    BY <1>7, <2>1 DEF SpanInv
  <2> HIDE DEF old, n, u, new
  <2>3. \A l \in 1..n : /\ new[l].last <= first[c] /\ new[l].last <= u
                        /\ l \notin Outstanding(c) => new[l].next >= new[l].last
    BY <1>2, <2>2
  <2>4. \A l \in 1..n : l # k => Apart(new[l], new[k]) /\ Apart(new[k], new[l])
    <3> SUFFICES ASSUME NEW l \in 1..n, l # k
                 PROVE  Apart(new[l], new[k]) /\ Apart(new[k], new[l])
      OBVIOUS
    <3>1. Apart(old[l], old[k]) /\ Apart(old[k], old[l]) /\ new[l] = old[l]
      BY <1>2, <2>2
    <3>2. old[l].next \in Nat /\ old[l].last \in Nat /\ old[k].next \in Nat /\ old[k].last \in Nat
      BY <1>2, <2>1
    <3>3. /\ new[k].next = old[k].next + 1 /\ new[k].last = old[k].last
          /\ old[k].next < old[k].last
      BY <1>1, <1>2 DEF old
    <3> DEFINE a == old[l]
               b == old[k]
               d == new[k]
    <3>4. /\ a.last <= b.next \/ b.last <= a.next \/ a.next >= a.last
      BY <3>1, <3>2, <3>3 DEF Apart
    <3>5. a.last <= d.next \/ d.last <= a.next \/ a.next >= a.last
      BY <3>2, <3>3, <3>4
    <3> QED
      BY <3>1, <3>5 DEF Apart
  <2>5. \A l, m \in 1..n : l # m => Apart(new[l], new[m])
    <3> SUFFICES ASSUME NEW l \in 1..n, NEW m \in 1..n, l # m PROVE Apart(new[l], new[m])
      OBVIOUS
    <3>1. CASE l = k \/ m = k
      BY <2>4, <3>1
    <3>2. CASE l # k /\ m # k
      BY <1>2, <2>2, <3>2
    <3> QED
      BY <3>1, <3>2
  <2> QED
    BY <1>1, <1>2, <1>5, <1>6, <2>3, <2>5 DEF SpanInv, u, new
<1> QED
  BY <1>3, <1>4, <1>8, <1>9 DEF JobsInv

\* A thread that has computed all units of its closure decrements the counter.
LEMMA DecrementKeepsJobs ==
  ASSUME JobsInv, NEW c \in Calls, NEW k, DecrementCount(c, k)
  PROVE  JobsInv'
PROOF
<1> DEFINE i == InitialCount(call[c])
           n == Cardinality(Outstanding(c))
           t == Len(span[c])
<1>1. /\ njobs' = njobs /\ call' = call /\ first' = first /\ span' = span
      /\ pc' = pc /\ queued' = queued /\ k \in running[c]
      /\ span[c][k].next >= span[c][k].last
      /\ bc' = [bc EXCEPT ![c] = @ - 1]
      /\ running' = [running EXCEPT ![c] = @ \ {k}]
  BY DEF DecrementCount
<1>2. CountInv(c) /\ SpanInv(c) /\ Shapes
  BY DEF JobsInv
<1>3. running'[c] = running[c] \ {k} /\ bc'[c] = bc[c] - 1
  BY <1>1, <1>2 DEF Shapes
<1>4. k \in Outstanding(c) /\ Outstanding(c)' = Outstanding(c) \ {k}
  BY <1>1, <1>2, <1>3 DEF CountInv, Outstanding
<1>5. IsFiniteSet(Outstanding(c)) /\ n \in Nat /\ t \in Nat
  BY <1>2, OutstandingFinite
<1>6. Cardinality(Outstanding(c)') = n - 1 /\ n >= 1
  <2>1. Cardinality(Outstanding(c)') = n - 1
    BY <1>4, <1>5, FS_RemoveElement
  <2>2. n # 0
    BY <1>4, <1>5, FS_EmptySet
  <2> QED
    BY <1>5, <2>1, <2>2
<1>7. pc[c] = "scheduling"
  BY <1>2, <1>4 DEF CountInv, Shapes
<1>8. bc[c] = (i - t) + n /\ t <= i /\ i \in Nat
  BY <1>2, <1>7, CountType DEF CountInv, Shapes
<1>9. bc'[c] \in Nat /\ bc'[c] = (i - t) + (n - 1)
  <2> HIDE DEF i, n, t
  <2> QED
    BY <1>3, <1>5, <1>6, <1>8
<1>10. Shapes'
  BY <1>1, <1>2, <1>3, <1>9 DEF Shapes
<1>11. ASSUME NEW d \in Calls, d # c PROVE CountInv(d)' /\ SpanInv(d)'
  BY <1>1, <1>11, OtherCalls DEF JobsInv, Shapes
<1>12. /\ InitialCount(call[c])' = InitialCount(call[c])
       /\ FirstAfter(call[c], Len(span[c]))' = FirstAfter(call[c], Len(span[c]))
       /\ Units(call[c])' = Units(call[c])
  BY <1>1, SamePool
<1>13. CountInv(c)'
  BY <1>1, <1>2, <1>3, <1>4, <1>6, <1>7, <1>8, <1>9, <1>12 DEF CountInv
<1>14. SpanInv(c)'
  BY <1>1, <1>2, <1>4, <1>12 DEF SpanInv
<1> QED
  BY <1>10, <1>11, <1>13, <1>14 DEF JobsInv

\* One step of the callers or of the pool.
LEMMA JobsInvStep == JobsInv /\ [Next]_vars => JobsInv'
PROOF
<1> SUFFICES ASSUME JobsInv, [Next]_vars PROVE JobsInv'
  OBVIOUS
<1>1. CASE UNCHANGED vars
  <2>1. Shapes'
    BY <1>1 DEF JobsInv, Shapes, vars
  <2>2. \A d \in Calls : CountInv(d)' /\ SpanInv(d)'
    BY <1>1, OtherCalls DEF JobsInv, vars
  <2> QED
    BY <2>1, <2>2 DEF JobsInv
<1>2. ASSUME NEW c \in Calls, Caller(c) PROVE JobsInv'
  BY <1>2, EnterKeepsJobs, ScheduleKeepsJobs, ReturnKeepsJobs DEF Caller
<1>3. ASSUME NEW c \in Calls, Thread(c) PROVE JobsInv'
  BY <1>3, TakeKeepsJobs, DoUnitKeepsJobs, DecrementKeepsJobs DEF Thread
<1> QED
  BY <1>1, <1>2, <1>3 DEF Next, Quiet

\* The invariant of the closures and the counter.
LEMMA JobsInvAlways == Spec => []JobsInv
  BY JobsInvInit, JobsInvStep, PTL DEF Spec

\* The state of every call is what its variables are meant to hold (kernel_selector.cc:80-238).
THEOREM KernelsTypeCorrect == Spec => []TypeOK
PROOF
<1>1. JobsInv => TypeOK
  <2> SUFFICES ASSUME JobsInv PROVE TypeOK
    OBVIOUS
  <2> QED
    BY DEF JobsInv, Shapes, CountInv, TypeOK
<1> QED
  BY <1>1, JobsInvAlways, PTL

\* No closure outlives the counter on its caller's stack, and none finds it at zero.
THEOREM KernelsCounterAlive == Spec => []CounterAlive
PROOF
<1>1. JobsInv => CounterAlive
  <2> SUFFICES ASSUME JobsInv, NEW c \in Calls, Outstanding(c) # {}
               PROVE  pc[c] = "scheduling" /\ bc[c] >= Cardinality(Outstanding(c))
    BY DEF CounterAlive
  <2> DEFINE i == InitialCount(call[c])
             n == Cardinality(Outstanding(c))
             t == Len(span[c])
  <2>1. Shapes /\ CountInv(c)
    BY DEF JobsInv
  <2>2. pc[c] = "scheduling"
    <3>1. pc[c] # "returned"
      BY <2>1 DEF CountInv
    <3>2. pc[c] # "called"
      BY <2>1 DEF CountInv
    <3> QED
      BY <2>1, <3>1, <3>2 DEF Shapes
  <2>3. t \in Nat /\ n \in Nat /\ i \in Nat
    BY <2>1, OutstandingFinite, CountType DEF Shapes
  <2>4. t <= i /\ bc[c] = (i - t) + n
    BY <2>1, <2>2 DEF CountInv
  <2> HIDE DEF i, n, t
  <2>5. bc[c] >= n
    BY <2>3, <2>4
  <2> QED
    BY <2>2, <2>5 DEF n
<1> QED
  BY <1>1, JobsInvAlways, PTL

\* No two threads are given the same unit of an output.
THEOREM KernelsUnitsDisjoint == Spec => []UnitsDisjoint
PROOF
<1>1. JobsInv => UnitsDisjoint
  <2> SUFFICES ASSUME JobsInv, NEW c \in Calls, NEW k \in Outstanding(c),
                      NEW l \in Outstanding(c), k # l
               PROVE  \/ span[c][k].last <= span[c][l].next
                      \/ span[c][l].last <= span[c][k].next
                      \/ span[c][k].next >= span[c][k].last
                      \/ span[c][l].next >= span[c][l].last
    BY DEF UnitsDisjoint
  <2>1. k \in DOMAIN span[c] /\ l \in DOMAIN span[c]
    BY DEF JobsInv, CountInv
  <2>2. Apart(span[c][k], span[c][l])
    BY <2>1 DEF JobsInv, SpanInv
  <2> QED
    BY <2>2 DEF Apart
<1> QED
  BY <1>1, JobsInvAlways, PTL

------------------------------------------------------------------------------
(* Tiles. *)

\* Every row or column is in a strip, and in one only.
LEMMA StripCover ==
  ASSUME NEW n \in Nat, NEW s \in Nat \ {0}, NEW x \in 0..n - 1
  PROVE  \E k \in 0..s - 1 : x \in Strip(n, s, k)
PROOF
<1> DEFINE size == n \div s
           q == x \div size
<1>1. size \in Nat /\ s * size <= n
  BY DivMod
<1>2. s - 1 \in 0..s - 1 /\ (s - 1) * size \in Nat
  BY <1>1
<1>3. CASE size = 0
  <2>1. (s - 1) * size = 0
    BY <1>3
  <2>2. x \in Strip(n, s, s - 1)
    BY <1>3, <2>1 DEF Strip
  <2> QED
    BY <1>2, <2>2
<1>4. CASE size # 0
  <2>1. x = size * q + (x % size) /\ q \in Nat /\ x % size \in Nat /\ x % size < size
    BY <1>1, <1>4, DivMod
  <2> HIDE DEF q
  <2>2. q * size \in Nat /\ q * size <= x /\ x < q * size + size
    BY <1>1, <2>1
  <2>3. CASE q < s - 1
    <3>1. x \in Strip(n, s, q)
      BY <2>1, <2>2, <2>3 DEF Strip
    <3> QED
      BY <2>1, <2>3, <3>1
  <2>4. CASE q >= s - 1
    <3>1. (s - 1) * size <= q * size
      BY <1>1, <2>1, <2>4
    <3>2. (s - 1) * size <= x
      BY <1>2, <2>2, <3>1
    <3>3. x < (s - 1) * size + (n - (s - 1) * size)
      <4> DEFINE z == (s - 1) * size
      <4>1. z \in Nat
        BY <1>2
      <4> HIDE DEF z
      <4>2. z + (n - z) = n
        BY <4>1
      <4> QED
        BY <4>2 DEF z
    <3>4. x \in Strip(n, s, s - 1)
      BY <3>2, <3>3 DEF Strip
    <3> QED
      BY <1>2, <3>4
  <2> QED
    BY <2>1, <2>3, <2>4
<1> QED
  BY <1>1, <1>3, <1>4

\* No coordinate is in a strip and in a later one.
LEMMA StripOrder ==
  ASSUME NEW n \in Nat, NEW s \in Nat \ {0}, NEW k \in 0..s - 1, NEW l \in 0..s - 1,
         NEW x \in Strip(n, s, k), x \in Strip(n, s, l)
  PROVE  ~(k < l)
PROOF
<1> SUFFICES ASSUME k < l PROVE FALSE
  OBVIOUS
<1> DEFINE size == n \div s
<1>1. size \in Nat
  BY DivMod
<1>2. x \in Nat /\ x < k * size + size
  BY DEF Strip
<1>3. l * size <= x
  BY DEF Strip
<1>4. k * size + size <= l * size
  <2> HIDE DEF size
  <2>1. (k + 1) * size <= l * size
    BY <1>1
  <2>2. (k + 1) * size = k * size + size
    BY <1>1
  <2> QED
    BY <2>1, <2>2
<1>5. k * size \in Nat /\ l * size \in Nat
  BY <1>1
<1> HIDE DEF size
<1> QED
  BY <1>1, <1>2, <1>3, <1>4, <1>5

\* A coordinate is in one strip only.
LEMMA StripUnique ==
  ASSUME NEW n \in Nat, NEW s \in Nat \ {0}, NEW k \in 0..s - 1, NEW l \in 0..s - 1,
         NEW x \in Strip(n, s, k), x \in Strip(n, s, l)
  PROVE  k = l
PROOF
<1>1. ~(k < l) /\ ~(l < k)
  BY StripOrder
<1> QED
  BY <1>1

\* The row and the column of a tile.
LEMMA TileCoordinates ==
  ASSUME NEW s \in Nat \ {0}, NEW u \in 0..(s * s) - 1
  PROVE  u \div s \in 0..s - 1 /\ u % s \in 0..s - 1 /\ u = (u \div s) * s + (u % s)
PROOF
<1> DEFINE q == u \div s
           r == u % s
<1>1. u = s * q + r /\ q \in Nat /\ r \in Nat /\ r < s
  BY DivMod
<1> HIDE DEF q, r
<1>2. q < s
  <2> SUFFICES ASSUME s <= q PROVE FALSE
    BY <1>1
  <2>1. s * s <= s * q
    BY <1>1
  <2> QED
    BY <1>1, <2>1
<1>3. s * q = q * s
  BY <1>1
<1> QED
  BY <1>1, <1>2, <1>3 DEF q, r

\* The number of a tile gives its row and its column back.
LEMMA TileNumber ==
  ASSUME NEW s \in Nat \ {0}, NEW i \in 0..s - 1, NEW j \in 0..s - 1
  PROVE  /\ i * s + j \in 0..(s * s) - 1
         /\ (i * s + j) \div s = i /\ (i * s + j) % s = j
PROOF
<1>1. (i + 1) * s <= s * s
  OBVIOUS
<1>2. i * s \in Nat /\ (i + 1) * s = i * s + s
  OBVIOUS
<1>3. i * s + j \in 0..(s * s) - 1
  BY <1>1, <1>2
<1> QED
  BY <1>3, DivModUnique

\* Every cell of the output is written by a unit, and by one only.
LEMMA CellCovered ==
  ASSUME njobs \in Nat \ {0}, NEW p, WellFormed(p), NEW x \in Cells(p)
  PROVE  \E u \in 0..Units(p) - 1 : Writes(p, u, x)
PROOF
<1>1. CASE IsGEMM(p)
  <2> DEFINE s == SqrtJobs
  <2>1. /\ s \in Nat \ {0} /\ p.M \in Nat /\ p.N \in Nat /\ Units(p) = s * s
        /\ x[1] \in 0..p.M - 1 /\ x[2] \in 0..p.N - 1
    BY <1>1, SqrtFacts, UnitsType DEF Cells
  <2> HIDE DEF s
  <2>2. PICK i \in 0..s - 1 : x[1] \in Strip(p.M, s, i)
    BY <2>1, StripCover
  <2>3. PICK j \in 0..s - 1 : x[2] \in Strip(p.N, s, j)
    BY <2>1, StripCover
  <2>4. /\ i * s + j \in 0..Units(p) - 1
        /\ (i * s + j) \div s = i /\ (i * s + j) % s = j
    BY <2>1, TileNumber
  <2>5. Writes(p, i * s + j, x)
    BY <1>1, <2>2, <2>3, <2>4 DEF Writes, s
  <2> QED
    BY <2>4, <2>5
<1>2. CASE ~IsGEMM(p)
  BY <1>2 DEF Cells, Units, Writes
<1> QED
  BY <1>1, <1>2

\* Two units of one call that write one cell are the same unit.
LEMMA CellOnce ==
  ASSUME njobs \in Nat \ {0}, NEW p, WellFormed(p), NEW x \in Cells(p),
         NEW u \in 0..Units(p) - 1, NEW v \in 0..Units(p) - 1,
         Writes(p, u, x), Writes(p, v, x)
  PROVE  u = v
PROOF
<1>1. CASE IsGEMM(p)
  <2> DEFINE s == SqrtJobs
  <2>1. /\ s \in Nat \ {0} /\ p.M \in Nat /\ p.N \in Nat /\ Units(p) = s * s
    BY <1>1, SqrtFacts, UnitsType
  <2>2. /\ x[1] \in Strip(p.M, s, u \div s) /\ x[1] \in Strip(p.M, s, v \div s)
        /\ x[2] \in Strip(p.N, s, u % s) /\ x[2] \in Strip(p.N, s, v % s)
    BY <1>1 DEF Writes
  <2> HIDE DEF s
  <2>3. /\ u \div s \in 0..s - 1 /\ u % s \in 0..s - 1 /\ u = (u \div s) * s + (u % s)
        /\ v \div s \in 0..s - 1 /\ v % s \in 0..s - 1 /\ v = (v \div s) * s + (v % s)
    BY <2>1, TileCoordinates
  <2>4. u \div s = v \div s /\ u % s = v % s
    BY <2>1, <2>2, <2>3, StripUnique
  <2> QED
    BY <2>3, <2>4
<1>2. CASE ~IsGEMM(p)
  BY <1>2 DEF Writes
<1> QED
  BY <1>1, <1>2

------------------------------------------------------------------------------
(* Outputs. *)

\* A unit of a GEMM writes the cells within the bounds of its tile, and no others.
LEMMA TileWrites ==
  ASSUME njobs \in Nat \ {0}, NEW p, WellFormed(p), IsGEMM(p), NEW x \in Cells(p),
         NEW u \in 0..Units(p) - 1
  PROVE  LET tile == Tile(p, u)
         IN  Writes(p, u, x) <=> /\ x[1] \in tile.M_start..tile.M_start + tile.M_len - 1
                                 /\ x[2] \in tile.N_start..tile.N_start + tile.N_len - 1
PROOF
<1> DEFINE s == SqrtJobs
           i == u \div s
           j == u % s
           height == p.M \div s
           width == p.N \div s
           rows == IF i = s - 1 THEN p.M - i * height ELSE height
           columns == IF j = s - 1 THEN p.N - j * width ELSE width
<1>1. /\ s \in Nat \ {0} /\ p.M \in Nat /\ p.N \in Nat /\ Units(p) = s * s
      /\ x[1] \in Nat /\ x[2] \in Nat
  BY SqrtFacts, UnitsType DEF Cells
<1>2. Tile(p, u) = [M_start |-> i * height, N_start |-> j * width, M_len |-> rows,
                    N_len |-> columns]
  BY DEF Tile
<1>3. Writes(p, u, x) <=> /\ i * height <= x[1] /\ x[1] < i * height + rows
                          /\ j * width <= x[2] /\ x[2] < j * width + columns
  BY <1>1 DEF Writes, Strip
<1>4. i \in Nat /\ j \in Nat /\ height \in Nat /\ width \in Nat
  <2>1. u \in Nat
    BY <1>1
  <2> HIDE DEF s
  <2> QED
    BY <1>1, <2>1, DivMod
<1> HIDE DEF i, j, height, width
<1>5. i * height \in Nat /\ j * width \in Nat /\ rows \in Int /\ columns \in Int
  <2>1. i * height \in Nat /\ j * width \in Nat
    BY <1>4
  <2> QED
    BY <1>1, <1>4, <2>1
<1> DEFINE a == i * height
           b == j * width
<1> HIDE DEF a, b, rows, columns
<1>6. /\ a \in Nat /\ b \in Nat
      /\ Tile(p, u) = [M_start |-> a, N_start |-> b, M_len |-> rows, N_len |-> columns]
      /\ Writes(p, u, x) <=> /\ a <= x[1] /\ x[1] < a + rows
                             /\ b <= x[2] /\ x[2] < b + columns
  BY <1>2, <1>3, <1>5 DEF a, b
<1> QED
  BY <1>1, <1>5, <1>6

\* The product over a tile is the one over everything, cell by cell, when its operands are
\* stored as they are read.
LEMMA TileProductIsProduct ==
  ASSUME njobs \in Nat \ {0}, NEW p, WellFormed(p), IsGEMM(p), Straight(p),
         NEW u \in 0..Units(p) - 1, NEW m \in Nat, NEW n \in Nat
  PROVE  TileProduct(p, Tile(p, u), m, n) = <<RowStart(p, m), ColumnStart(p, n)>>
PROOF
<1> DEFINE s == SqrtJobs
           a == (u \div s) * (p.M \div s)
           b == (u % s) * (p.N \div s)
<1>1. s \in Nat \ {0} /\ p.M \in Nat /\ p.N \in Nat /\ p.K \in Nat /\ u \in Nat
  BY SqrtFacts, UnitsType
<1>2. Tile(p, u).M_start = a /\ Tile(p, u).N_start = b
  BY DEF Tile
<1>3. a \in Nat /\ b \in Nat
  <2> HIDE DEF s
  <2>1. u \div s \in Nat /\ u % s \in Nat /\ p.M \div s \in Nat /\ p.N \div s \in Nat
    BY <1>1, DivMod
  <2> QED
    BY <2>1
<1> HIDE DEF a, b
<1>4. TileProduct(p, Tile(p, u), m, n) = <<a * p.K + (m - a) * p.K, b + (n - b)>>
  BY <1>2 DEF TileProduct, RowStart, ColumnStart, Straight
<1>5. a * p.K + (m - a) * p.K = m * p.K
  <2> DEFINE k == p.K
  <2>1. k \in Nat
    BY <1>1
  <2> HIDE DEF k
  <2>2. a * k + (m - a) * k = m * k
    BY <1>3, <2>1
  <2> QED
    BY <2>2 DEF k
<1>6. b + (n - b) = n
  BY <1>3
<1>7. RowStart(p, m) = m * p.K /\ ColumnStart(p, n) = n
  BY DEF RowStart, ColumnStart, Straight
<1> QED
  BY <1>4, <1>5, <1>6, <1>7

\* Appending to a sequence of one element.
LEMMA AppendToOne ==
  ASSUME NEW d, NEW e
  PROVE  Append(<<d>>, e) = <<d, e>>
PROOF
<1> DEFINE a == Append(<<d>>, e)
           b == <<d, e>>
<1>1. <<d>> \in Seq({d, e}) /\ b \in Seq({d, e})
  OBVIOUS
<1>2. a \in Seq({d, e}) /\ Len(a) = 2 /\ a[1] = d /\ a[2] = e
  BY <1>1, AppendProperties
<1>3. Len(b) = 2 /\ b[1] = d /\ b[2] = e
  OBVIOUS
<1>4. \A i \in 1..Len(b) : i = 1 \/ i = 2
  OBVIOUS
<1>5. \A i \in 1..Len(b) : a[i] = b[i]
  BY <1>2, <1>3, <1>4
<1> HIDE DEF a, b
<1>6. a = b
  BY <1>1, <1>2, <1>3, <1>5, SeqEqual
<1> QED
  BY <1>6 DEF a, b

\* Doing a unit that is still to be done.
LEMMA UnitWritten ==
  ASSUME njobs \in Nat \ {0}, NEW p, WellFormed(p), Straight(p),
         NEW P \in SUBSET (0..Units(p) - 1), NEW u \in P
  PROVE  AfterUnit(p, Filled(p, P), u) = Filled(p, P \ {u})
PROOF
<1> DEFINE before == Filled(p, P)
           after == Filled(p, P \ {u})
<1>1. u \in 0..Units(p) - 1
  OBVIOUS
<1>2. ASSUME NEW x \in Cells(p), Writes(p, u, x)
      PROVE  before[x] = Base(p) /\ after[x] = Sequential(p)[x]
  <2>1. \A v \in P \ {u} : ~Writes(p, v, x)
    BY <1>2, CellOnce
  <2> QED
    BY <1>2, <2>1 DEF Filled
<1>3. ASSUME NEW x \in Cells(p), ~Writes(p, u, x)
      PROVE  before[x] = after[x]
  BY <1>3 DEF Filled
<1>4. CASE IsGEMM(p)
  <2> DEFINE tile == Tile(p, u)
             InTile(x) == /\ x[1] \in tile.M_start..tile.M_start + tile.M_len - 1
                          /\ x[2] \in tile.N_start..tile.N_start + tile.N_len - 1
             result(x) == IF InTile(x) THEN Append(before[x], TileProduct(p, tile, x[1], x[2]))
                          ELSE before[x]
  <2>1. AfterUnit(p, before, u) = [x \in Cells(p) |-> result(x)]
    BY <1>4 DEF AfterUnit
  <2>2. \A x \in Cells(p) : Writes(p, u, x) <=> InTile(x)
    BY <1>1, <1>4, TileWrites
  <2>3. \A x \in Cells(p) : x[1] \in Nat /\ x[2] \in Nat
    BY <1>4, UnitsType DEF Cells
  <2> HIDE DEF InTile, before, after
  <2>4. ASSUME NEW x \in Cells(p) PROVE result(x) = after[x]
    <3>1. CASE Writes(p, u, x)
      <4>1. TileProduct(p, tile, x[1], x[2]) = <<RowStart(p, x[1]), ColumnStart(p, x[2])>>
        BY <1>1, <1>4, <2>3, TileProductIsProduct
      <4>2. result(x) = Append(Base(p), <<RowStart(p, x[1]), ColumnStart(p, x[2])>>)
        BY <1>2, <2>2, <3>1, <4>1
      <4>3. after[x] = Sequential(p)[x]
        BY <1>2, <3>1
      <4> DEFINE product == <<RowStart(p, x[1]), ColumnStart(p, x[2])>>
      <4>4. Sequential(p)[x] = IF p.beta = 0 THEN <<product>> ELSE <<Old, product>>
        BY <1>4 DEF Sequential
      <4> HIDE DEF product
      <4>5. Append(<<>>, product) = <<product>> /\ Append(<<Old>>, product) = <<Old, product>>
        BY AppendToOne
      <4>6. Base(p) = IF p.beta = 0 THEN <<>> ELSE <<Old>>
        BY <1>4 DEF Base
      <4> QED
        BY <4>2, <4>3, <4>4, <4>5, <4>6 DEF product
    <3>2. CASE ~Writes(p, u, x)
      BY <1>3, <2>2, <3>2
    <3> QED
      BY <3>1, <3>2
  <2>5. after = [x \in Cells(p) |-> after[x]]
    BY DEF after, Filled
  <2> QED
    BY <2>1, <2>4, <2>5 DEF before, after
<1>5. CASE ~IsGEMM(p)
  <2>1. u \in Cells(p)
    BY <1>1, <1>5 DEF Cells, Units
  <2>2. AfterUnit(p, before, u) = [before EXCEPT ![u] = <<<<u, u>>>>]
    BY <1>5 DEF AfterUnit
  <2>3. \A x : Writes(p, u, x) <=> x = u
    BY <1>5 DEF Writes
  <2>4. before = [x \in Cells(p) |-> before[x]] /\ after = [x \in Cells(p) |-> after[x]]
    BY DEF Filled
  <2>5. Sequential(p)[u] = <<<<u, u>>>>
    BY <1>5, <2>1 DEF Sequential
  <2>6. after[u] = <<<<u, u>>>>
    BY <1>2, <2>1, <2>3, <2>5
  <2>7. \A x \in Cells(p) : x # u => before[x] = after[x]
    BY <1>3, <2>3
  <2> HIDE DEF before, after
  <2>8. [before EXCEPT ![u] = <<<<u, u>>>>]
          = [x \in Cells(p) |-> IF x = u THEN <<<<u, u>>>> ELSE before[x]]
    BY <2>4
  <2>9. [x \in Cells(p) |-> IF x = u THEN <<<<u, u>>>> ELSE before[x]]
          = [x \in Cells(p) |-> after[x]]
    BY <2>6, <2>7
  <2> QED
    BY <2>2, <2>4, <2>8, <2>9 DEF before, after
<1> QED
  BY <1>4, <1>5

\* A call that is not touched keeps its buffer.
LEMMA OtherBuffers ==
  ASSUME njobs' = njobs, call' = call, NEW d, BufferInv(d),
         pc'[d] = pc[d], C'[d] = C[d], Pending(d)' = Pending(d)
  PROVE  BufferInv(d)'
PROOF
<1>1. Cells(call[d])' = Cells(call[d])
  BY DEF Cells, Turns
<1>2. Filled(call[d], Pending(d))' = Filled(call[d], Pending(d))
  BY SamePool
<1> QED
  BY <1>1, <1>2 DEF BufferInv

\* Before any call has entered, no buffer holds anything.
LEMMA BuffersInvInit == StraightCalls /\ Init => BuffersInv
  BY DEF StraightCalls, Init, BuffersInv, BufferInv

\* A call begins with all its units to do.
LEMMA EnterKeepsBuffers ==
  ASSUME JobsInv, BuffersInv, NEW c \in Calls, Enter(c)
  PROVE  BuffersInv'
PROOF
<1> DEFINE p == call[c]
<1>1. /\ njobs' = njobs /\ call' = call /\ first' = first /\ span' = span
      /\ queued' = queued /\ running' = running /\ pc[c] = "called"
      /\ pc' = [pc EXCEPT ![c] = "scheduling"]
      /\ bc' = [bc EXCEPT ![c] = InitialCount(p)]
      /\ C' = IF IsGEMM(p) /\ p.beta = 0 THEN [C EXCEPT ![c] = [x \in Cells(p) |-> <<>>]] ELSE C
  BY DEF Enter
<1>2. C' = [d \in Calls |-> C'[d]] /\ \A d \in Calls : d # c => C'[d] = C[d]
  BY <1>1 DEF BuffersInv
<1>3. ASSUME NEW d \in Calls, d # c PROVE BufferInv(d)'
  <2>1. Pending(d)' = Pending(d)
    BY <1>1, SamePending
  <2>2. pc'[d] = pc[d]
    BY <1>1, <1>3 DEF JobsInv, Shapes
  <2> QED
    BY <1>1, <1>2, <1>3, <2>1, <2>2, OtherBuffers DEF BuffersInv
<1>4. BufferInv(c)'
  <2>1. C'[c] = [x \in Cells(p) |-> Base(p)]
    <3>1. C[c] = [x \in Cells(p) |-> <<Old>>]
      BY <1>1 DEF BuffersInv, BufferInv
    <3> QED
      BY <1>1, <3>1 DEF Base, BuffersInv
  <2>2. Pending(c)' = 0..Units(p) - 1
    <3>1. span[c] = <<>> /\ first[c] = 0
      BY <1>1, NothingScheduled DEF JobsInv, CountInv, Shapes
    <3>2. Units(p) \in Nat
      BY UnitsType DEF JobsInv, Shapes
    <3> QED
      BY <1>1, <3>1, <3>2, SamePool DEF Pending
  <2>3. Filled(p, 0..Units(p) - 1) = [x \in Cells(p) |-> Base(p)]
    BY CellCovered DEF Filled, JobsInv, Shapes
  <2>4. Filled(call[c], Pending(c))' = Filled(p, 0..Units(p) - 1)
    BY <1>1, <2>2, SamePool
  <2>5. pc'[c] = "scheduling"
    BY <1>1 DEF JobsInv, Shapes
  <2> QED
    BY <2>1, <2>3, <2>4, <2>5 DEF BufferInv
<1> QED
  BY <1>1, <1>2, <1>3, <1>4 DEF BuffersInv, Straight

\* Giving units to a closure does not do them: what is still to be done is the same.
LEMMA ScheduleKeepsPending ==
  ASSUME JobsInv, NEW c \in Calls, Schedule(c)
  PROVE  Pending(c)' = Pending(c)
PROOF
<1> DEFINE p == call[c]
           t == Len(span[c])
           f == first[c]
           job == [next |-> StartOfJob(p, t, f), last |-> EndOfJob(p, t, f)]
           u == Units(p)
<1>1. /\ njobs' = njobs /\ call' = call /\ ~AllScheduled(p, t, f)
      /\ span' = [span EXCEPT ![c] = Append(@, job)]
      /\ first' = [first EXCEPT ![c] = job.last]
  BY DEF Schedule
<1>2. CountInv(c) /\ Shapes
  BY DEF JobsInv
<1>3. t \in Nat /\ DOMAIN span[c] = 1..t
  BY <1>2, OutstandingFinite
<1>4. /\ f \in Nat /\ job.next \in Nat /\ job.last \in Nat
      /\ f <= job.last /\ job.last <= u /\ f <= job.next
      /\ job.next = f \/ u <= f
  <2>1. njobs \in Nat \ {0} /\ WellFormed(p) /\ f = FirstAfter(p, t)
    BY <1>2 DEF Shapes, CountInv
  <2> QED
    BY <1>1, <1>3, <2>1, NextJob
<1>5. u \in Nat
  BY <1>2, UnitsType DEF Shapes
<1> HIDE DEF job
<1>6. span'[c] = Append(span[c], job) /\ span[c] \in Seq([next : Nat, last : Nat])
      /\ first'[c] = job.last
  BY <1>1, <1>2 DEF Shapes
<1>7. job \in [next : Nat, last : Nat]
  BY <1>4 DEF job
<1>8. /\ DOMAIN span'[c] = 1..t + 1
      /\ \A k \in 1..t : span'[c][k] = span[c][k]
      /\ span'[c][t + 1] = job
  BY <1>3, <1>6, <1>7
<1>9. Units(call[c])' = u
  BY <1>1, SamePool
<1> DEFINE old == span[c]
           new == span'[c]
           g == first'[c]
<1>10. Pending(c) = {v \in 0..u - 1 : v >= f \/ \E k \in 1..t : old[k].next <= v /\ v < old[k].last}
  BY <1>3 DEF Pending
<1>11. Pending(c)' = {v \in 0..u - 1 :
                        v >= g \/ \E k \in 1..t + 1 : new[k].next <= v /\ v < new[k].last}
  BY <1>8, <1>9 DEF Pending
<1> HIDE DEF t, f, u, old, new, g
<1>12. ASSUME NEW v \in 0..u - 1
       PROVE  (v >= g \/ \E k \in 1..t + 1 : new[k].next <= v /\ v < new[k].last)
                <=> (v >= f \/ \E k \in 1..t : old[k].next <= v /\ v < old[k].last)
  <2>1. ASSUME NEW k \in 1..t + 1, k # t + 1 PROVE k \in 1..t /\ new[k] = old[k]
    BY <1>3, <1>8, <2>1 DEF new, old
  <2>2. ASSUME NEW k \in 1..t PROVE k \in 1..t + 1 /\ new[k] = old[k]
    BY <1>3, <1>8 DEF new, old
  <2>3. t + 1 \in 1..t + 1 /\ new[t + 1] = job
    BY <1>3, <1>8 DEF new
  <2>4. g = job.last
    BY <1>6 DEF g
  <2>5. (v >= g \/ (job.next <= v /\ v < job.last)) <=> v >= f
    BY <1>4, <1>5, <2>4
  <2>6. (\E k \in 1..t + 1 : new[k].next <= v /\ v < new[k].last)
          <=> \/ job.next <= v /\ v < job.last
              \/ \E k \in 1..t : old[k].next <= v /\ v < old[k].last
    BY <2>1, <2>2, <2>3
  <2> QED
    BY <2>5, <2>6
<1> QED
  BY <1>10, <1>11, <1>12

\* A unit that is done is no longer to be done, and nobody else had it.
LEMMA DoUnitPending ==
  ASSUME JobsInv, NEW c \in Calls, NEW k, DoUnit(c, k)
  PROVE  /\ span[c][k].next \in Pending(c)
         /\ Pending(c)' = Pending(c) \ {span[c][k].next}
PROOF
<1> DEFINE old == span[c]
           new == span'[c]
           n == Len(old)
           f == first[c]
           u == Units(call[c])
           w == old[k].next
<1>1. njobs' = njobs /\ call' = call /\ first' = first /\ old[k].next < old[k].last
  BY DEF DoUnit
<1>2. /\ k \in 1..n /\ DOMAIN new = 1..n
      /\ new[k].next = old[k].next + 1 /\ new[k].last = old[k].last
      /\ \A l \in 1..n : l # k => new[l] = old[l]
  BY UnitDone
<1>3. /\ DOMAIN old = 1..n /\ \A l \in 1..n : old[l].next \in Nat /\ old[l].last \in Nat
  BY OutstandingFinite DEF JobsInv
<1>4. /\ \A l \in 1..n : old[l].last <= f /\ old[l].last <= u
      /\ \A l, m \in 1..n : l # m => Apart(old[l], old[m])
  BY <1>3 DEF JobsInv, SpanInv
<1>5. u \in Nat /\ f \in Nat
  BY UnitsType DEF JobsInv, Shapes
<1>6. Units(call[c])' = u
  BY <1>1, SamePool
<1>7. Pending(c) = {v \in 0..u - 1 : v >= f \/ \E l \in 1..n : old[l].next <= v /\ v < old[l].last}
  BY <1>3 DEF Pending
<1>8. Pending(c)' = {v \in 0..u - 1 : v >= f \/ \E l \in 1..n : new[l].next <= v /\ v < new[l].last}
  BY <1>1, <1>2, <1>6 DEF Pending
<1> HIDE DEF old, new, n, f, u
<1>9. w \in 0..u - 1 /\ w < f /\ w < old[k].last
  BY <1>1, <1>2, <1>3, <1>4, <1>5
<1>10. w \in Pending(c)
  BY <1>2, <1>7, <1>9
<1>11. ASSUME NEW v \in 0..u - 1, v # w
       PROVE  (\E l \in 1..n : new[l].next <= v /\ v < new[l].last)
                <=> (\E l \in 1..n : old[l].next <= v /\ v < old[l].last)
  <2>1. (new[k].next <= v /\ v < new[k].last) <=> (old[k].next <= v /\ v < old[k].last)
    BY <1>2, <1>3, <1>11
  <2> QED
    BY <1>2, <2>1
<1>12. ~(\E l \in 1..n : new[l].next <= w /\ w < new[l].last)
  <2> SUFFICES ASSUME NEW l \in 1..n, new[l].next <= w, w < new[l].last PROVE FALSE
    OBVIOUS
  <2>1. CASE l = k
    BY <1>2, <1>3, <2>1
  <2>2. CASE l # k
    <3>1. Apart(old[l], old[k]) /\ new[l] = old[l]
      BY <1>2, <1>4, <2>2
    <3>2. /\ old[l].next \in Nat /\ old[l].last \in Nat /\ old[k].next \in Nat
          /\ old[k].last \in Nat
      BY <1>2, <1>3
    <3> QED
      BY <1>9, <3>1, <3>2 DEF Apart
  <2> QED
    BY <2>1, <2>2
<1>13. Pending(c)' = Pending(c) \ {w}
  BY <1>5, <1>7, <1>8, <1>9, <1>11, <1>12
<1> QED
  BY <1>10, <1>13 DEF old

\* A thread computes the next unit of its closure: it adds to cells no other unit writes.
LEMMA DoUnitKeepsBuffers ==
  ASSUME JobsInv, BuffersInv, NEW c \in Calls, NEW k, DoUnit(c, k)
  PROVE  BuffersInv'
PROOF
<1> DEFINE p == call[c]
           w == span[c][k].next
<1>1. /\ njobs' = njobs /\ call' = call /\ first' = first /\ pc' = pc
      /\ span' = [span EXCEPT ![c][k].next = @ + 1]
      /\ C' = [C EXCEPT ![c] = AfterUnit(p, @, w)]
  BY DEF DoUnit
<1>2. C' = [d \in Calls |-> C'[d]] /\ \A d \in Calls : d # c => C'[d] = C[d]
  BY <1>1 DEF BuffersInv
<1>3. C'[c] = AfterUnit(p, C[c], w)
  BY <1>1 DEF BuffersInv
<1>4. ASSUME NEW d \in Calls, d # c PROVE BufferInv(d)'
  <2>1. span'[d] = span[d]
    BY <1>1, <1>4 DEF JobsInv, Shapes
  <2>2. Pending(d)' = Pending(d)
    BY <1>1, <2>1, SamePending
  <2> QED
    BY <1>1, <1>2, <1>4, <2>2, OtherBuffers DEF BuffersInv
<1>5. BufferInv(c)'
  <2>1. pc[c] # "called"
    BY UnitDone DEF JobsInv, CountInv
  <2>2. C[c] = Filled(p, Pending(c))
    BY <2>1 DEF BuffersInv, BufferInv
  <2>3. w \in Pending(c) /\ Pending(c)' = Pending(c) \ {w}
    BY DoUnitPending
  <2>4. Pending(c) \in SUBSET (0..Units(p) - 1)
    BY DEF Pending
  <2>5. njobs \in Nat \ {0} /\ WellFormed(p) /\ Straight(p)
    BY DEF JobsInv, Shapes, BuffersInv
  <2>6. AfterUnit(p, Filled(p, Pending(c)), w) = Filled(p, Pending(c) \ {w})
    BY <2>3, <2>4, <2>5, UnitWritten
  <2>7. Filled(call[c], Pending(c))' = Filled(p, Pending(c) \ {w})
    BY <1>1, <2>3, SamePool
  <2> QED
    BY <1>1, <1>3, <2>1, <2>2, <2>6, <2>7 DEF BufferInv
<1> QED
  BY <1>1, <1>2, <1>4, <1>5 DEF BuffersInv, Straight

\* One step of the callers or of the pool.
LEMMA BuffersInvStep == JobsInv /\ BuffersInv /\ [Next]_vars => BuffersInv'
PROOF
<1> SUFFICES ASSUME JobsInv, BuffersInv, [Next]_vars PROVE BuffersInv'
  OBVIOUS
\* What is left to do, and the buffers, only change when a unit is done.
<1>1. ASSUME njobs' = njobs, call' = call, C' = C,
             \A d \in Calls : Pending(d)' = Pending(d) /\ (pc'[d] = "called" <=> pc[d] = "called")
      PROVE  BuffersInv'
  <2>1. ASSUME NEW d \in Calls PROVE BufferInv(d)'
    <3>1. Filled(call[d], Pending(d))' = Filled(call[d], Pending(d))
      BY <1>1, SamePool
    <3>2. BufferInv(d)
      BY DEF BuffersInv
    <3> QED
      BY <1>1, <3>1, <3>2 DEF BufferInv
  <2>2. \A d \in Calls : Straight(call[d])'
    BY <1>1 DEF BuffersInv, Straight
  <2> QED
    BY <1>1, <2>1, <2>2 DEF BuffersInv
<1>2. CASE UNCHANGED vars
  BY <1>1, <1>2, SamePending DEF vars
<1>3. ASSUME NEW c \in Calls, Enter(c) PROVE BuffersInv'
  BY <1>3, EnterKeepsBuffers
<1>4. ASSUME NEW c \in Calls, Schedule(c) PROVE BuffersInv'
  <2>1. /\ njobs' = njobs /\ call' = call /\ C' = C /\ pc' = pc
        /\ \A d \in Calls : d # c => first'[d] = first[d] /\ span'[d] = span[d]
    BY <1>4 DEF Schedule, JobsInv, Shapes
  <2>2. Pending(c)' = Pending(c)
    BY <1>4, ScheduleKeepsPending
  <2>3. \A d \in Calls : d # c => Pending(d)' = Pending(d)
    BY <2>1, SamePending
  <2> QED
    BY <1>1, <2>1, <2>2, <2>3
<1>5. ASSUME NEW c \in Calls, Return(c) PROVE BuffersInv'
  <2>1. /\ njobs' = njobs /\ call' = call /\ C' = C /\ first' = first /\ span' = span
        /\ \A d \in Calls : pc'[d] = "called" <=> pc[d] = "called"
    BY <1>5 DEF Return, JobsInv, Shapes
  <2> QED
    BY <1>1, <2>1, SamePending
<1>6. ASSUME NEW c \in Calls, NEW k, Take(c, k) \/ DecrementCount(c, k) PROVE BuffersInv'
  <2>1. /\ njobs' = njobs /\ call' = call /\ C' = C /\ first' = first /\ span' = span
        /\ pc' = pc
    BY <1>6 DEF Take, DecrementCount
  <2> QED
    BY <1>1, <2>1, SamePending
<1>7. ASSUME NEW c \in Calls, NEW k, DoUnit(c, k) PROVE BuffersInv'
  BY <1>7, DoUnitKeepsBuffers
<1> QED
  BY <1>2, <1>3, <1>4, <1>5, <1>6, <1>7 DEF Next, Quiet, Caller, Thread

\* The invariant of the output buffers.
LEMMA BuffersInvAlways == StraightCalls /\ Spec => [](JobsInv /\ BuffersInv)
  BY BuffersInvInit, BuffersInvStep, JobsInvInit, JobsInvStep, PTL DEF Spec

\* A call that has returned has the output of the sequential kernel.
LEMMA ReturnedOutput ==
  ASSUME JobsInv, BuffersInv, NEW c \in Calls, pc[c] # "called", Outstanding(c) = {},
         AllScheduled(call[c], Len(span[c]), first[c])
  PROVE  C[c] = Sequential(call[c])
PROOF
<1> DEFINE p == call[c]
<1>1. Units(p) \in Nat /\ first[c] \in Nat /\ first[c] >= Units(p)
  <2>1. /\ njobs \in Nat \ {0} /\ WellFormed(p) /\ Len(span[c]) \in Nat
        /\ first[c] = FirstAfter(p, Len(span[c])) /\ first[c] \in Nat
    BY OutstandingFinite DEF JobsInv, Shapes, CountInv
  <2> QED
    BY <2>1, UnitsType, AllGivenAway
<1>2. Pending(c) = {}
  <2> SUFFICES ASSUME NEW v \in Pending(c) PROVE FALSE
    OBVIOUS
  <2>1. v \in 0..Units(p) - 1 /\ ~(v >= first[c])
    BY <1>1 DEF Pending
  <2>2. PICK k \in DOMAIN span[c] : span[c][k].next <= v /\ v < span[c][k].last
    BY <2>1 DEF Pending
  <2>3. span[c][k].next >= span[c][k].last
    BY DEF JobsInv, SpanInv
  <2>4. span[c][k].next \in Nat /\ span[c][k].last \in Nat
    BY <2>2, OutstandingFinite DEF JobsInv
  <2> QED
    BY <2>1, <2>2, <2>3, <2>4
<1>3. C[c] = Filled(p, {})
  BY <1>2 DEF BuffersInv, BufferInv
<1>4. Filled(p, {}) = [x \in Cells(p) |-> Sequential(p)[x]]
  BY DEF Filled
<1>5. Sequential(p) = [x \in Cells(p) |-> Sequential(p)[x]]
  BY DEF Sequential
<1> QED
  BY <1>3, <1>4, <1>5

\* Batch3DParallel, Batch4DParallel, ArgMax3DParallel and, for operands that are stored as they
\* are read, GEMMParallel: whatever calls share the pool and in whatever order its threads
\* work, a call that returns leaves the output of the sequential kernel, and nothing changes
\* it afterwards.  (For a transposed operand run gemm_transposed shows that it does not.)
THEOREM KernelsImplementSequential ==
  ASSUME StraightCalls
  PROVE  Spec => ImplementsSequential
PROOF
<1> DEFINE returned == {c \in Calls : pc[c] = "returned"}
           output == [c \in Calls |-> IF pc[c] = "returned" THEN C[c] ELSE <<>>]
<1>1. Init => Atomic!CallsInit
  BY DEF Init, Atomic!CallsInit, Atomic!NoOutput
<1>2. ASSUME JobsInv, BuffersInv, [Next]_vars
      PROVE  [\E c \in Calls : Atomic!Return(c)]_(Atomic!callVars)
  <2>1. ASSUME call' = call,
               \A c \in Calls : /\ pc'[c] = "returned" <=> pc[c] = "returned"
                                /\ pc[c] = "returned" => C'[c] = C[c]
        PROVE  UNCHANGED Atomic!callVars
    <3>1. returned' = returned
      BY <2>1
    <3>2. output' = output
      BY <2>1
    <3> QED
      BY <2>1, <3>1, <3>2 DEF Atomic!callVars
  <2>2. CASE UNCHANGED vars
    BY <2>1, <2>2 DEF vars
  <2>3. ASSUME NEW c \in Calls, Enter(c) PROVE UNCHANGED Atomic!callVars
    <3>1. call' = call /\ pc[c] = "called" /\ pc' = [pc EXCEPT ![c] = "scheduling"]
      BY <2>3 DEF Enter
    <3>2. \A d \in Calls : d # c => C'[d] = C[d] /\ pc'[d] = pc[d]
      BY <2>3 DEF Enter, BuffersInv, JobsInv, Shapes
    <3>3. pc'[c] = "scheduling"
      BY <3>1, <1>2 DEF JobsInv, Shapes
    <3> QED
      BY <2>1, <3>1, <3>2, <3>3
  <2>4. ASSUME NEW c \in Calls, Schedule(c) PROVE UNCHANGED Atomic!callVars
    BY <2>1, <2>4 DEF Schedule
  <2>5. ASSUME NEW c \in Calls, Return(c) PROVE Atomic!Return(c)
    <3>1. /\ call' = call /\ C' = C /\ pc[c] = "scheduling" /\ bc[c] = 0
          /\ pc' = [pc EXCEPT ![c] = "returned"]
          /\ AllScheduled(call[c], Len(span[c]), first[c])
      BY <2>5 DEF Return
    <3>2. /\ pc'[c] = "returned" /\ \A d \in Calls : d # c => pc'[d] = pc[d]
      BY <1>2, <3>1 DEF JobsInv, Shapes
    <3>3. C[c] = Sequential(call[c])
      <4>1. Outstanding(c) = {}
        <5>1. JobsInv'
          BY <1>2, <2>5, ReturnKeepsJobs
        <5>2. Outstanding(c)' = {}
          BY <3>2, <5>1 DEF JobsInv, CountInv
        <5> QED
          BY <2>5, <5>2 DEF Outstanding, Return
      <4> QED
        BY <1>2, <3>1, <4>1, ReturnedOutput
    <3>4. c \notin returned /\ returned' = returned \cup {c}
      BY <3>1, <3>2
    <3>5. output' = [output EXCEPT ![c] = Sequential(call[c])]
      BY <3>1, <3>2, <3>3
    <3> QED
      BY <3>1, <3>4, <3>5 DEF Atomic!Return
  <2>6. ASSUME NEW c \in Calls, NEW k, Take(c, k) \/ DecrementCount(c, k)
        PROVE  UNCHANGED Atomic!callVars
    BY <2>1, <2>6 DEF Take, DecrementCount
  <2>7. ASSUME NEW c \in Calls, NEW k, DoUnit(c, k) PROVE UNCHANGED Atomic!callVars
    <3>1. pc[c] # "returned"
      BY <1>2, <2>7, UnitDone DEF JobsInv, CountInv
    <3>2. call' = call /\ pc' = pc /\ \A d \in Calls : d # c => C'[d] = C[d]
      BY <1>2, <2>7 DEF DoUnit, BuffersInv
    <3> QED
      BY <2>1, <3>1, <3>2
  <2> QED
    BY <1>2, <2>2, <2>3, <2>4, <2>5, <2>6, <2>7 DEF Next, Quiet, Caller, Thread
<1> QED
  BY <1>1, <1>2, BuffersInvAlways, PTL DEF Spec, ImplementsSequential, Atomic!CallsSpec

=============================================================================
