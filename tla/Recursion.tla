------------------------------- MODULE Recursion -------------------------------
(***************************************************************************)
(* What a recursive definition gives, whatever the step it is made of: the *)
(* fold of a sequence, from its first element or from its last one, and    *)
(* what a set grows to until a step adds nothing.  For a fold of their own *)
(* the proofs about a component instantiate this module with its step; p   *)
(* stands for what the step depends on besides.                            *)
(***************************************************************************)
EXTENDS Integers, FiniteSets, Sequences, SequenceTheorems, FiniteSetTheorems, WellFoundedInduction, TLAPS

CONSTANT Step(_, _, _)   \* Step(p, what there is so far, the next element)

\* The last of some positions.
Greatest(s) == CHOOSE x \in s : \A y \in s : x >= y

\* What FoldLeft makes of seq.
Folded(p, base, seq) ==
  LET iter[s \in SUBSET DOMAIN seq] ==
        IF s = {} THEN base
        ELSE LET x == Greatest(s) IN Step(p, iter[s \ {x}], seq[x])
  IN  iter[DOMAIN seq]

\* A fold over the numbers up to n.
Counted(p, base, n) ==
  LET upto[k \in 0..n] == IF k = 0 THEN base ELSE Step(p, upto[k - 1], k)
  IN  upto[n]

\* What a subset of all grows to.
Grown(p, all, from) ==
  LET upto[s \in SUBSET all] ==
        LET more == Step(p, s, s) IN IF more = s THEN s ELSE upto[more]
  IN  upto[from]

------------------------------------------------------------------------------
(* Positions. *)

\* A set of positions that is not empty has a last one: the sets of positions behind each of
\* them are ordered by inclusion, which is well-founded, and the least of them is empty.
LEMMA LastExists ==
  ASSUME NEW n \in Nat, NEW T \in SUBSET (1..n), T # {}
  PROVE  \E x \in T : \A y \in T : y <= x
PROOF
<1> DEFINE Above(x) == {y \in T : y > x}
           F == {Above(x) : x \in T}
<1>0. 1 \in Int /\ n \in Int /\ \A y \in T : y \in Int
  OBVIOUS
<1>1. IsFiniteSet(T)
  <2>1. IsFiniteSet(1..n)
    BY <1>0, FS_Interval
  <2> QED
    BY <2>1, FS_Subset
<1>2. IsWellFoundedOn(StrictSubsetOrdering(T), FiniteSubsetsOf(T))
  BY FS_StrictSubsetOrderingWellFounded
<1>3. F \subseteq FiniteSubsetsOf(T) /\ F # {}
  <2>1. \A x \in T : Above(x) \in SUBSET T
    OBVIOUS
  <2>2. \A x \in T : IsFiniteSet(Above(x))
    BY <1>1, <2>1, FS_Subset
  <2> QED
    BY <2>1, <2>2 DEF FiniteSubsetsOf
<1> HIDE DEF F
<1>4. PICK U \in F : \A V \in F : ~ (<<V, U>> \in StrictSubsetOrdering(T))
  BY <1>2, <1>3, WFMin
<1>5. PICK x \in T : U = Above(x)
  BY DEF F
<1>6. ASSUME NEW y \in T, ~(y <= x)
      PROVE  FALSE
  <2>1. x \in Int /\ y \in Int /\ y > x
    BY <1>0, <1>6
  <2>2. Above(y) \in F
    BY DEF F
  <2>3. Above(y) \subseteq Above(x) /\ y \in Above(x) /\ y \notin Above(y)
    <3>1. \A z \in T : z > y => z > x
      BY <1>0, <2>1
    <3>2. ~(y > y)
      BY <2>1
    <3> QED
      BY <2>1, <3>1, <3>2, Zenon
  <2>4. <<Above(y), Above(x)>> \in StrictSubsetOrdering(T)
    BY <2>3 DEF StrictSubsetOrdering
  <2> QED
    BY <1>4, <1>5, <2>2, <2>4
<1> QED
  BY <1>6

\* The first position of a set of positions.
LEMMA FirstExists ==
  ASSUME NEW n \in Nat, NEW T \in SUBSET (1..n), T # {}
  PROVE  \E x \in T : \A y \in T : x <= y
PROOF
<1> DEFINE U == {n + 1 - x : x \in T}
<1>1. \A x \in T : x \in 1..n
  OBVIOUS
<1>2. U \in SUBSET (1..n) /\ U # {}
  <2>1. \A x \in 1..n : n + 1 - x \in 1..n
    OBVIOUS
  <2> QED
    BY <1>1, <2>1
<1> HIDE DEF U
<1>3. PICK u \in U : \A w \in U : w <= u
  BY <1>2, LastExists
<1>4. PICK x \in T : u = n + 1 - x
  BY <1>3 DEF U
<1>5. ASSUME NEW y \in T
      PROVE  x <= y
  <2>1. n + 1 - y \in U
    BY DEF U
  <2>2. n + 1 - y <= n + 1 - x
    BY <1>3, <1>4, <2>1
  <2>3. x \in 1..n /\ y \in 1..n
    BY <1>1
  <2> QED
    BY <2>2, <2>3
<1> QED
  BY <1>5

\* From position to position: what holds before the first one and goes on holds at the last.
LEMMA StepByStep ==
  ASSUME NEW n \in Nat, NEW T, 0 \in T, \A k \in 1..n : k - 1 \in T => k \in T
  PROVE  \A k \in 0..n : k \in T
PROOF
<1> DEFINE U == {k \in 1..n : k \notin T}
<1>1. U \in SUBSET (1..n)
  OBVIOUS
<1>2. CASE U = {}
  <2>1. \A k \in 0..n : k = 0 \/ k \in 1..n
    OBVIOUS
  <2> QED
    BY <1>2, <2>1
<1>3. CASE U # {}
  <2> HIDE DEF U
  <2>1. PICK x \in U : \A y \in U : x <= y
    BY <1>1, <1>3, FirstExists
  <2>2. x \in 1..n /\ x \notin T
    BY <2>1 DEF U
  <2>3. x - 1 \notin T
    BY <2>2
  <2>4. x - 1 \in 1..n
    BY <2>2, <2>3
  <2>5. x - 1 \in U
    BY <2>3, <2>4 DEF U
  <2> QED
    BY <2>1, <2>2, <2>5
<1> QED
  BY <1>2, <1>3

------------------------------------------------------------------------------
(* Each recursion has a solution, and what it gives is the last of a chain of steps. *)

\* What the step is given beside what there is so far: the number, or the same again.
Third(next, acc, k) == IF next = "same" THEN acc ELSE k

\* f is the recursive function of Counted, or of a chain of sets.
IsCount(f, p, base, n, next) ==
  f = [k \in 0..n |-> IF k = 0 THEN base ELSE Step(p, f[k - 1], Third(next, f[k - 1], k))]

\* There is such a function: what defines it up to one number defines it up to the next.
LEMMA CountExists ==
  ASSUME NEW p, NEW base, NEW n \in Nat, NEW next
  PROVE  \E f : IsCount(f, p, base, n, next)
PROOF
<1> DEFINE e(f, k) == IF k = 0 THEN base ELSE Step(p, f[k - 1], Third(next, f[k - 1], k))
           Long == {m \in 0..n : \E f : IsCount(f, p, base, m, next)}
<1>0. \A f, m : IsCount(f, p, base, m, next) <=> f = [k \in 0..m |-> e(f, k)]
  BY DEF IsCount
<1>1. 0 \in Long
  <2> DEFINE f == [k \in 0..0 |-> base]
  <2>1. IsCount(f, p, base, 0, next)
    BY DEF IsCount
  <2> HIDE DEF f
  <2> QED
    BY <2>1
<1>2. ASSUME NEW m \in 1..n, m - 1 \in Long
      PROVE  m \in Long
  <2>1. PICK f : IsCount(f, p, base, m - 1, next)
    BY <1>2
  <2>2. PICK h : h = [k \in 0..m |-> e(f, k)]
    OBVIOUS
  <2>3. \A k \in 0..m - 1 : k \in 0..m /\ h[k] = f[k]
    <3> HIDE DEF e
    <3> QED
      BY <1>0, <2>1, <2>2
  <2>4. \A k \in 0..m : h[k] = e(h, k)
    <3> TAKE k \in 0..m
    <3>1. k # 0 => k - 1 \in 0..m - 1
      OBVIOUS
    <3> QED
      BY <2>2, <2>3, <3>1
  <2>5. IsCount(h, p, base, m, next)
    <3> HIDE DEF e
    <3> QED
      BY <1>0, <2>2, <2>4
  <2> QED
    BY <2>5
<1> HIDE DEF Long
<1>3. \A k \in 0..n : k \in Long
  BY <1>1, <1>2, StepByStep
<1>4. n \in Long
  BY <1>3
<1> QED
  BY <1>4 DEF Long

\* The values one by one.
LEMMA CountValues ==
  ASSUME NEW p, NEW base, NEW n \in Nat, NEW next, NEW f, IsCount(f, p, base, n, next)
  PROVE  /\ f[0] = base
         /\ \A k \in 1..n : f[k] = Step(p, f[k - 1], Third(next, f[k - 1], k))
PROOF
<1> DEFINE e(k) == IF k = 0 THEN base ELSE Step(p, f[k - 1], Third(next, f[k - 1], k))
<1>2. f = [k \in 0..n |-> e(k)]
  BY DEF IsCount
<1>3. \A k \in 0..n : f[k] = e(k)
  <2> HIDE DEF e
  <2> QED
    BY <1>2
<1>4. \A k \in 1..n : k \in 0..n /\ k # 0
  OBVIOUS
<1>5. 0 \in 0..n
  OBVIOUS
<1> QED
  BY <1>3, <1>4, <1>5

\* acc lists what a fold over numbers comes to, from number to number.
CountsTo(p, base, n, acc) ==
  /\ acc[0] = base
  /\ \A k \in 1..n : acc[k] = Step(p, acc[k - 1], k)
  /\ Counted(p, base, n) = acc[n]

\* A fold over numbers is the last of a chain that starts with base and goes on step by step.
LEMMA CountSteps ==
  ASSUME NEW p, NEW base, NEW n \in Nat
  PROVE  \E acc : CountsTo(p, base, n, acc)
PROOF
<1>1. PICK f : IsCount(f, p, base, n, "number") /\ Counted(p, base, n) = f[n]
  <2>1. \E f : IsCount(f, p, base, n, "number")
    BY CountExists
  <2> QED
    BY <2>1 DEF Counted, IsCount, Third
<1>2. f[0] = base /\ \A k \in 1..n : f[k] = Step(p, f[k - 1], k)
  <2>1. f[0] = base /\ \A k \in 1..n : f[k] = Step(p, f[k - 1], Third("number", f[k - 1], k))
    BY <1>1, CountValues
  <2>2. \A acc, k : Third("number", acc, k) = k
    BY DEF Third
  <2> QED
    BY <2>1, <2>2
<1> QED
  BY <1>1, <1>2 DEF CountsTo

\* The elements come from the chosen positions, one behind the other.
ComesFrom(s, seq, K, pos) ==
  /\ \A j \in 1..Len(s) : pos[j] \in K /\ s[j] = seq[pos[j]]
  /\ \A a, b \in 1..Len(s) : a < b => pos[a] < pos[b]

\* The elements at some positions of a sequence: all of them, and none from another position.
LEMMA ChosenSteps ==
  ASSUME NEW S, NEW seq \in Seq(S), NEW K \in SUBSET (1..Len(seq)), NEW p,
         \A acc : \A k \in 1..Len(seq) :
           Step(p, acc, k) = IF k \in K THEN Append(acc, seq[k]) ELSE acc
  PROVE  /\ Counted(p, <<>>, Len(seq)) \in Seq(S)
         /\ \A k \in K : \E j \in 1..Len(Counted(p, <<>>, Len(seq))) :
              Counted(p, <<>>, Len(seq))[j] = seq[k]
         /\ \E pos : ComesFrom(Counted(p, <<>>, Len(seq)), seq, K, pos)
PROOF
<1> DEFINE n == Len(seq)
<1>1. n \in Nat /\ \A k \in 1..n : seq[k] \in S
  BY LenProperties, ElementOfSeq
<1>2. \A acc : \A k \in 1..n : Step(p, acc, k) = IF k \in K THEN Append(acc, seq[k]) ELSE acc
  OBVIOUS
<1> HIDE DEF n
<1>3. PICK acc : CountsTo(p, <<>>, n, acc)
  BY <1>1, CountSteps
<1>4. \A k \in 1..n : acc[k] = IF k \in K THEN Append(acc[k - 1], seq[k]) ELSE acc[k - 1]
  BY <1>2, <1>3 DEF CountsTo
<1> DEFINE Good(k) == /\ acc[k] \in Seq(S)
                      /\ \A x \in K : x <= k => \E j \in 1..Len(acc[k]) : acc[k][j] = seq[x]
                      /\ \E pos : ComesFrom(acc[k], seq, K \cap 1..k, pos)
           T == {k \in 0..n : Good(k)}
<1>5. 0 \in T
  <2>1. acc[0] = <<>> /\ Len(acc[0]) = 0 /\ acc[0] \in Seq(S)
    BY <1>3 DEF CountsTo
  <2>2. \A x \in K : ~(x <= 0)
    BY <1>1 DEF n
  <2>3. \E pos : ComesFrom(acc[0], seq, K \cap 1..0, pos)
    BY <2>1 DEF ComesFrom
  <2>4. Good(0)
    BY <2>1, <2>2, <2>3
  <2> HIDE DEF Good
  <2> QED
    BY <1>1, <2>4
<1>6. ASSUME NEW k \in 1..n, k - 1 \in T
      PROVE  k \in T
  <2>0. k \in Nat /\ k - 1 \in Nat /\ Good(k - 1) /\ k \in 0..n /\ seq[k] \in S
    <3> HIDE DEF Good
    <3> QED
      BY <1>1, <1>6
  <2>1. PICK pos : ComesFrom(acc[k - 1], seq, K \cap 1..k - 1, pos)
    BY <2>0
  <2> DEFINE s == acc[k - 1]
             m == Len(s)
  <2>2. s \in Seq(S) /\ m \in Nat
    BY <2>0, LenProperties
  <2>3. \A x \in K : x \in Nat /\ (x <= k => x <= k - 1 \/ x = k)
    BY <1>1, <2>0 DEF n
  <2>4. CASE k \in K
    <3>1. acc[k] = Append(s, seq[k])
      BY <1>4, <2>4
    <3>2. /\ acc[k] \in Seq(S) /\ Len(acc[k]) = m + 1 /\ acc[k][m + 1] = seq[k]
          /\ \A j \in 1..m : acc[k][j] = s[j]
      BY <2>0, <2>2, <3>1, AppendProperties
    <3>3. \A x \in K : x <= k => \E j \in 1..Len(acc[k]) : acc[k][j] = seq[x]
      <4> TAKE x \in K
      <4> HAVE x <= k
      <4>1. CASE x <= k - 1
        <5>1. PICK j \in 1..m : s[j] = seq[x]
          BY <2>0, <4>1
        <5>2. j \in 1..m + 1 /\ acc[k][j] = seq[x]
          BY <2>2, <3>2, <5>1
        <5> QED
          BY <3>2, <5>2
      <4>2. CASE x = k
        <5>1. m + 1 \in 1..m + 1
          BY <2>2
        <5> QED
          BY <3>2, <4>2, <5>1
      <4> QED
        BY <2>3, <4>1, <4>2
    <3>4. \E q : ComesFrom(acc[k], seq, K \cap 1..k, q)
      <4> DEFINE q == [j \in 1..m + 1 |-> IF j = m + 1 THEN k ELSE pos[j]]
      <4>1. \A j \in 1..m : j \in 1..m + 1 /\ q[j] = pos[j] /\ pos[j] \in K /\ pos[j] \in 1..k - 1
        BY <2>1, <2>2 DEF ComesFrom
      <4>2. m + 1 \in 1..m + 1 /\ q[m + 1] = k
        BY <2>2
      <4> HIDE DEF q
      <4>3. \A j \in 1..m + 1 : j \in 1..m \/ j = m + 1
        BY <2>2
      <4>4. \A j \in 1..m + 1 : q[j] \in K \cap 1..k /\ acc[k][j] = seq[q[j]]
        <5>1. \A j \in 1..m : s[j] = seq[pos[j]]
          BY <2>1 DEF ComesFrom
        <5>2. \A x \in 1..k - 1 : x \in 1..k
          BY <2>0
        <5>3. k \in 1..k
          BY <2>0
        <5> QED
          BY <2>4, <3>2, <4>1, <4>2, <4>3, <5>1, <5>2, <5>3
      <4>5. \A a, b \in 1..m + 1 : a < b => q[a] < q[b]
        <5> TAKE a, b \in 1..m + 1
        <5> HAVE a < b
        <5>1. a \in 1..m
          BY <2>2
        <5>2. CASE b \in 1..m
          BY <2>1, <4>1, <5>1, <5>2 DEF ComesFrom
        <5>3. CASE b = m + 1
          <6>1. q[a] \in 1..k - 1 /\ q[b] = k
            BY <4>1, <4>2, <5>1, <5>3
          <6> QED
            BY <2>0, <6>1
        <5> QED
          BY <4>3, <5>2, <5>3
      <4>6. ComesFrom(acc[k], seq, K \cap 1..k, q)
        BY <3>2, <4>4, <4>5 DEF ComesFrom
      <4> QED
        BY <4>6
    <3>5. Good(k)
      BY <3>2, <3>3, <3>4
    <3> HIDE DEF Good
    <3> QED
      BY <2>0, <3>5
  <2>5. CASE k \notin K
    <3>1. acc[k] = s
      BY <1>4, <2>5
    <3>2. \A x \in K : x <= k => x <= k - 1
      BY <2>3, <2>5
    <3>3. ComesFrom(acc[k], seq, K \cap 1..k, pos)
      <4>1. \A x \in 1..k - 1 : x \in 1..k
        BY <2>0
      <4> QED
        BY <2>1, <3>1, <4>1 DEF ComesFrom
    <3>4. \A x \in K : x <= k => \E j \in 1..Len(acc[k]) : acc[k][j] = seq[x]
      BY <2>0, <3>1, <3>2
    <3>5. acc[k] \in Seq(S)
      BY <2>2, <3>1
    <3>6. Good(k)
      BY <3>3, <3>4, <3>5
    <3> HIDE DEF Good
    <3> QED
      BY <2>0, <3>6
  <2> QED
    BY <2>4, <2>5
<1> HIDE DEF T
<1>7. n \in T
  <2>1. \A k \in 0..n : k \in T
    BY <1>1, <1>5, <1>6, StepByStep
  <2> QED
    BY <1>1, <2>1
<1>8. Good(n) /\ \A x \in K : x <= n
  <2>1. \A x \in K : x <= n
    BY DEF n
  <2> HIDE DEF Good
  <2> QED
    BY <1>7, <2>1 DEF T
<1>9. K \cap 1..n = K
  BY DEF n
<1> QED
  BY <1>3, <1>8, <1>9 DEF CountsTo, n

\* f is the recursive function of Folded.
IsFold(f, p, base, seq, n) ==
  f = [s \in SUBSET (1..n) |->
         IF s = {} THEN base ELSE Step(p, f[s \ {Greatest(s)}], seq[Greatest(s)])]

\* The last position of a set that is not empty is one of the set and behind all others.
LEMMA GreatestOf ==
  ASSUME NEW n \in Nat, NEW s \in SUBSET (1..n), s # {}
  PROVE  Greatest(s) \in s /\ \A y \in s : y <= Greatest(s)
PROOF
<1>1. PICK x \in s : \A y \in s : y <= x
  BY LastExists
<1>2. x >= x /\ \A y \in s : x >= y
  BY <1>1
<1>3. Greatest(s) \in s /\ \A y \in s : Greatest(s) >= y
  BY <1>2 DEF Greatest
<1> QED
  BY <1>3

\* There is such a function, since a set without its last position is a smaller one.
LEMMA FoldExists ==
  ASSUME NEW p, NEW base, NEW seq, NEW n \in Nat
  PROVE  \E f : IsFold(f, p, base, seq, n)
PROOF
<1> DEFINE e(f, s) == IF s = {} THEN base ELSE Step(p, f[s \ {Greatest(s)}], seq[Greatest(s)])
           Long == {m \in 0..n : \E f : IsFold(f, p, base, seq, m)}
<1>0. \A f, m : IsFold(f, p, base, seq, m) <=> f = [s \in SUBSET (1..m) |-> e(f, s)]
  BY DEF IsFold
<1>1. 0 \in Long
  <2>1. PICK f : f = [s \in SUBSET (1..0) |-> base]
    OBVIOUS
  <2>2. \A s \in SUBSET (1..0) : s = {}
    OBVIOUS
  <2>3. \A s \in SUBSET (1..0) : e(f, s) = base
    BY <2>2
  <2>4. f = [s \in SUBSET (1..0) |-> e(f, s)]
    <3> HIDE DEF e
    <3> QED
      BY <2>1, <2>3
  <2>5. IsFold(f, p, base, seq, 0)
    <3>1. IsFold(f, p, base, seq, 0) <=> f = [s \in SUBSET (1..0) |-> e(f, s)]
      BY <1>0
    <3> QED
      BY <2>4, <3>1
  <2>6. 0 \in 0..n
    OBVIOUS
  <2> QED
    BY <2>5, <2>6
<1>2. ASSUME NEW m \in 1..n, m - 1 \in Long
      PROVE  m \in Long
  <2>1. PICK f : IsFold(f, p, base, seq, m - 1)
    BY <1>2
  <2>2. PICK h : h = [s \in SUBSET (1..m) |-> e(f, s)]
    OBVIOUS
  <2>3. \A s \in SUBSET (1..m - 1) : s \in SUBSET (1..m) /\ h[s] = f[s]
    <3> HIDE DEF e
    <3> TAKE s \in SUBSET (1..m - 1)
    <3>1. s \in SUBSET (1..m)
      OBVIOUS
    <3> QED
      BY <1>0, <2>1, <2>2, <3>1
  <2>4. \A s \in SUBSET (1..m) : h[s] = e(h, s)
    <3> TAKE s \in SUBSET (1..m)
    <3>1. s # {} => s \ {Greatest(s)} \in SUBSET (1..m - 1)
      <4> SUFFICES ASSUME s # {}, NEW y \in s, y # Greatest(s)
                   PROVE  y \in 1..m - 1
        OBVIOUS
      <4>0. m \in Nat /\ s \in SUBSET (1..m)
        OBVIOUS
      <4>1. Greatest(s) \in s /\ y <= Greatest(s)
        BY <4>0, GreatestOf
      <4>2. Greatest(s) \in 1..m /\ y \in 1..m
        BY <4>1
      <4> QED
        BY <4>1, <4>2
    <3> QED
      BY <2>2, <2>3, <3>1
  <2>5. IsFold(h, p, base, seq, m)
    <3>1. IsFold(h, p, base, seq, m) <=> h = [s \in SUBSET (1..m) |-> e(h, s)]
      BY <1>0
    <3> HIDE DEF e
    <3> QED
      BY <2>2, <2>4, <3>1
  <2>6. m \in 0..n
    OBVIOUS
  <2> QED
    BY <2>5, <2>6
<1> HIDE DEF Long
<1>3. \A k \in 0..n : k \in Long
  BY <1>1, <1>2, StepByStep
<1>4. n \in Long
  BY <1>3
<1> QED
  BY <1>4 DEF Long

\* acc lists what a fold over a sequence comes to, from element to element.
FoldsTo(p, base, seq, n, acc) ==
  /\ acc[0] = base
  /\ \A k \in 1..n : acc[k] = Step(p, acc[k - 1], seq[k])
  /\ Folded(p, base, seq) = acc[n]

\* The same of the fold of a sequence.
LEMMA FoldSteps ==
  ASSUME NEW p, NEW base, NEW n \in Nat, NEW seq, DOMAIN seq = 1..n
  PROVE  \E acc : FoldsTo(p, base, seq, n, acc)
PROOF
<1>1. PICK f : IsFold(f, p, base, seq, n) /\ Folded(p, base, seq) = f[1..n]
  <2>1. \E f : IsFold(f, p, base, seq, n)
    BY FoldExists
  <2>2. Folded(p, base, seq) = (CHOOSE f : IsFold(f, p, base, seq, n))[1..n]
    BY DEF Folded, IsFold
  <2> QED
    BY <2>1, <2>2
<1> DEFINE e(s) == IF s = {} THEN base ELSE Step(p, f[s \ {Greatest(s)}], seq[Greatest(s)])
           acc == [k \in 0..n |-> f[1..k]]
<1>2. f = [s \in SUBSET (1..n) |-> e(s)]
  BY <1>1 DEF IsFold
<1>3. \A s \in SUBSET (1..n) : f[s] = e(s)
  <2> HIDE DEF e
  <2> QED
    BY <1>2
<1>4. acc[0] = base
  <2>1. 1..0 = {} /\ 1..0 \in SUBSET (1..n)
    OBVIOUS
  <2>2. f[1..0] = e(1..0)
    BY <1>3, <2>1
  <2>3. 0 \in 0..n
    OBVIOUS
  <2> QED
    BY <2>1, <2>2, <2>3
<1>5. ASSUME NEW k \in 1..n
      PROVE  acc[k] = Step(p, acc[k - 1], seq[k])
  <2>0. k \in Nat /\ k >= 1 /\ k <= n
    OBVIOUS
  <2>1. 1..k \in SUBSET (1..n) /\ 1..k # {} /\ k \in 1..k
    BY <2>0
  <2>2. Greatest(1..k) = k
    <3>1. Greatest(1..k) \in 1..k /\ k <= Greatest(1..k)
      BY <2>0, <2>1, GreatestOf
    <3> QED
      BY <3>1
  <2>3. (1..k) \ {k} = 1..k - 1
    OBVIOUS
  <2>4. f[1..k] = Step(p, f[1..k - 1], seq[k])
    BY <1>3, <2>1, <2>2, <2>3
  <2>5. k \in 0..n /\ k - 1 \in 0..n
    OBVIOUS
  <2> QED
    BY <2>4, <2>5
<1>6. acc[n] = f[1..n]
  <2>1. n \in 0..n
    OBVIOUS
  <2> QED
    BY <2>1
<1> HIDE DEF acc
<1> QED
  BY <1>1, <1>4, <1>5, <1>6 DEF FoldsTo

------------------------------------------------------------------------------
(* Growth: a step that takes a subset of a finite set to a larger one, or leaves it, leaves it *)
(* after as many steps as the set has members.                                                *)

\* f is the recursive function of Grown.
IsGrowth(f, p, all) ==
  f = [s \in SUBSET all |-> IF Step(p, s, s) = s THEN s ELSE f[Step(p, s, s)]]

\* A step adds to a set and stays within all.
Grows(p, all) == \A s \in SUBSET all : s \subseteq Step(p, s, s) /\ Step(p, s, s) \subseteq all

\* The sets a set grows to step by step.
IsChain(ch, p, from, n) ==
  ch[0] = from /\ \A k \in 1..n : ch[k] = Step(p, ch[k - 1], ch[k - 1])

\* There are the first n steps from a set.
LEMMA ChainExists ==
  ASSUME NEW p, NEW from, NEW n \in Nat
  PROVE  \E ch : IsChain(ch, p, from, n)
PROOF
<1>1. PICK f : IsCount(f, p, from, n, "same")
  BY CountExists
<1>2. IsChain(f, p, from, n)
  <2>1. f[0] = from /\ \A k \in 1..n : f[k] = Step(p, f[k - 1], Third("same", f[k - 1], k))
    BY <1>1, CountValues
  <2>2. \A acc, k : Third("same", acc, k) = acc
    BY DEF Third
  <2> QED
    BY <2>1, <2>2 DEF IsChain
<1> QED
  BY <1>2

\* They stay within all.
LEMMA ChainWithin ==
  ASSUME NEW p, NEW all, Grows(p, all), NEW from \in SUBSET all, NEW n \in Nat, NEW ch,
         IsChain(ch, p, from, n)
  PROVE  \A k \in 0..n : ch[k] \subseteq all
PROOF
<1> DEFINE T == {k \in 0..n : ch[k] \subseteq all}
<1>1. 0 \in T
  BY DEF IsChain
<1>2. ASSUME NEW k \in 1..n, k - 1 \in T
      PROVE  k \in T
  <2>1. ch[k] = Step(p, ch[k - 1], ch[k - 1]) /\ ch[k - 1] \in SUBSET all
    BY <1>2 DEF IsChain
  <2>2. Step(p, ch[k - 1], ch[k - 1]) \subseteq all
    BY <2>1 DEF Grows
  <2> QED
    BY <2>1, <2>2
<1> HIDE DEF T
<1>3. \A k \in 0..n : k \in T
  BY <1>1, <1>2, StepByStep
<1> QED
  BY <1>3 DEF T

\* At the end of a chain that is long enough nothing is added any more.
LEMMA ChainEnds ==
  ASSUME NEW p, NEW all, IsFiniteSet(all), Grows(p, all), NEW from \in SUBSET all, NEW ch,
         IsChain(ch, p, from, Cardinality(all))
  PROVE  Step(p, ch[Cardinality(all)], ch[Cardinality(all)]) = ch[Cardinality(all)]
PROOF
<1> DEFINE n == Cardinality(all)
           Fixed(k) == Step(p, ch[k], ch[k]) = ch[k]
           T == {k \in 0..n : Fixed(k) \/ Cardinality(ch[k]) >= k}
<1>1. n \in Nat
  BY FS_CardinalityType
<1>2. \A k \in 0..n : ch[k] \in SUBSET all /\ IsFiniteSet(ch[k]) /\ Cardinality(ch[k]) \in Nat
  <2>1. \A k \in 0..n : ch[k] \subseteq all
    BY <1>1, ChainWithin
  <2> QED
    BY <2>1, FS_Subset, FS_CardinalityType
<1>3. 0 \in T
  BY <1>1, <1>2
<1>4. ASSUME NEW k \in 1..n, k - 1 \in T
      PROVE  k \in T
  <2>1. ch[k] = Step(p, ch[k - 1], ch[k - 1]) /\ k \in 0..n /\ k - 1 \in 0..n
    BY <1>1 DEF IsChain
  <2>2. CASE Fixed(k - 1)
    <3>1. ch[k] = ch[k - 1]
      BY <2>1, <2>2
    <3>2. Fixed(k)
      BY <2>2, <3>1
    <3> QED
      BY <2>1, <3>2
  <2>3. CASE ~Fixed(k - 1)
    <3>1. Cardinality(ch[k - 1]) >= k - 1
      BY <1>4, <2>3
    <3>2. ch[k - 1] \subseteq ch[k] /\ ch[k - 1] # ch[k]
      BY <1>2, <2>1, <2>3 DEF Grows
    <3>3. Cardinality(ch[k - 1]) < Cardinality(ch[k])
      BY <1>2, <2>1, <3>2, FS_Subset
    <3>4. Cardinality(ch[k]) >= k
      BY <1>1, <1>2, <2>1, <3>1, <3>3
    <3> QED
      BY <2>1, <3>4
  <2> QED
    BY <2>2, <2>3
<1> HIDE DEF T
<1>5. n \in T
  <2>1. \A k \in 0..n : k \in T
    BY <1>1, <1>3, <1>4, StepByStep
  <2> QED
    BY <1>1, <2>1
<1>6. CASE ~Fixed(n)
  <2>1. Cardinality(ch[n]) >= n /\ n \in 0..n
    BY <1>1, <1>5, <1>6 DEF T
  <2>2. ch[n] = all
    <3>1. ch[n] # all => Cardinality(ch[n]) < Cardinality(all)
      BY <1>2, <2>1, FS_Subset
    <3> QED
      BY <1>1, <1>2, <2>1, <3>1
  <2>3. Step(p, ch[n], ch[n]) = ch[n]
    BY <1>2, <2>1, <2>2 DEF Grows
  <2> QED
    BY <2>3
<1> QED
  BY <1>6

\* There is such a function, since a set within a finite one grows only so often.
LEMMA GrowthExists ==
  ASSUME NEW p, NEW all, IsFiniteSet(all), Grows(p, all)
  PROVE  \E f : IsGrowth(f, p, all)
PROOF
<1> DEFINE n == Cardinality(all)
           chain(s) == CHOOSE ch : IsChain(ch, p, s, n)
<1>1. n \in Nat
  BY FS_CardinalityType
<1>2. \A s \in SUBSET all : IsChain(chain(s), p, s, n)
  BY <1>1, ChainExists
<1> HIDE DEF chain
<1> DEFINE f == [s \in SUBSET all |-> chain(s)[n]]
<1>4. ASSUME NEW s \in SUBSET all
      PROVE  f[s] = IF Step(p, s, s) = s THEN s ELSE f[Step(p, s, s)]
  <2> DEFINE t == Step(p, s, s)
  <2>1. t \in SUBSET all
    BY DEF Grows
  <2>2. IsChain(chain(s), p, s, n) /\ IsChain(chain(t), p, t, n)
    BY <1>2, <2>1
  <2>3. Step(p, chain(s)[n], chain(s)[n]) = chain(s)[n]
    BY <2>2, ChainEnds
  <2> DEFINE T == {k \in 0..n : chain(t)[k] = Step(p, chain(s)[k], chain(s)[k])}
  <2>4. 0 \in T
    BY <2>2, <1>1 DEF IsChain
  <2>5. ASSUME NEW k \in 1..n, k - 1 \in T
        PROVE  k \in T
    <3>1. /\ chain(s)[k] = Step(p, chain(s)[k - 1], chain(s)[k - 1])
          /\ chain(t)[k] = Step(p, chain(t)[k - 1], chain(t)[k - 1])
      BY <2>2 DEF IsChain
    <3>2. k \in 0..n
      BY <1>1
    <3> QED
      BY <2>5, <3>1, <3>2
  <2> HIDE DEF T
  <2>6. n \in T
    <3>1. \A k \in 0..n : k \in T
      BY <1>1, <2>4, <2>5, StepByStep
    <3> QED
      BY <1>1, <3>1
  <2>7. chain(t)[n] = chain(s)[n]
    BY <2>3, <2>6 DEF T
  <2>8. CASE t = s
    <3> DEFINE U == {k \in 0..n : chain(s)[k] = s}
    <3>1. 0 \in U
      BY <1>1, <2>2 DEF IsChain
    <3>2. ASSUME NEW k \in 1..n, k - 1 \in U
          PROVE  k \in U
      <4>1. chain(s)[k] = Step(p, chain(s)[k - 1], chain(s)[k - 1])
        BY <2>2 DEF IsChain
      <4> QED
        BY <1>1, <2>8, <3>2, <4>1
    <3> HIDE DEF U
    <3>3. \A k \in 0..n : k \in U
      BY <1>1, <3>1, <3>2, StepByStep
    <3>4. chain(s)[n] = s
      BY <1>1, <3>3 DEF U
    <3> QED
      BY <2>8, <3>4
  <2> QED
    BY <2>1, <2>7, <2>8
<1>5. f = [s \in SUBSET all |-> IF Step(p, s, s) = s THEN s ELSE f[Step(p, s, s)]]
  <2> DEFINE e(s) == IF Step(p, s, s) = s THEN s ELSE f[Step(p, s, s)]
  <2>1. \A s \in SUBSET all : f[s] = e(s)
    BY <1>4
  <2> HIDE DEF e
  <2>2. f = [s \in SUBSET all |-> e(s)]
    BY <2>1
  <2> QED
    BY <2>2 DEF e
<1> HIDE DEF f
<1> QED
  BY <1>5 DEF IsGrowth

\* ch lists what a set grows to, step by step, up to where a step adds nothing.
GrowsTo(p, all, from, n, ch) ==
  /\ n \in Nat /\ ch[0] = from
  /\ \A k \in 1..n : ch[k] = Step(p, ch[k - 1], ch[k - 1])
  /\ \A k \in 0..n : ch[k] \subseteq all
  /\ Grown(p, all, from) = ch[n]
  /\ Step(p, ch[n], ch[n]) = ch[n]

\* What a set grows to is the end of a chain of steps, and no step adds anything to it.
LEMMA GrowthSteps ==
  ASSUME NEW p, NEW all, IsFiniteSet(all), Grows(p, all), NEW from \in SUBSET all
  PROVE  \E n, ch : GrowsTo(p, all, from, n, ch)
PROOF
<1>1. PICK f : IsGrowth(f, p, all) /\ Grown(p, all, from) = f[from]
  <2>1. \E f : IsGrowth(f, p, all)
    BY GrowthExists
  <2>2. Grown(p, all, from) = (CHOOSE f : IsGrowth(f, p, all))[from]
    BY DEF Grown, IsGrowth
  <2> QED
    BY <2>1, <2>2
<1> DEFINE e(s) == IF Step(p, s, s) = s THEN s ELSE f[Step(p, s, s)]
<1>2. f = [s \in SUBSET all |-> e(s)]
  BY <1>1 DEF IsGrowth
<1>3. \A s \in SUBSET all : f[s] = e(s)
  <2> HIDE DEF e
  <2> QED
    BY <1>2
<1> DEFINE n == Cardinality(all)
<1>4. n \in Nat
  BY FS_CardinalityType
<1>5. PICK ch : IsChain(ch, p, from, n)
  BY <1>4, ChainExists
<1>6. \A k \in 0..n : ch[k] \subseteq all
  BY <1>4, <1>5, ChainWithin
<1>7. Step(p, ch[n], ch[n]) = ch[n]
  BY <1>5, ChainEnds
<1> HIDE DEF n
<1> DEFINE T == {k \in 0..n : f[ch[k]] = f[from]}
<1>8. 0 \in T
  BY <1>4, <1>5 DEF IsChain
<1>9. ASSUME NEW k \in 1..n, k - 1 \in T
      PROVE  k \in T
  <2>1. ch[k] = Step(p, ch[k - 1], ch[k - 1])
    BY <1>5 DEF IsChain
  <2>2. ch[k - 1] \in SUBSET all
    BY <1>4, <1>6
  <2>3. f[ch[k]] = f[ch[k - 1]]
    BY <1>3, <2>1, <2>2
  <2> QED
    BY <1>4, <1>9, <2>3
<1> HIDE DEF T
<1>10. n \in T
  <2>1. \A k \in 0..n : k \in T
    BY <1>4, <1>8, <1>9, StepByStep
  <2> QED
    BY <1>4, <2>1
<1>11. f[ch[n]] = ch[n]
  BY <1>3, <1>4, <1>6, <1>7
<1>12. Grown(p, all, from) = ch[n]
  BY <1>1, <1>10, <1>11 DEF T
<1> QED
  BY <1>4, <1>5, <1>6, <1>7, <1>12 DEF IsChain, GrowsTo

=============================================================================
