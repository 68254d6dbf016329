------------------------- MODULE TensorPipelineProofs -------------------------
(***************************************************************************)
(* What a block is after every rewrite of ANNC's MLIR passes: one in which *)
(* each operand is the result of an operation above its reader, wherever   *)
(* the operations a rewrite moves or makes stand.                          *)
(***************************************************************************)
EXTENDS TensorPipeline, FiniteSetTheorems, SequenceTheorems, TLAPS

------------------------------------------------------------------------------
(* Sequences. *)

\* No element occurs twice.
Once(s) == \A i, j \in 1..Len(s) : s[i] = s[j] => i = j

\* Where something at q stands after an insertion at p.
Shifted(p, q) == IF q < p THEN q ELSE q + 1

\* An insertion keeps the order of what is there, and leaves place p.
LEMMA ShiftedFacts ==
  ASSUME NEW n \in Nat, NEW p \in 1..n + 1
  PROVE  /\ \A q \in 1..n : Shifted(p, q) \in 1..n + 1 /\ Shifted(p, q) # p
         /\ \A q \in 1..n + 1 : q # p => \E r \in 1..n : q = Shifted(p, r)
         /\ \A q, r \in 1..n : Shifted(p, q) = Shifted(p, r) => q = r
         /\ \A q, r \in 1..n : Shifted(p, q) < Shifted(p, r) <=> q < r
         /\ \A q \in 1..n : Shifted(p, q) < p <=> q < p
         /\ \A q \in 1..n : p < Shifted(p, q) <=> p <= q
PROOF
<1>1. ASSUME NEW q \in 1..n + 1, q # p
      PROVE  \E r \in 1..n : q = Shifted(p, r)
  <2>1. CASE q < p
    <3>1. q \in 1..n /\ q = Shifted(p, q)
      BY <2>1 DEF Shifted
    <3> QED
      BY <3>1
  <2>2. CASE q > p
    <3>1. q - 1 \in 1..n /\ q = Shifted(p, q - 1)
      BY <2>2 DEF Shifted
    <3> QED
      BY <3>1
  <2> QED
    BY <1>1, <2>1, <2>2
<1>2. \A q \in 1..n : Shifted(p, q) \in 1..n + 1 /\ Shifted(p, q) # p
  BY DEF Shifted
<1>3. \A q, r \in 1..n : Shifted(p, q) = Shifted(p, r) => q = r
  BY DEF Shifted
<1>4. \A q, r \in 1..n : Shifted(p, q) < Shifted(p, r) <=> q < r
  BY DEF Shifted
<1>5. \A q \in 1..n : Shifted(p, q) < p <=> q < p
  BY DEF Shifted
<1>6. \A q \in 1..n : p < Shifted(p, q) <=> p <= q
  BY DEF Shifted
<1> QED
  BY <1>1, <1>2, <1>3, <1>4, <1>5, <1>6

\* An insertion moves what is behind it by one.
LEMMA InsertAtFacts ==
  ASSUME NEW S, NEW s \in Seq(S), NEW p \in 1..Len(s) + 1, NEW x \in S
  PROVE  /\ InsertAt(s, p, x) \in Seq(S) /\ Len(InsertAt(s, p, x)) = Len(s) + 1
         /\ InsertAt(s, p, x)[p] = x
         /\ \A q \in 1..Len(s) : InsertAt(s, p, x)[Shifted(p, q)] = s[q]
PROOF
<1> DEFINE n == Len(s)
           a == SubSeq(s, 1, p - 1)
           m == <<x>>
           z == SubSeq(s, p, n)
<1>1. n \in Nat /\ p \in Nat /\ p >= 1 /\ p <= n + 1
  BY LenProperties
<1>2. a \in Seq(S) /\ Len(a) = p - 1 /\ \A q \in 1..p - 1 : a[q] = s[q]
  BY <1>1, SubSeqProperties
<1>3. z \in Seq(S) /\ Len(z) = n - p + 1 /\ \A q \in 1..n - p + 1 : z[q] = s[p + q - 1]
  BY <1>1, SubSeqProperties
<1>4. m \in Seq(S) /\ Len(m) = 1 /\ m[1] = x
  OBVIOUS
<1>5. InsertAt(s, p, x) = (a \o m) \o z
  BY DEF InsertAt
<1> HIDE DEF a, m, z
<1> DEFINE am == a \o m
<1>6. /\ am \in Seq(S) /\ Len(am) = p
      /\ \A q \in 1..p : am[q] = IF q < p THEN a[q] ELSE m[q - (p - 1)]
  <2>1. /\ am \in Seq(S) /\ Len(am) = Len(a) + Len(m)
        /\ \A q \in 1..Len(a) + Len(m) : am[q] = IF q <= Len(a) THEN a[q] ELSE m[q - Len(a)]
    BY <1>2, <1>4, ConcatProperties
  <2> HIDE DEF am
  <2> QED
    BY <1>1, <1>2, <1>4, <2>1
<1> HIDE DEF am
<1>7. /\ am \o z \in Seq(S) /\ Len(am \o z) = n + 1
      /\ \A q \in 1..n + 1 : (am \o z)[q] = IF q <= p THEN am[q] ELSE z[q - p]
  <2>1. /\ am \o z \in Seq(S) /\ Len(am \o z) = Len(am) + Len(z)
        /\ \A q \in 1..Len(am) + Len(z) : (am \o z)[q] = IF q <= Len(am) THEN am[q] ELSE z[q - Len(am)]
    BY <1>3, <1>6, ConcatProperties
  <2>2. Len(am) + Len(z) = n + 1
    BY <1>1, <1>3, <1>6
  <2> QED
    BY <1>6, <2>1, <2>2
<1> DEFINE t == am \o z
<1>8. \A q \in 1..n + 1 : t[q] = IF q < p THEN s[q] ELSE IF q = p THEN x ELSE s[q - 1]
  <2> TAKE q \in 1..n + 1
  <2>1. CASE q < p
    <3>1. q \in 1..p - 1 /\ q \in 1..p /\ q <= p
      BY <1>1, <2>1
    <3>2. t[q] = am[q]
      BY <1>7, <3>1
    <3>3. am[q] = s[q]
      BY <1>2, <1>6, <2>1, <3>1
    <3> HIDE DEF t
    <3> QED
      BY <2>1, <3>2, <3>3
  <2>2. CASE q = p
    BY <1>1, <1>4, <1>6, <1>7, <2>2
  <2>3. CASE q > p
    <3>1. q - p \in 1..n - p + 1 /\ p + (q - p) - 1 = q - 1
      BY <1>1, <2>3
    <3>2. t[q] = z[q - p]
      BY <1>1, <1>7, <2>3
    <3>3. z[q - p] = s[q - 1]
      BY <1>3, <3>1
    <3> QED
      BY <1>1, <2>3, <3>2, <3>3
  <2>4. q < p \/ q = p \/ q > p
    BY <1>1
  <2> HIDE DEF t
  <2> QED
    BY <2>1, <2>2, <2>3, <2>4
<1> HIDE DEF t
<1>9. t[p] = x
  BY <1>1, <1>8
<1>10. \A q \in 1..n : t[Shifted(p, q)] = s[q]
  <2> TAKE q \in 1..n
  <2>1. CASE q < p
    BY <1>1, <1>8, <2>1 DEF Shifted
  <2>2. CASE ~(q < p)
    <3>1. q + 1 \in 1..n + 1 /\ ~(q + 1 < p) /\ q + 1 # p /\ (q + 1) - 1 = q
      BY <1>1, <2>2
    <3> QED
      BY <1>8, <2>2, <3>1 DEF Shifted
  <2> QED
    BY <2>1, <2>2
<1> QED
  BY <1>5, <1>7, <1>9, <1>10 DEF t, am

\* A removal moves what is behind it back by one.
LEMMA RemoveAtFacts ==
  ASSUME NEW S, NEW s \in Seq(S), NEW p \in 1..Len(s)
  PROVE  /\ RemoveAt(s, p) \in Seq(S) /\ Len(RemoveAt(s, p)) = Len(s) - 1
         /\ \A q \in 1..Len(s) - 1 : RemoveAt(s, p)[q] = s[Shifted(p, q)]
PROOF
<1> DEFINE n == Len(s)
           a == SubSeq(s, 1, p - 1)
           z == SubSeq(s, p + 1, n)
<1>1. n \in Nat /\ p \in Nat /\ p >= 1 /\ p <= n
  BY LenProperties
<1>2. a \in Seq(S) /\ Len(a) = p - 1 /\ \A q \in 1..p - 1 : a[q] = s[q]
  BY <1>1, SubSeqProperties
<1>3. z \in Seq(S) /\ Len(z) = n - p /\ \A q \in 1..n - p : z[q] = s[(p + 1) + q - 1]
  BY <1>1, SubSeqProperties
<1>4. RemoveAt(s, p) = a \o z
  BY DEF RemoveAt
<1> HIDE DEF a, z
<1>5. /\ a \o z \in Seq(S) /\ Len(a \o z) = n - 1
      /\ \A q \in 1..n - 1 : (a \o z)[q] = IF q <= p - 1 THEN a[q] ELSE z[q - (p - 1)]
  <2>1. /\ a \o z \in Seq(S) /\ Len(a \o z) = Len(a) + Len(z)
        /\ \A q \in 1..Len(a) + Len(z) :
             (a \o z)[q] = IF q <= Len(a) THEN a[q] ELSE z[q - Len(a)]
    BY <1>2, <1>3, ConcatProperties
  <2>2. Len(a) + Len(z) = n - 1 /\ Len(a) = p - 1
    BY <1>1, <1>2, <1>3
  <2> QED
    BY <2>1, <2>2
<1>6. \A q \in 1..n - 1 : (a \o z)[q] = s[Shifted(p, q)]
  <2> TAKE q \in 1..n - 1
  <2>1. CASE q < p
    BY <1>1, <1>2, <1>5, <2>1 DEF Shifted
  <2>2. CASE ~(q < p)
    <3>1. q - (p - 1) \in 1..n - p /\ (p + 1) + (q - (p - 1)) - 1 = q + 1
      BY <1>1, <2>2
    <3> QED
      BY <1>1, <1>3, <1>5, <2>2, <3>1 DEF Shifted
  <2> QED
    BY <2>1, <2>2
<1> QED
  BY <1>4, <1>5, <1>6

\* What a sequence is made of.
LEMMA ElementFacts ==
  ASSUME NEW S, NEW s \in Seq(S)
  PROVE  /\ Len(s) \in Nat /\ DOMAIN s = 1..Len(s) /\ ToSet(s) = {s[k] : k \in 1..Len(s)}
         /\ ToSet(s) \subseteq S /\ s \in Seq(ToSet(s))
PROOF
<1>1. Len(s) \in Nat /\ DOMAIN s = 1..Len(s)
  BY LenProperties
<1>2. ToSet(s) = {s[k] : k \in 1..Len(s)}
  BY <1>1 DEF ToSet
<1>3. \A k \in 1..Len(s) : s[k] \in S
  BY ElementOfSeq
<1>4. Range(s) = ToSet(s)
  BY DEF Range, ToSet
<1>5. s \in Seq(Range(s))
  BY SeqOfRange
<1> QED
  BY <1>1, <1>2, <1>3, <1>4, <1>5

\* A sequence of different elements is no longer than one that has them all.
LEMMA LengthFacts ==
  ASSUME NEW S, NEW s \in Seq(S), Once(s), NEW r \in Seq(S), ToSet(s) \subseteq ToSet(r)
  PROVE  Len(s) <= Len(r)
PROOF
<1> DEFINE m == Len(s)
           n == Len(r)
           f == [i \in 1..m |-> CHOOSE j \in 1..n : r[j] = s[i]]
<1>1. m \in Nat /\ n \in Nat /\ ToSet(s) = {s[i] : i \in 1..m} /\ ToSet(r) = {r[j] : j \in 1..n}
  BY ElementFacts
<1>2. \A i \in 1..m : \E j \in 1..n : r[j] = s[i]
  BY <1>1
<1> HIDE DEF m, n
<1>3. \A i \in 1..m : f[i] \in 1..n /\ r[f[i]] = s[i]
  BY <1>2
<1>4. f \in Injection(1..m, 1..n)
  <2>1. f \in [1..m -> 1..n]
    BY <1>3
  <2>2. \A i, j \in 1..m : f[i] = f[j] => i = j
    BY <1>3 DEF Once, m
  <2> HIDE DEF f
  <2> QED
    BY <2>1, <2>2 DEF Injection, IsInjective
<1>5. /\ IsFiniteSet(1..m) /\ Cardinality(1..m) = m
      /\ IsFiniteSet(1..n) /\ Cardinality(1..n) = n
  <2>1. \A k \in Nat : IsFiniteSet(1..k) /\ Cardinality(1..k) = IF 1 > k THEN 0 ELSE k - 1 + 1
    BY FS_Interval
  <2>2. \A k \in Nat : (IF 1 > k THEN 0 ELSE k - 1 + 1) = k
    OBVIOUS
  <2>3. m \in Nat /\ n \in Nat
    BY <1>1
  <2> QED
    BY <2>1, <2>2, <2>3
<1>6. Cardinality(1..m) <= Cardinality(1..n)
  BY <1>4, <1>5, FS_Injection
<1> QED
  BY <1>5, <1>6 DEF m, n

\* Different elements and other different elements after them.
LEMMA BothOnce ==
  ASSUME NEW S, NEW s \in Seq(S), Once(s), NEW t \in Seq(S), Once(t), ToSet(s) \cap ToSet(t) = {}
  PROVE  /\ s \o t \in Seq(S) /\ Once(s \o t)
         /\ ToSet(s \o t) = ToSet(s) \cup ToSet(t)
PROOF
<1> DEFINE m == Len(s)
           n == Len(t)
           y == s \o t
<1>1. /\ m \in Nat /\ n \in Nat
      /\ ToSet(s) = {s[i] : i \in 1..m} /\ ToSet(t) = {t[i] : i \in 1..n}
  BY ElementFacts
<1>2. /\ y \in Seq(S) /\ Len(y) = m + n
      /\ \A i \in 1..m + n : y[i] = IF i <= m THEN s[i] ELSE t[i - m]
  BY ConcatProperties
<1>3. ToSet(y) = {y[i] : i \in 1..Len(y)}
  BY <1>2, ElementFacts
<1>4. \A i, j \in 1..m : s[i] = s[j] => i = j
  BY DEF Once
<1>5. \A i, j \in 1..n : t[i] = t[j] => i = j
  BY DEF Once
<1> HIDE DEF m, n, y
<1>6. ASSUME NEW i \in 1..m + n
      PROVE  \/ i \in 1..m /\ y[i] = s[i]
             \/ i - m \in 1..n /\ y[i] = t[i - m]
  <2>1. CASE i <= m
    BY <1>1, <1>2, <2>1
  <2>2. CASE i > m
    BY <1>1, <1>2, <2>2
  <2> QED
    BY <1>1, <2>1, <2>2
<1>7. /\ \A i \in 1..m : i \in 1..m + n /\ y[i] = s[i]
      /\ \A i \in 1..n : m + i \in 1..m + n /\ y[m + i] = t[i]
  <2>1. \A i \in 1..m : i \in 1..m + n /\ i <= m
    BY <1>1
  <2>2. \A i \in 1..n : m + i \in 1..m + n /\ ~(m + i <= m) /\ (m + i) - m = i
    BY <1>1
  <2> QED
    BY <1>2, <2>1, <2>2
<1>8. ToSet(y) = ToSet(s) \cup ToSet(t)
  <2>1. \A i \in 1..m + n : y[i] \in ToSet(s) \cup ToSet(t)
    BY <1>1, <1>6
  <2>2. \A v \in ToSet(s) \cup ToSet(t) : \E i \in 1..m + n : y[i] = v
    BY <1>1, <1>7
  <2> QED
    BY <1>2, <1>3, <2>1, <2>2
<1>9. ASSUME NEW i \in 1..m + n, NEW j \in 1..m + n, y[i] = y[j]
      PROVE  i = j
  <2>1. CASE i \in 1..m /\ y[i] = s[i]
    <3>1. ~(j - m \in 1..n /\ y[j] = t[j - m])
      BY <1>1, <1>9, <2>1
    <3>2. j \in 1..m /\ y[j] = s[j]
      BY <1>6, <3>1
    <3> QED
      BY <1>4, <1>9, <2>1, <3>2
  <2>2. CASE i - m \in 1..n /\ y[i] = t[i - m]
    <3>1. ~(j \in 1..m /\ y[j] = s[j])
      BY <1>1, <1>9, <2>2
    <3>2. j - m \in 1..n /\ y[j] = t[j - m]
      BY <1>6, <3>1
    <3>3. i - m = j - m
      BY <1>5, <1>9, <2>2, <3>2
    <3> QED
      BY <1>1, <3>3
  <2> QED
    BY <1>6, <2>1, <2>2
<1>10. Once(y)
  BY <1>2, <1>9 DEF Once
<1> QED
  BY <1>2, <1>8, <1>10 DEF y

\* It is shorter if one of them is missing.
LEMMA ShorterFacts ==
  ASSUME NEW S, NEW s \in Seq(S), Once(s), NEW r \in Seq(S), ToSet(s) \subseteq ToSet(r),
         NEW w \in ToSet(r), w \notin ToSet(s)
  PROVE  Len(s) < Len(r)
PROOF
<1> DEFINE t == << w >>
<1>1. w \in S /\ Len(s) \in Nat /\ Len(r) \in Nat
  BY ElementFacts
<1>2. t \in Seq(S) /\ Once(t) /\ ToSet(t) = {w} /\ Len(t) = 1
  BY <1>1 DEF Once, ToSet
<1> HIDE DEF t
<1>3. s \o t \in Seq(S) /\ Once(s \o t) /\ ToSet(s \o t) \subseteq ToSet(r)
  BY <1>2, BothOnce
<1>4. Len(s \o t) = Len(s) + 1
  BY <1>1, <1>2, ConcatProperties
<1>5. Len(s \o t) <= Len(r)
  BY <1>3, LengthFacts
<1> QED
  BY <1>1, <1>4, <1>5

------------------------------------------------------------------------------
(* A block and the places in it. *)

\* The numbers of its operations.
NumbersOf(b) == {b.ops[p].id : p \in DOMAIN b.ops}

\* A sequence of operations, each with a number of its own.
Arranged(b) ==
  /\ DOMAIN b = {"ops", "next"} /\ b.next \in Nat \ {0} /\ b.ops \in Seq(ToSet(b.ops))
  /\ \A p \in DOMAIN b.ops : DOMAIN b.ops[p] = OperationFields /\ b.ops[p].id \in 1..b.next - 1
  /\ \A p, q \in DOMAIN b.ops : b.ops[p].id = b.ops[q].id => p = q

\* A number leads to the one operation that has it, wherever that stands.
LEMMA PositionFacts ==
  ASSUME NEW b, Arranged(b)
  PROVE  /\ Len(b.ops) \in Nat /\ DOMAIN b.ops = 1..Len(b.ops)
         /\ \A v \in NumbersOf(b) :
              /\ Position(b, v) \in 1..Len(b.ops) /\ DefiningOp(b, v) = b.ops[Position(b, v)]
              /\ DefiningOp(b, v).id = v /\ DOMAIN DefiningOp(b, v) = OperationFields
              /\ v \in Nat /\ v >= 1 /\ v < b.next
         /\ \A p \in 1..Len(b.ops) :
              /\ b.ops[p].id \in NumbersOf(b) /\ Position(b, b.ops[p].id) = p
              /\ DefiningOp(b, b.ops[p].id) = b.ops[p]
         /\ \A u, v \in NumbersOf(b) : Position(b, u) = Position(b, v) => u = v
         /\ b.next \notin NumbersOf(b)
PROOF
<1>1. Len(b.ops) \in Nat /\ DOMAIN b.ops = 1..Len(b.ops)
  BY LenProperties DEF Arranged
<1>2. \A v \in NumbersOf(b) : Position(b, v) \in DOMAIN b.ops /\ b.ops[Position(b, v)].id = v
  <2> TAKE v \in NumbersOf(b)
  <2>1. Positions(b, v) # {}
    BY DEF Positions, NumbersOf
  <2>2. Position(b, v) \in Positions(b, v)
    BY <2>1 DEF Position
  <2> QED
    BY <2>2 DEF Positions
<1>3. \A p \in DOMAIN b.ops : b.ops[p].id \in NumbersOf(b)
  BY DEF NumbersOf
<1>4. \A p \in DOMAIN b.ops : Position(b, b.ops[p].id) = p
  BY <1>2, <1>3 DEF Arranged
<1>5. \A v \in NumbersOf(b) :
        DefiningOp(b, v) = b.ops[Position(b, v)] /\ DOMAIN DefiningOp(b, v) = OperationFields
  BY <1>2 DEF DefiningOp, Arranged
<1>6. \A v \in NumbersOf(b) : v \in 1..b.next - 1
  BY <1>2 DEF Arranged
<1>7. b.next \in Nat
  BY DEF Arranged
<1>8. \A v \in NumbersOf(b) : v \in Nat /\ v >= 1 /\ v < b.next
  BY <1>6, <1>7
<1>9. \A p \in DOMAIN b.ops : DefiningOp(b, b.ops[p].id) = b.ops[p]
  BY <1>4 DEF DefiningOp
<1>10. \A u, v \in NumbersOf(b) : Position(b, u) = Position(b, v) => u = v
  BY <1>2
<1>11. b.next \notin NumbersOf(b)
  BY <1>7, <1>8
<1> QED
  BY <1>1, <1>2, <1>3, <1>4, <1>5, <1>8, <1>9, <1>10, <1>11

\* The operations that the passes over concatenations are about.
Concats == {"concat", "thlo.concatenate"}

\* The operations that a walk replaces.
Dots == {"dot", "dot_general"}

\* An operation that stands below all it reads; no operand of a concatenation occurs twice.
Placed(b, v) ==
  LET o == DefiningOp(b, v)
  IN  /\ o.in \in Seq(NumbersOf(b))
      /\ \A u \in ToSet(o.in) : Position(b, u) < Position(b, v)
      /\ o.op \in DestinationStyle => o.in # <<>>
      /\ o.op \in Concats => Once(o.in)
      /\ o.op = "arg" =>
           \A u \in NumbersOf(b) :
             Position(b, u) < Position(b, v) => DefiningOp(b, u).op = "arg"

\* The operations above c.
Above(b, c) == {u \in NumbersOf(b) : Position(b, u) < Position(b, c)}

Sound(b) == Arranged(b) /\ \A v \in NumbersOf(b) : Placed(b, v)

\* What an operation reads is in the block, above it.
LEMMA OperandFacts ==
  ASSUME NEW b, Sound(b), NEW v \in NumbersOf(b)
  PROVE  LET in == DefiningOp(b, v).in
         IN  /\ in \in Seq(NumbersOf(b)) /\ in \in Seq(ToSet(in))
             /\ Len(in) \in Nat /\ DOMAIN in = 1..Len(in)
             /\ ToSet(in) = {in[k] : k \in 1..Len(in)}
             /\ ToSet(in) \subseteq NumbersOf(b)
             /\ \A u \in ToSet(in) : Position(b, u) < Position(b, v)
             /\ v \notin ToSet(in)
PROOF
<1> DEFINE in == DefiningOp(b, v).in
<1>1. in \in Seq(NumbersOf(b)) /\ \A u \in ToSet(in) : Position(b, u) < Position(b, v)
  BY DEF Sound, Placed
<1> HIDE DEF in
<1>2. /\ in \in Seq(ToSet(in)) /\ Len(in) \in Nat /\ DOMAIN in = 1..Len(in)
      /\ ToSet(in) = {in[k] : k \in 1..Len(in)} /\ ToSet(in) \subseteq NumbersOf(b)
  BY <1>1, ElementFacts
<1>3. v \notin ToSet(in)
  <2>1. Position(b, v) \in Nat
    BY PositionFacts DEF Sound
  <2> QED
    BY <1>1, <2>1
<1> QED
  BY <1>1, <1>2, <1>3 DEF in

\* No concatenation of d but was one of b, of as many operands at least.
Lessens(b, d) ==
  \A v \in NumbersOf(d) : DefiningOp(d, v).op \in Concats =>
    /\ v \in NumbersOf(b) /\ DefiningOp(b, v).op \in Concats
    /\ DefiningOp(d, v).op \in {DefiningOp(b, v).op, "concat"}
    /\ Len(DefiningOp(d, v).in) <= Len(DefiningOp(b, v).in)

\* A block has no more of them than itself, than one it is part of, and than one of which more
\* than one step leads to it.
LEMMA LessensFacts ==
  ASSUME NEW b, Sound(b)
  PROVE  /\ \A d : (\A v \in NumbersOf(d) : DefiningOp(d, v).op \in Concats =>
                      v \in NumbersOf(b) /\ DefiningOp(d, v) = DefiningOp(b, v)) => Lessens(b, d)
         /\ \A d, e : Sound(d) /\ Sound(e) /\ Lessens(b, d) /\ Lessens(d, e) => Lessens(b, e)
PROOF
<1>1. \A d : Sound(d) => \A v \in NumbersOf(d) : Len(DefiningOp(d, v).in) \in Nat
  BY OperandFacts
<1>2. ASSUME NEW d, NEW v \in NumbersOf(d), v \in NumbersOf(b), DefiningOp(d, v) = DefiningOp(b, v)
      PROVE  Len(DefiningOp(d, v).in) <= Len(DefiningOp(b, v).in)
  BY <1>1, <1>2
<1>3. ASSUME NEW d, NEW e, Sound(d), Sound(e), Lessens(b, d), Lessens(d, e),
             NEW v \in NumbersOf(e), DefiningOp(e, v).op \in Concats
      PROVE  /\ v \in NumbersOf(b) /\ DefiningOp(b, v).op \in Concats
             /\ DefiningOp(e, v).op \in {DefiningOp(b, v).op, "concat"}
             /\ Len(DefiningOp(e, v).in) <= Len(DefiningOp(b, v).in)
  <2>1. /\ v \in NumbersOf(d) /\ DefiningOp(d, v).op \in Concats
        /\ DefiningOp(e, v).op \in {DefiningOp(d, v).op, "concat"}
        /\ Len(DefiningOp(e, v).in) <= Len(DefiningOp(d, v).in)
    BY <1>3 DEF Lessens
  <2>2. /\ v \in NumbersOf(b) /\ DefiningOp(b, v).op \in Concats
        /\ DefiningOp(d, v).op \in {DefiningOp(b, v).op, "concat"}
        /\ Len(DefiningOp(d, v).in) <= Len(DefiningOp(b, v).in)
    BY <1>3, <2>1 DEF Lessens
  <2>3. /\ Len(DefiningOp(e, v).in) \in Nat /\ Len(DefiningOp(d, v).in) \in Nat
        /\ Len(DefiningOp(b, v).in) \in Nat
    BY <1>1, <1>3, <2>1, <2>2
  <2>4. Len(DefiningOp(e, v).in) <= Len(DefiningOp(b, v).in)
    BY <2>1, <2>2, <2>3
  <2> QED
    BY <2>1, <2>2, <2>4
<1> QED
  BY <1>2, <1>3 DEF Lessens

------------------------------------------------------------------------------
(* Insertion. *)

\* o, of no kind that a pass rewrites, can stand at position p: below what it reads and below
\* the arguments.
Fits(b, p, o) ==
  /\ p \in 1..Len(b.ops) + 1
  /\ DOMAIN o = OperationFields /\ o.op \notin Concats \cup Dots \cup {"arg"}
  /\ o.in \in Seq({u \in NumbersOf(b) : Position(b, u) < p})
  /\ o.op \in DestinationStyle => o.in # <<>>
  /\ \A v \in NumbersOf(b) : DefiningOp(b, v).op = "arg" => Position(b, v) < p

\* d is b and an operation at position p.
Inserted(b, d, p, o) ==
  /\ Sound(d) /\ d.next = b.next + 1 /\ NumbersOf(d) = NumbersOf(b) \cup {b.next}
  /\ \A v \in NumbersOf(b) : DefiningOp(d, v) = DefiningOp(b, v) /\ v # b.next
  /\ \A u, v \in NumbersOf(b) :
       Position(d, u) < Position(d, v) <=> Position(b, u) < Position(b, v)
  /\ \A v \in NumbersOf(b) : /\ Position(d, v) < Position(d, b.next) <=> Position(b, v) < p
                             /\ Position(d, b.next) < Position(d, v) <=> p <= Position(b, v)
  /\ Position(d, b.next) = p
  /\ DefiningOp(d, b.next).op = o.op /\ DefiningOp(d, b.next).in = o.in

\* The new operation is one of the block, and the others keep their order.
LEMMA InsertFacts ==
  ASSUME NEW b, Sound(b), NEW p, NEW o, Fits(b, p, o)
  PROVE  Inserted(b, Insert(b, p, o), p, o)
PROOF
<1> DEFINE n == Len(b.ops)
           d == Insert(b, p, o)
           x == [o EXCEPT !.id = b.next]
<1>1. /\ Arranged(b) /\ n \in Nat /\ DOMAIN b.ops = 1..n /\ b.next \in Nat \ {0}
      /\ p \in 1..n + 1 /\ b.ops \in Seq(ToSet(b.ops))
  BY PositionFacts DEF Sound, Arranged, Fits
<1>2. /\ DOMAIN x = OperationFields /\ x.id = b.next /\ x.op = o.op /\ x.in = o.in
  BY DEF Fits, OperationFields
<1>3. /\ DOMAIN d = {"ops", "next"} /\ d.next = b.next + 1
      /\ d.ops = InsertAt(b.ops, p, x)
  BY <1>1 DEF Insert, Arranged
<1> HIDE DEF d, x
<1> DEFINE S == ToSet(b.ops) \cup {x}
<1>a. b.ops \in Seq(S) /\ x \in S
  BY <1>1, SeqMonotonic
<1> HIDE DEF S
<1>4. d.ops \in Seq(S) /\ Len(d.ops) = n + 1 /\ d.ops[p] = x
  BY <1>1, <1>3, <1>a, InsertAtFacts
<1>5. \A q \in 1..n : d.ops[Shifted(p, q)] = b.ops[q]
  BY <1>1, <1>3, <1>a, InsertAtFacts
<1>6. DOMAIN d.ops = 1..n + 1
  BY <1>4, LenProperties
<1> HIDE DEF n
<1>7. \A q \in 1..n : Shifted(p, q) \in 1..n + 1 /\ Shifted(p, q) # p
  BY <1>1, ShiftedFacts
<1>8. \A q \in 1..n + 1 : q # p => \E r \in 1..n : q = Shifted(p, r)
  BY <1>1, ShiftedFacts
<1>9. \A q \in 1..n : DOMAIN b.ops[q] = OperationFields /\ b.ops[q].id \in 1..b.next - 1
  BY <1>1 DEF Arranged
<1>10. Arranged(d)
  <2>1. d.ops \in Seq(ToSet(d.ops))
    <3>1. d.ops \in Seq(Range(d.ops))
      BY <1>4, SeqOfRange
    <3>2. Range(d.ops) = ToSet(d.ops)
      BY DEF Range, ToSet
    <3> QED
      BY <3>1, <3>2
  <2>2. ASSUME NEW q \in 1..n + 1
        PROVE  DOMAIN d.ops[q] = OperationFields /\ d.ops[q].id \in 1..d.next - 1
    <3>1. CASE q = p
      <4>1. d.ops[q] = x /\ b.next \in 1..(b.next + 1) - 1
        BY <1>1, <1>4, <3>1
      <4> QED
        BY <1>2, <1>3, <4>1
    <3>2. CASE q # p
      <4>1. PICK r \in 1..n : q = Shifted(p, r)
        BY <1>8, <3>2
      <4>2. d.ops[q] = b.ops[r]
        BY <1>5, <4>1
      <4> QED
        BY <1>1, <1>3, <1>9, <4>2
    <3> QED
      BY <3>1, <3>2
  <2>3. ASSUME NEW q \in 1..n + 1, NEW r \in 1..n + 1, d.ops[q].id = d.ops[r].id
        PROVE  q = r
    <3>1. \A k \in 1..n + 1 : k # p => \E j \in 1..n : k = Shifted(p, j) /\ d.ops[k] = b.ops[j]
      BY <1>5, <1>8
    <3>2. \A j \in 1..n : b.ops[j].id # b.next
      BY <1>1, <1>9
    <3>3. CASE q # p /\ r # p
      <4>1. PICK j \in 1..n : q = Shifted(p, j) /\ d.ops[q] = b.ops[j]
        BY <3>1, <3>3
      <4>2. PICK k \in 1..n : r = Shifted(p, k) /\ d.ops[r] = b.ops[k]
        BY <3>1, <3>3
      <4>3. j = k
        BY <1>1, <2>3, <4>1, <4>2 DEF Arranged
      <4> QED
        BY <4>1, <4>2, <4>3
    <3>4. CASE q # p /\ r = p
      BY <1>2, <1>4, <2>3, <3>1, <3>2, <3>4
    <3>5. CASE q = p /\ r # p
      BY <1>2, <1>4, <2>3, <3>1, <3>2, <3>5
    <3> QED
      BY <3>3, <3>4, <3>5
  <2>4. d.next \in Nat \ {0}
    BY <1>1, <1>3
  <2> QED
    BY <1>3, <1>6, <2>1, <2>2, <2>3, <2>4 DEF Arranged
<1>11. \A q \in 1..n + 1 : Position(d, d.ops[q].id) = q /\ DefiningOp(d, d.ops[q].id) = d.ops[q]
  BY <1>4, <1>10, PositionFacts
<1>12. \A q \in 1..n :
         Position(d, b.ops[q].id) = Shifted(p, q) /\ DefiningOp(d, b.ops[q].id) = b.ops[q]
  BY <1>5, <1>7, <1>11
<1>13. Position(d, b.next) = p /\ DefiningOp(d, b.next) = x
  BY <1>1, <1>2, <1>4, <1>11
<1>14. NumbersOf(d) = NumbersOf(b) \cup {b.next}
  <2>1. \A q \in 1..n + 1 : d.ops[q].id \in NumbersOf(b) \cup {b.next}
    <3> TAKE q \in 1..n + 1
    <3>1. CASE q = p
      BY <1>2, <1>4, <3>1
    <3>2. CASE q # p
      <4>1. PICK r \in 1..n : d.ops[q] = b.ops[r]
        BY <1>5, <1>8, <3>2
      <4> QED
        BY <1>1, <4>1 DEF NumbersOf
    <3> QED
      BY <3>1, <3>2
  <2>2. \A q \in 1..n : b.ops[q].id \in NumbersOf(d)
    <3> TAKE q \in 1..n
    <3>1. Shifted(p, q) \in DOMAIN d.ops /\ d.ops[Shifted(p, q)] = b.ops[q]
      BY <1>5, <1>6, <1>7
    <3> QED
      BY <3>1 DEF NumbersOf
  <2>3. b.next \in NumbersOf(d)
    BY <1>1, <1>2, <1>4, <1>6 DEF NumbersOf
  <2> QED
    BY <1>1, <1>6, <2>1, <2>2, <2>3 DEF NumbersOf
<1>15. \A v \in NumbersOf(b) :
         /\ Position(b, v) \in 1..n /\ Position(d, v) = Shifted(p, Position(b, v))
         /\ DefiningOp(d, v) = DefiningOp(b, v) /\ v # b.next
  <2> TAKE v \in NumbersOf(b)
  <2>1. Position(b, v) \in 1..n /\ DefiningOp(b, v) = b.ops[Position(b, v)]
        /\ b.ops[Position(b, v)].id = v
    BY <1>1, PositionFacts DEF n
  <2>2. v # b.next
    BY <1>1, PositionFacts
  <2> QED
    BY <1>12, <2>1, <2>2
<1>16. \A u, v \in NumbersOf(b) : Position(d, u) < Position(d, v) <=> Position(b, u) < Position(b, v)
  <2>1. \A q, r \in 1..n : Shifted(p, q) < Shifted(p, r) <=> q < r
    BY <1>1, ShiftedFacts
  <2> QED
    BY <1>15, <2>1
<1>17. \A v \in NumbersOf(b) : /\ Position(d, v) < Position(d, b.next) <=> Position(b, v) < p
                               /\ Position(d, b.next) < Position(d, v) <=> p <= Position(b, v)
  <2>1. \A q \in 1..n : (Shifted(p, q) < p <=> q < p) /\ (p < Shifted(p, q) <=> p <= q)
    BY <1>1, ShiftedFacts
  <2> QED
    BY <1>13, <1>15, <2>1
<1>18. ASSUME NEW v \in NumbersOf(b)
       PROVE  Placed(d, v)
  <2>1. Placed(b, v) /\ DefiningOp(d, v) = DefiningOp(b, v) /\ v \in NumbersOf(d)
    BY <1>14, <1>15 DEF Sound
  <2> DEFINE e == DefiningOp(b, v)
  <2>2. e.in \in Seq(NumbersOf(b)) /\ \A u \in ToSet(e.in) : u \in NumbersOf(b)
    BY <2>1, LenProperties, ElementOfSeq DEF Placed, ToSet
  <2>3. e.in \in Seq(NumbersOf(d))
    BY <1>14, <2>2, SeqMonotonic
  <2>4. \A u \in ToSet(e.in) : Position(d, u) < Position(d, v)
    BY <1>16, <2>1, <2>2 DEF Placed
  <2>5. ASSUME e.op = "arg", NEW u \in NumbersOf(d), Position(d, u) < Position(d, v)
        PROVE  DefiningOp(d, u).op = "arg"
    <3>1. Position(b, v) < p /\ Position(d, v) < Position(d, b.next)
      BY <1>17, <2>5 DEF Fits
    <3>2. Position(d, v) \in Nat /\ Position(d, b.next) \in Nat /\ Position(d, u) \in Nat
      BY <1>10, <1>14, <2>1, PositionFacts
    <3>3. u # b.next
      BY <2>5, <3>1, <3>2
    <3>4. u \in NumbersOf(b)
      BY <1>14, <3>3
    <3> QED
      BY <1>15, <1>16, <2>1, <2>5, <3>4 DEF Placed
  <2> HIDE DEF e
  <2>6. (e.op \in DestinationStyle => e.in # <<>>) /\ (e.op \in Concats => Once(e.in))
    BY <2>1 DEF Placed, e
  <2>7. DefiningOp(d, v) = e
    BY <2>1 DEF e
  <2> QED
    BY <2>3, <2>4, <2>5, <2>6, <2>7 DEF Placed
<1>19. Placed(d, b.next)
  <2>1. o.in \in Seq(NumbersOf(d))
    BY <1>14, SeqMonotonic DEF Fits
  <2>2. \A u \in ToSet(o.in) : u \in NumbersOf(b) /\ Position(b, u) < p
    BY LenProperties, ElementOfSeq DEF Fits, ToSet
  <2>3. \A u \in ToSet(o.in) : Position(d, u) < Position(d, b.next)
    BY <1>17, <2>2
  <2> QED
    BY <1>2, <1>13, <2>1, <2>3 DEF Placed, Fits
<1>20. Sound(d)
  BY <1>10, <1>14, <1>18, <1>19 DEF Sound
<1> QED
  BY <1>2, <1>3, <1>13, <1>14, <1>15, <1>16, <1>17, <1>20 DEF Inserted, d

------------------------------------------------------------------------------
(* Erasure. *)

\* d is what is left of b.
Kept(b, d) ==
  /\ Sound(d) /\ d.next = b.next /\ NumbersOf(d) \subseteq NumbersOf(b)
  /\ \A v \in NumbersOf(d) : DefiningOp(d, v) = DefiningOp(b, v)
  /\ \A u, v \in NumbersOf(d) :
       Position(d, u) < Position(d, v) <=> Position(b, u) < Position(b, v)

\* Operations of a block, in their order, are a block if all they read is among them.
LEMMA KeptFacts ==
  ASSUME NEW b, Sound(b), NEW d, DOMAIN d = {"ops", "next"}, d.next = b.next,
         d.ops \in Seq(ToSet(b.ops)), NEW pos,
         \A j \in 1..Len(d.ops) : pos[j] \in 1..Len(b.ops) /\ d.ops[j] = b.ops[pos[j]],
         \A i, j \in 1..Len(d.ops) : i < j => pos[i] < pos[j],
         \A v \in NumbersOf(d) : ToSet(DefiningOp(b, v).in) \subseteq NumbersOf(d)
  PROVE  Kept(b, d)
PROOF
<1> DEFINE n == Len(b.ops)
           m == Len(d.ops)
<1>1. /\ Arranged(b) /\ n \in Nat /\ DOMAIN b.ops = 1..n /\ b.next \in Nat \ {0}
      /\ m \in Nat /\ DOMAIN d.ops = 1..m
  BY PositionFacts, LenProperties DEF Sound, Arranged
<1>2. \A i, j \in 1..m : pos[i] = pos[j] => i = j
  <2> SUFFICES ASSUME NEW i \in 1..m, NEW j \in 1..m, pos[i] = pos[j], i # j PROVE FALSE
    OBVIOUS
  <2>1. pos[i] \in Nat /\ (i < j \/ j < i)
    BY <1>1
  <2>2. pos[i] < pos[j] \/ pos[j] < pos[i]
    BY <2>1
  <2> QED
    BY <2>1, <2>2
<1>3. \A i, j \in 1..m : pos[i] < pos[j] <=> i < j
  <2> SUFFICES ASSUME NEW i \in 1..m, NEW j \in 1..m, pos[i] < pos[j] PROVE i < j
    OBVIOUS
  <2>1. pos[i] \in Nat /\ pos[j] \in Nat /\ i \in Nat /\ j \in Nat
    BY <1>1
  <2>2. CASE i = j
    BY <2>1, <2>2
  <2>3. CASE j < i
    <3>1. pos[j] < pos[i]
      BY <2>3
    <3> QED
      BY <2>1, <3>1
  <2> QED
    BY <2>1, <2>2, <2>3
<1> HIDE DEF n, m
<1>4. \A j \in 1..m : pos[j] \in 1..n /\ d.ops[j] = b.ops[pos[j]]
  BY DEF n, m
<1>5. Arranged(d)
  <2>1. d.ops \in Seq(ToSet(d.ops))
    <3>1. d.ops \in Seq(Range(d.ops))
      BY SeqOfRange
    <3>2. Range(d.ops) = ToSet(d.ops)
      BY DEF Range, ToSet
    <3> QED
      BY <3>1, <3>2
  <2>2. \A j \in 1..m : DOMAIN d.ops[j] = OperationFields /\ d.ops[j].id \in 1..d.next - 1
    <3>1. \A p \in 1..n : DOMAIN b.ops[p] = OperationFields /\ b.ops[p].id \in 1..d.next - 1
      BY <1>1 DEF Arranged
    <3> QED
      BY <1>4, <3>1
  <2>3. ASSUME NEW i \in 1..m, NEW j \in 1..m, d.ops[i].id = d.ops[j].id
        PROVE  i = j
    <3>1. \A p, q \in 1..n : b.ops[p].id = b.ops[q].id => p = q
      BY <1>1 DEF Arranged
    <3>2. pos[i] = pos[j]
      BY <1>4, <2>3, <3>1
    <3> QED
      BY <1>2, <3>2
  <2> QED
    BY <1>1, <2>1, <2>2, <2>3 DEF Arranged
<1>6. \A j \in 1..m :
        /\ Position(d, d.ops[j].id) = j /\ DefiningOp(d, d.ops[j].id) = d.ops[j]
        /\ Position(b, d.ops[j].id) = pos[j] /\ DefiningOp(b, d.ops[j].id) = d.ops[j]
  <2> TAKE j \in 1..m
  <2>1. Position(d, d.ops[j].id) = j /\ DefiningOp(d, d.ops[j].id) = d.ops[j]
    BY <1>5, PositionFacts DEF m
  <2>2. pos[j] \in 1..n /\ d.ops[j] = b.ops[pos[j]]
    BY <1>4
  <2>3. /\ Position(b, b.ops[pos[j]].id) = pos[j]
        /\ DefiningOp(b, b.ops[pos[j]].id) = b.ops[pos[j]]
    BY <1>1, <2>2, PositionFacts DEF n
  <2> QED
    BY <2>1, <2>2, <2>3
<1>7. \A v \in NumbersOf(d) : \E j \in 1..m : v = d.ops[j].id
  BY <1>1 DEF NumbersOf
<1>8. NumbersOf(d) \subseteq NumbersOf(b)
  BY <1>1, <1>4, <1>7 DEF NumbersOf
<1>9. \A v \in NumbersOf(d) : DefiningOp(d, v) = DefiningOp(b, v)
  BY <1>6, <1>7
<1>10. \A u, v \in NumbersOf(d) :
         Position(d, u) < Position(d, v) <=> Position(b, u) < Position(b, v)
  <2> TAKE u, v \in NumbersOf(d)
  <2>1. PICK i \in 1..m : u = d.ops[i].id
    BY <1>7
  <2>2. PICK j \in 1..m : v = d.ops[j].id
    BY <1>7
  <2> QED
    BY <1>3, <1>6, <2>1, <2>2
<1>11. ASSUME NEW v \in NumbersOf(d)
       PROVE  Placed(d, v)
  <2> DEFINE e == DefiningOp(b, v)
  <2>1. Placed(b, v) /\ DefiningOp(d, v) = e /\ v \in NumbersOf(b)
    BY <1>8, <1>9 DEF Sound
  <2>2. e.in \in Seq(NumbersOf(d))
    <3>1. e.in \in Seq(ToSet(e.in)) /\ ToSet(e.in) \subseteq NumbersOf(d)
      BY <2>1, OperandFacts
    <3> HIDE DEF e
    <3> QED
      BY <3>1, SeqMonotonic
  <2>3. \A u \in ToSet(e.in) : u \in NumbersOf(d) /\ Position(d, u) < Position(d, v)
    BY <1>10, <2>1 DEF Placed
  <2>4. ASSUME e.op = "arg", NEW u \in NumbersOf(d), Position(d, u) < Position(d, v)
        PROVE  DefiningOp(d, u).op = "arg"
    BY <1>8, <1>9, <1>10, <2>1, <2>4 DEF Placed
  <2>5. (e.op \in DestinationStyle => e.in # <<>>) /\ (e.op \in Concats => Once(e.in))
    BY <2>1 DEF Placed
  <2> HIDE DEF e
  <2> QED
    BY <2>1, <2>2, <2>3, <2>4, <2>5 DEF Placed
<1>12. Sound(d)
  BY <1>5, <1>11 DEF Sound
<1> QED
  BY <1>8, <1>9, <1>10, <1>12 DEF Kept

\* What nothing reads can go.
LEMMA EraseFacts ==
  ASSUME NEW b, Sound(b), NEW c \in NumbersOf(b),
         \A v \in NumbersOf(b) : c \notin ToSet(DefiningOp(b, v).in)
  PROVE  Kept(b, Erase(b, c)) /\ NumbersOf(Erase(b, c)) = NumbersOf(b) \ {c}
PROOF
<1> DEFINE n == Len(b.ops)
           p == Position(b, c)
           d == Erase(b, c)
           pos == [j \in 1..n - 1 |-> Shifted(p, j)]
<1>1. /\ Arranged(b) /\ n \in Nat /\ DOMAIN b.ops = 1..n
      /\ p \in 1..n /\ b.ops \in Seq(ToSet(b.ops)) /\ n - 1 \in Nat /\ p \in 1..(n - 1) + 1
  BY PositionFacts DEF Sound, Arranged
<1>2. DOMAIN d = {"ops", "next"} /\ d.next = b.next /\ d.ops = RemoveAt(b.ops, p)
  BY <1>1 DEF Erase, Arranged
<1> HIDE DEF d
<1>3. /\ d.ops \in Seq(ToSet(b.ops)) /\ Len(d.ops) = n - 1
      /\ \A j \in 1..n - 1 : d.ops[j] = b.ops[Shifted(p, j)]
  BY <1>1, <1>2, RemoveAtFacts
<1> HIDE DEF p, n
<1>4. \A j \in 1..n - 1 : Shifted(p, j) \in 1..(n - 1) + 1 /\ Shifted(p, j) # p
  BY <1>1, ShiftedFacts
<1>5. \A j \in 1..(n - 1) + 1 : j # p => \E r \in 1..n - 1 : j = Shifted(p, r)
  BY <1>1, ShiftedFacts
<1>6. \A i, j \in 1..n - 1 : Shifted(p, i) < Shifted(p, j) <=> i < j
  BY <1>1, ShiftedFacts
<1>7. (n - 1) + 1 = n
  BY <1>1
<1>8. DOMAIN d.ops = 1..n - 1
  BY <1>3, LenProperties
<1>9. \A j \in 1..n : b.ops[j].id = c <=> j = p
  <2>1. b.ops[p].id = c
    BY <1>1, PositionFacts DEF p
  <2> QED
    BY <1>1, <2>1 DEF Arranged
<1>10. NumbersOf(d) = NumbersOf(b) \ {c}
  <2>1. \A j \in 1..n - 1 : d.ops[j].id \in NumbersOf(b) \ {c}
    <3> TAKE j \in 1..n - 1
    <3>1. Shifted(p, j) \in 1..n /\ Shifted(p, j) # p /\ d.ops[j] = b.ops[Shifted(p, j)]
      BY <1>3, <1>4, <1>7
    <3> QED
      BY <1>1, <1>9, <3>1 DEF NumbersOf
  <2>2. \A j \in 1..n : j # p => b.ops[j].id \in NumbersOf(d)
    <3> SUFFICES ASSUME NEW j \in 1..n, j # p PROVE b.ops[j].id \in NumbersOf(d)
      OBVIOUS
    <3>1. PICK r \in 1..n - 1 : j = Shifted(p, r)
      BY <1>5, <1>7
    <3> QED
      BY <1>3, <1>8, <3>1 DEF NumbersOf
  <2> QED
    BY <1>1, <1>8, <1>9, <2>1, <2>2 DEF NumbersOf
<1>11. \A v \in NumbersOf(d) : ToSet(DefiningOp(b, v).in) \subseteq NumbersOf(d)
  <2>1. \A v \in NumbersOf(b) : ToSet(DefiningOp(b, v).in) \subseteq NumbersOf(b)
    BY LenProperties, ElementOfSeq DEF Sound, Placed, ToSet
  <2> QED
    BY <1>10, <2>1
<1>12. \A j \in 1..Len(d.ops) : pos[j] \in 1..Len(b.ops) /\ d.ops[j] = b.ops[pos[j]]
  BY <1>3, <1>4, <1>7 DEF n
<1>13. \A i, j \in 1..Len(d.ops) : i < j => pos[i] < pos[j]
  BY <1>3, <1>6
<1> HIDE DEF pos
<1>14. Kept(b, d)
  BY <1>2, <1>3, <1>11, <1>12, <1>13, KeptFacts
<1> QED
  BY <1>10, <1>14 DEF d

------------------------------------------------------------------------------
(* Other operands. *)

\* The operations of d are those of b, where they were.
Where(b, d) ==
  /\ d.next = b.next /\ NumbersOf(d) = NumbersOf(b)
  /\ \A v \in NumbersOf(b) : Position(d, v) = Position(b, v)

\* An operation of b at every place of d, or what has become of it.
Rewired(b, d, S) ==
  /\ DOMAIN d = {"ops", "next"} /\ d.next = b.next /\ d.ops \in [1..Len(b.ops) -> S]
  /\ \A p \in 1..Len(b.ops) :
       DOMAIN d.ops[p] = OperationFields /\ d.ops[p].id = b.ops[p].id

\* Operations that keep their numbers keep their places.
LEMMA WhereFacts ==
  ASSUME NEW b, Arranged(b), NEW d, NEW S, Rewired(b, d, S)
  PROVE  /\ Arranged(d) /\ Where(b, d)
         /\ \A v \in NumbersOf(b) : DefiningOp(d, v) = d.ops[Position(b, v)]
PROOF
<1> DEFINE n == Len(b.ops)
<1>1. /\ n \in Nat /\ DOMAIN b.ops = 1..n /\ b.next \in Nat \ {0}
      /\ DOMAIN d = {"ops", "next"} /\ d.next = b.next
      /\ d.ops \in [1..n -> S] /\ DOMAIN d.ops = 1..n
  BY PositionFacts DEF Arranged, Rewired
<1>2. d.ops \in Seq(S)
  BY <1>1
<1>3. d.ops \in Seq(ToSet(d.ops)) /\ Len(d.ops) = n
  <2>1. d.ops \in Seq(ToSet(d.ops))
    BY <1>2, ElementFacts
  <2>2. Len(d.ops) = n
    BY <1>1
  <2> QED
    BY <2>1, <2>2
<1> HIDE DEF n
<1>4. \A p \in 1..n : DOMAIN d.ops[p] = OperationFields /\ d.ops[p].id = b.ops[p].id
  BY DEF n, Rewired
<1>5. \A p \in 1..n : b.ops[p].id \in 1..d.next - 1
  BY <1>1 DEF Arranged
<1>6. \A p, q \in 1..n : b.ops[p].id = b.ops[q].id => p = q
  BY <1>1 DEF Arranged
<1>7. Arranged(d)
  <2>1. \A p, q \in 1..n : d.ops[p].id = d.ops[q].id => p = q
    BY <1>4, <1>6
  <2>2. \A p \in 1..n : DOMAIN d.ops[p] = OperationFields /\ d.ops[p].id \in 1..d.next - 1
    BY <1>4, <1>5
  <2> QED
    BY <1>1, <1>3, <2>1, <2>2 DEF Arranged
<1>8. NumbersOf(d) = NumbersOf(b)
  BY <1>1, <1>4 DEF NumbersOf
<1>9. ASSUME NEW v \in NumbersOf(b)
      PROVE  Position(d, v) = Position(b, v) /\ DefiningOp(d, v) = d.ops[Position(b, v)]
  <2>1. Position(b, v) \in 1..n /\ b.ops[Position(b, v)].id = v
    BY PositionFacts DEF n
  <2>2. d.ops[Position(b, v)].id = v
    BY <1>4, <2>1
  <2>3. /\ Position(d, d.ops[Position(b, v)].id) = Position(b, v)
        /\ DefiningOp(d, d.ops[Position(b, v)].id) = d.ops[Position(b, v)]
    BY <1>3, <1>7, <2>1, PositionFacts
  <2> QED
    BY <2>2, <2>3
<1> QED
  BY <1>1, <1>7, <1>8, <1>9 DEF Where

\* An operation may get other operands that are above it.
LEMMA SetOperandsFacts ==
  ASSUME NEW b, Sound(b), NEW v \in NumbersOf(b),
         NEW in \in Seq(Above(b, v)),
         DefiningOp(b, v).op \in DestinationStyle => in # <<>>,
         DefiningOp(b, v).op \in Concats => Once(in)
  PROVE  LET d == SetOperands(b, v, in)
         IN  /\ Sound(d) /\ Where(b, d)
             /\ \A u \in NumbersOf(b) : DefiningOp(d, u).op = DefiningOp(b, u).op
             /\ \A u \in NumbersOf(b) \ {v} : DefiningOp(d, u) = DefiningOp(b, u)
             /\ DefiningOp(d, v).in = in
PROOF
<1> DEFINE n == Len(b.ops)
           p == Position(b, v)
           x == [b.ops[p] EXCEPT !.in = in]
           d == SetOperands(b, v, in)
           S == ToSet(b.ops) \cup {x}
<1>1. /\ Arranged(b) /\ n \in Nat /\ DOMAIN b.ops = 1..n /\ p \in 1..n
      /\ DefiningOp(b, v) = b.ops[p] /\ b.ops[p].id = v
      /\ DOMAIN b.ops[p] = OperationFields
  BY PositionFacts DEF Sound
<1>2. /\ DOMAIN x = OperationFields /\ x.id = b.ops[p].id /\ x.op = b.ops[p].op /\ x.in = in
  BY <1>1 DEF OperationFields
<1>3. b.ops \in [1..n -> ToSet(b.ops)]
  BY <1>1, ElementOfSeq DEF Arranged, ToSet
<1>4. DOMAIN d = {"ops", "next"} /\ d.next = b.next /\ d.ops = [b.ops EXCEPT ![p] = x]
  BY <1>1 DEF SetOperands, Arranged
<1> HIDE DEF d, x
<1>5. d.ops \in [1..n -> S] /\ d.ops[p] = x /\ \A q \in 1..n : q # p => d.ops[q] = b.ops[q]
  BY <1>1, <1>3, <1>4
<1>6. \A q \in 1..n : DOMAIN b.ops[q] = OperationFields
  BY <1>1 DEF Arranged
<1>7. \A q \in 1..n : DOMAIN d.ops[q] = OperationFields /\ d.ops[q].id = b.ops[q].id
  BY <1>2, <1>5, <1>6
<1>a. Rewired(b, d, S)
  BY <1>4, <1>5, <1>7 DEF Rewired
<1> HIDE DEF S, p
<1>8. /\ Arranged(d) /\ Where(b, d)
      /\ \A u \in NumbersOf(b) : DefiningOp(d, u) = d.ops[Position(b, u)]
  BY <1>1, <1>a, WhereFacts
<1>9. \A u \in NumbersOf(b) : /\ Position(b, u) \in 1..n /\ DefiningOp(b, u) = b.ops[Position(b, u)]
                              /\ Position(b, u) = p => u = v
  BY <1>1, PositionFacts DEF p
<1>10. \A u \in NumbersOf(b) \ {v} : DefiningOp(d, u) = DefiningOp(b, u)
  BY <1>5, <1>8, <1>9
<1>11. DefiningOp(d, v) = x
  BY <1>5, <1>8 DEF p
<1>12. \A u \in NumbersOf(b) : DefiningOp(d, u).op = DefiningOp(b, u).op
  BY <1>1, <1>2, <1>10, <1>11
<1>13. ASSUME NEW w \in NumbersOf(b)
       PROVE  Placed(d, w)
  <2>0. Placed(b, w) /\ NumbersOf(d) = NumbersOf(b)
        /\ \A u \in NumbersOf(b) : Position(d, u) = Position(b, u)
    BY <1>8 DEF Sound, Where
  <2>1. DefiningOp(b, w).op = "arg" =>
           \A u \in NumbersOf(b) :
             Position(d, u) < Position(d, w) => DefiningOp(d, u).op = "arg"
    BY <1>12, <2>0 DEF Placed
  <2>2. CASE w # v
    <3>1. DefiningOp(d, w) = DefiningOp(b, w)
      BY <1>10, <2>2
    <3>2. \A u \in ToSet(DefiningOp(b, w).in) : u \in NumbersOf(b)
      BY OperandFacts
    <3> QED
      BY <2>0, <2>1, <3>1, <3>2 DEF Placed
  <2>3. CASE w = v
    <3>1. DefiningOp(d, w).in = in /\ DefiningOp(d, w).op = DefiningOp(b, v).op
      BY <1>2, <1>11, <1>12, <2>3
    <3>2. ToSet(in) \subseteq {u \in NumbersOf(b) : Position(b, u) < Position(b, v)}
      BY ElementFacts DEF Above
    <3>3. in \in Seq(NumbersOf(b))
      BY SeqMonotonic DEF Above
    <3> QED
      BY <2>0, <2>1, <2>3, <3>1, <3>2, <3>3 DEF Placed
  <2> QED
    BY <2>2, <2>3
<1>14. Sound(d)
  BY <1>8, <1>13 DEF Sound, Where
<1> QED
  BY <1>2, <1>8, <1>10, <1>11, <1>12, <1>14 DEF d

\* One element in place of another.
LEMMA ReplaceAllFacts ==
  ASSUME NEW S, NEW s \in Seq(S), NEW old, NEW new \in S
  PROVE  /\ ReplaceAll(s, old, new) \in Seq(S) /\ Len(ReplaceAll(s, old, new)) = Len(s)
         /\ \A k \in 1..Len(s) : ReplaceAll(s, old, new)[k] = IF s[k] = old THEN new ELSE s[k]
         /\ Once(s) /\ new \notin ToSet(s) => Once(ReplaceAll(s, old, new))
PROOF
<1> DEFINE n == Len(s)
           e == ReplaceAll(s, old, new)
<1>1. n \in Nat /\ e = [k \in 1..n |-> IF s[k] = old THEN new ELSE s[k]]
  BY LenProperties DEF ReplaceAll
<1>2. \A k \in 1..n : s[k] \in S /\ s[k] \in ToSet(s)
  BY ElementOfSeq, ElementFacts
<1> HIDE DEF e, n
<1>3. \A k \in 1..n : e[k] = IF s[k] = old THEN new ELSE s[k]
  BY <1>1
<1>4. e \in [1..n -> S]
  BY <1>1, <1>2
<1>5. e \in Seq(S) /\ Len(e) = n
  BY <1>1, <1>4
<1>6. ASSUME Once(s), new \notin ToSet(s), NEW i \in 1..n, NEW j \in 1..n, e[i] = e[j]
      PROVE  i = j
  <2>1. s[i] = s[j] => i = j
    BY <1>6 DEF Once, n
  <2>2. s[i] # new /\ s[j] # new
    BY <1>2, <1>6
  <2>3. e[i] = (IF s[i] = old THEN new ELSE s[i]) /\ e[j] = (IF s[j] = old THEN new ELSE s[j])
    BY <1>3
  <2> QED
    BY <1>6, <2>1, <2>2, <2>3
<1> QED
  BY <1>3, <1>5, <1>6 DEF e, n, Once

\* Everything that read one result reads another one above instead.
LEMMA ReplaceUsesFacts ==
  ASSUME NEW b, Sound(b), NEW old \in NumbersOf(b), NEW new \in NumbersOf(b), old # new,
         \A v \in NumbersOf(b) : new \notin ToSet(DefiningOp(b, v).in),
         Position(b, new) < Position(b, old)
  PROVE  LET d == ReplaceUses(b, old, new)
         IN  /\ Sound(d) /\ Where(b, d)
             /\ \A u \in NumbersOf(b) : DefiningOp(d, u).op = DefiningOp(b, u).op
             /\ \A u \in NumbersOf(b) : old \notin ToSet(DefiningOp(d, u).in)
             /\ Lessens(b, d)
PROOF
<1> DEFINE n == Len(b.ops)
           d == ReplaceUses(b, old, new)
           In(q) == ReplaceAll(b.ops[q].in, old, new)
           x(q) == [b.ops[q] EXCEPT !.in = In(q)]
           S == {x(q) : q \in 1..n}
<1>1. Arranged(b) /\ n \in Nat /\ DOMAIN b.ops = 1..n
  BY PositionFacts DEF Sound
<1>2. \A q \in 1..n : DOMAIN b.ops[q] = OperationFields
  BY <1>1 DEF Arranged
<1>3. \A q \in 1..n : /\ DOMAIN x(q) = OperationFields /\ x(q).id = b.ops[q].id
                      /\ x(q).op = b.ops[q].op /\ x(q).in = In(q)
  <2> HIDE DEF In
  <2> QED
    BY <1>2 DEF OperationFields
<1>4. DOMAIN d = {"ops", "next"} /\ d.next = b.next /\ d.ops = [q \in 1..n |-> x(q)]
  BY <1>1 DEF ReplaceUses, Arranged
<1> HIDE DEF d, x, In
<1>5. d.ops \in [1..n -> S] /\ \A q \in 1..n : d.ops[q] = x(q)
  BY <1>4
<1>6. Rewired(b, d, S)
  BY <1>3, <1>4, <1>5 DEF Rewired
<1> HIDE DEF S
<1>7. /\ Arranged(d) /\ Where(b, d)
      /\ \A u \in NumbersOf(b) : DefiningOp(d, u) = d.ops[Position(b, u)]
  BY <1>1, <1>6, WhereFacts
<1>8. ASSUME NEW u \in NumbersOf(b)
      PROVE  /\ DefiningOp(d, u).op = DefiningOp(b, u).op
             /\ DefiningOp(d, u).in = ReplaceAll(DefiningOp(b, u).in, old, new)
  <2>1. Position(b, u) \in 1..n /\ DefiningOp(b, u) = b.ops[Position(b, u)]
    BY <1>1, PositionFacts
  <2>2. DefiningOp(d, u) = x(Position(b, u))
    BY <1>5, <1>7, <2>1
  <2> QED
    BY <1>3, <2>1, <2>2 DEF In
<1>9. ASSUME NEW u \in NumbersOf(b)
      PROVE  old \notin ToSet(DefiningOp(d, u).in) /\ Placed(d, u)
  <2> DEFINE in == DefiningOp(b, u).in
             m == Len(in)
             e == DefiningOp(d, u).in
  <2>1. /\ m \in Nat /\ in \in Seq(NumbersOf(b)) /\ DOMAIN in = 1..m
        /\ ToSet(in) = {in[k] : k \in 1..m} /\ ToSet(in) \subseteq NumbersOf(b)
        /\ \A w \in ToSet(in) : Position(b, w) < Position(b, u)
    BY OperandFacts
  <2>2. e = [k \in 1..m |-> IF in[k] = old THEN new ELSE in[k]]
    BY <1>8 DEF ReplaceAll
  <2>3. new \notin ToSet(in)
    OBVIOUS
  <2>4. /\ NumbersOf(d) = NumbersOf(b)
        /\ \A w \in NumbersOf(b) : Position(d, w) = Position(b, w) /\ Position(b, w) \in Nat
    BY <1>1, <1>7, PositionFacts DEF Where
  <2>5. Placed(b, u) /\ DefiningOp(d, u).op = DefiningOp(b, u).op
    BY <1>8 DEF Sound
  <2> HIDE DEF in, e, m
  <2>6. \A k \in 1..m : in[k] \in NumbersOf(b) /\ Position(b, in[k]) < Position(b, u)
    BY <2>1
  <2>7. \A k \in 1..m : e[k] \in NumbersOf(b) /\ e[k] # old /\ Position(b, e[k]) < Position(b, u)
    <3> TAKE k \in 1..m
    <3>1. CASE in[k] = old
      <4>1. e[k] = new
        BY <2>2, <3>1
      <4>2. Position(b, old) < Position(b, u)
        BY <2>6, <3>1
      <4> QED
        BY <2>4, <4>1, <4>2
    <3>2. CASE in[k] # old
      BY <2>2, <2>6, <3>2
    <3> QED
      BY <3>1, <3>2
  <2>8. e \in Seq(NumbersOf(b)) /\ Len(e) = m /\ DOMAIN e = 1..m
    <3>1. e \in [1..m -> NumbersOf(b)]
      BY <2>2, <2>7
    <3> QED
      BY <2>1, <2>2, <3>1
  <2>9. ToSet(e) = {e[k] : k \in 1..m}
    BY <2>8 DEF ToSet
  <2>10. old \notin ToSet(e) /\ \A w \in ToSet(e) : Position(d, w) < Position(d, u)
    BY <2>4, <2>7, <2>9
  <2>11. m # 0 => e # <<>>
    <3>1. Len(<<>>) = 0
      BY EmptySeq
    <3> QED
      BY <2>8, <3>1
  <2>12. DefiningOp(b, u).op \in DestinationStyle => e # <<>>
    <3>1. DefiningOp(b, u).op \in DestinationStyle => in # <<>>
      BY <2>5 DEF Placed, in
    <3>2. m = 0 => in = <<>>
      BY <2>1, EmptySeq DEF m
    <3> QED
      BY <2>11, <3>1, <3>2
  <2>13. DefiningOp(b, u).op \in Concats => Once(e)
    <3> SUFFICES ASSUME DefiningOp(b, u).op \in Concats PROVE Once(e)
      OBVIOUS
    <3>1. Once(in)
      BY <2>5 DEF Placed, in
    <3>2. Once(ReplaceAll(in, old, new))
      BY <2>1, <2>3, <3>1, ReplaceAllFacts
    <3> QED
      BY <1>8, <3>2 DEF e, in
  <2>14. DefiningOp(b, u).op = "arg" =>
           \A w \in NumbersOf(b) : Position(d, w) < Position(d, u) => DefiningOp(d, w).op = "arg"
    BY <1>8, <2>4, <2>5 DEF Placed
  <2>15. Placed(d, u)
    BY <2>4, <2>5, <2>8, <2>10, <2>12, <2>13, <2>14 DEF Placed, e
  <2> QED
    BY <2>10, <2>15 DEF e
<1>10. Sound(d)
  BY <1>7, <1>9 DEF Sound, Where
<1>11. ASSUME NEW u \in NumbersOf(b)
       PROVE  Len(DefiningOp(d, u).in) = Len(DefiningOp(b, u).in)
  BY <1>8, OperandFacts, ReplaceAllFacts
<1>12. \A u \in NumbersOf(b) : Len(DefiningOp(b, u).in) \in Nat
  BY OperandFacts
<1>13. Lessens(b, d)
  BY <1>7, <1>8, <1>11, <1>12 DEF Lessens, Where
<1> QED
  BY <1>7, <1>8, <1>9, <1>10, <1>13 DEF d

\* d is b with other operands here and there, and without the operation old.
ReplacedIn(b, d, old) ==
  /\ Sound(d) /\ d.next = b.next /\ NumbersOf(d) = NumbersOf(b) \ {old}
  /\ Lessens(b, d)
  /\ \A v \in NumbersOf(d) : DefiningOp(d, v).op = DefiningOp(b, v).op

\* A new operation takes the place of one below it.
LEMMA ReplaceOpFacts ==
  ASSUME NEW b, Sound(b), NEW old \in NumbersOf(b), NEW new \in NumbersOf(b), old # new,
         \A v \in NumbersOf(b) : new \notin ToSet(DefiningOp(b, v).in),
         Position(b, new) < Position(b, old)
  PROVE  ReplacedIn(b, ReplaceOp(b, old, new), old)
PROOF
<1> DEFINE x == ReplaceUses(b, old, new)
<1>1. /\ Sound(x) /\ Where(b, x)
      /\ \A u \in NumbersOf(b) : DefiningOp(x, u).op = DefiningOp(b, u).op
      /\ \A u \in NumbersOf(b) : old \notin ToSet(DefiningOp(x, u).in)
      /\ Lessens(b, x)
  BY ReplaceUsesFacts
<1>2. ReplaceOp(b, old, new) = Erase(x, old)
  BY DEF ReplaceOp
<1> HIDE DEF x
<1>3. Kept(x, Erase(x, old)) /\ NumbersOf(Erase(x, old)) = NumbersOf(x) \ {old}
  BY <1>1, EraseFacts DEF Where
<1>4. Lessens(b, Erase(x, old))
  BY <1>1, <1>3, LessensFacts DEF Kept
<1> QED
  BY <1>1, <1>2, <1>3, <1>4 DEF Kept, Where, ReplacedIn

------------------------------------------------------------------------------
(* What nothing needs. *)

\* One step of AtPositions.
Chosen(p, acc, k) == IF k \in p.chosen THEN Append(acc, p.seq[k]) ELSE acc
Choice == INSTANCE Recursion WITH Step <- Chosen

\* The elements at some positions of a sequence: all of them, and none from another position.
LEMMA AtPositionsFacts ==
  ASSUME NEW S, NEW seq \in Seq(S), NEW K \in SUBSET (1..Len(seq))
  PROVE  /\ AtPositions(seq, K) \in Seq(S)
         /\ \A k \in K : \E j \in 1..Len(AtPositions(seq, K)) : AtPositions(seq, K)[j] = seq[k]
         /\ \E pos : Choice!ComesFrom(AtPositions(seq, K), seq, K, pos)
PROOF
<1> DEFINE p == [seq |-> seq, chosen |-> K]
<1>1. AtPositions(seq, K) = Choice!Counted(p, <<>>, Len(seq))
  BY DEF AtPositions, Choice!Counted, Chosen
<1>2. \A acc : \A k \in 1..Len(seq) :
        Chosen(p, acc, k) = IF k \in K THEN Append(acc, seq[k]) ELSE acc
  BY DEF Chosen
<1> DEFINE t == Choice!Counted(p, <<>>, Len(seq))
<1>3. /\ t \in Seq(S)
      /\ \A k \in K : \E j \in 1..Len(t) : t[j] = seq[k]
      /\ \E pos : Choice!ComesFrom(t, seq, K, pos)
  <2> HIDE DEF p
  <2> QED
    BY <1>2, Choice!ChosenSteps
<1> HIDE DEF p, t
<1> QED
  BY <1>1, <1>3 DEF t

\* The same of elements that differ.
LEMMA ChosenFacts ==
  ASSUME NEW S, NEW seq \in Seq(S), NEW K \in SUBSET (1..Len(seq))
  PROVE  LET t == AtPositions(seq, K)
         IN  /\ t \in Seq(S) /\ DOMAIN t = 1..Len(t) /\ Len(t) \in Nat
             /\ \A j \in 1..Len(t) : \E k \in K : t[j] = seq[k]
             /\ \A k \in K : \E j \in 1..Len(t) : t[j] = seq[k]
             /\ Once(seq) => Once(t)
PROOF
<1> DEFINE t == AtPositions(seq, K)
<1>1. /\ t \in Seq(S)
      /\ \A k \in K : \E j \in 1..Len(t) : t[j] = seq[k]
      /\ \E pos : Choice!ComesFrom(t, seq, K, pos)
  BY AtPositionsFacts
<1> HIDE DEF t
<1>2. DOMAIN t = 1..Len(t) /\ Len(t) \in Nat
  BY <1>1, LenProperties
<1>3. PICK pos : Choice!ComesFrom(t, seq, K, pos)
  BY <1>1
<1>4. \A j \in 1..Len(t) : pos[j] \in K /\ t[j] = seq[pos[j]]
  BY <1>3 DEF Choice!ComesFrom
<1>5. \A i, j \in 1..Len(t) : i < j => pos[i] < pos[j]
  BY <1>3 DEF Choice!ComesFrom
<1>6. ASSUME Once(seq), NEW i \in 1..Len(t), NEW j \in 1..Len(t), t[i] = t[j]
      PROVE  i = j
  <2>1. pos[i] \in 1..Len(seq) /\ pos[j] \in 1..Len(seq) /\ pos[i] = pos[j]
    <3>1. pos[i] \in 1..Len(seq) /\ pos[j] \in 1..Len(seq) /\ seq[pos[i]] = seq[pos[j]]
      BY <1>4, <1>6
    <3>2. \A k, l \in 1..Len(seq) : seq[k] = seq[l] => k = l
      BY <1>6 DEF Once
    <3> QED
      BY <3>1, <3>2
  <2>2. ~(pos[i] < pos[j]) /\ ~(pos[j] < pos[i])
    BY <2>1
  <2> QED
    BY <1>5, <2>2
<1>7. \A j \in 1..Len(t) : \E k \in K : t[j] = seq[k]
  BY <1>4
<1>8. Once(seq) => Once(t)
  BY <1>6 DEF Once
<1> QED
  BY <1>1, <1>2, <1>7, <1>8 DEF t

\* Operations that read nothing but each other can stay without the others.
LEMMA KeepingFacts ==
  ASSUME NEW b, Sound(b), NEW needed,
         \A v \in NumbersOf(b) \cap needed : ToSet(DefiningOp(b, v).in) \subseteq needed
  PROVE  Kept(b, Keeping(b, needed))
PROOF
<1> DEFINE n == Len(b.ops)
           d == Keeping(b, needed)
           K == {k \in 1..n : b.ops[k].id \in needed}
<1>1. Arranged(b) /\ n \in Nat /\ DOMAIN b.ops = 1..n /\ b.ops \in Seq(ToSet(b.ops))
  BY PositionFacts DEF Sound, Arranged
<1>2. DOMAIN d = {"ops", "next"} /\ d.next = b.next /\ d.ops = AtPositions(b.ops, K)
  BY <1>1 DEF Keeping, Selected, Arranged
<1>3. K \in SUBSET (1..Len(b.ops))
  OBVIOUS
<1> HIDE DEF d, K
<1>4. /\ d.ops \in Seq(ToSet(b.ops))
      /\ \A k \in K : \E j \in 1..Len(d.ops) : d.ops[j] = b.ops[k]
      /\ \E pos : Choice!ComesFrom(d.ops, b.ops, K, pos)
  BY <1>1, <1>2, <1>3, AtPositionsFacts
<1>5. PICK pos : Choice!ComesFrom(d.ops, b.ops, K, pos)
  BY <1>4
<1>6. \A j \in 1..Len(d.ops) : pos[j] \in K /\ d.ops[j] = b.ops[pos[j]]
  BY <1>5 DEF Choice!ComesFrom
<1>7. \A i, j \in 1..Len(d.ops) : i < j => pos[i] < pos[j]
  BY <1>5 DEF Choice!ComesFrom
<1>8. DOMAIN d.ops = 1..Len(d.ops)
  BY <1>4, LenProperties
<1>9. NumbersOf(d) = NumbersOf(b) \cap needed
  <2>1. ASSUME NEW j \in 1..Len(d.ops)
        PROVE  d.ops[j].id \in NumbersOf(b) \cap needed
    BY <1>1, <1>6 DEF K, NumbersOf
  <2>2. ASSUME NEW k \in 1..n, b.ops[k].id \in needed
        PROVE  b.ops[k].id \in NumbersOf(d)
    <3>1. k \in K
      BY <2>2 DEF K
    <3>2. PICK j \in 1..Len(d.ops) : d.ops[j] = b.ops[k]
      BY <1>4, <3>1
    <3> QED
      BY <1>8, <3>2 DEF NumbersOf
  <2> QED
    BY <1>1, <1>8, <2>1, <2>2 DEF NumbersOf
<1>10. \A v \in NumbersOf(d) : ToSet(DefiningOp(b, v).in) \subseteq NumbersOf(d)
  BY <1>9, OperandFacts
<1>11. \A j \in 1..Len(d.ops) : pos[j] \in 1..Len(b.ops) /\ d.ops[j] = b.ops[pos[j]]
  BY <1>3, <1>6
<1>12. Kept(b, d)
  BY <1>2, <1>4, <1>7, <1>10, <1>11, KeptFacts
<1> QED
  BY <1>12 DEF d

\* One step of Needed.
Reading(p, needed, o) ==
  IF o.id \in needed \/ o.op \in {"arg", "return", "call"}
  THEN needed \cup {o.id} \cup ToSet(o.in) ELSE needed
NeededFold == INSTANCE Recursion WITH Step <- Reading

\* What is needed is needed with all it reads: the operations are looked at from below, and
\* none reads one below.
LEMMA NeededFacts ==
  ASSUME NEW b, Sound(b), NEW v \in NumbersOf(b), v \in Needed(b)
  PROVE  ToSet(DefiningOp(b, v).in) \subseteq Needed(b)
PROOF
<1> DEFINE n == Len(b.ops)
           seq == Reverse(b.ops)
           none == {}
<1>1. Arranged(b) /\ n \in Nat /\ DOMAIN b.ops = 1..n
  BY PositionFacts DEF Sound
<1>2. DOMAIN seq = 1..n /\ \A k \in 1..n : seq[k] = b.ops[(n - k) + 1]
  BY <1>1 DEF Reverse
<1>3. Needed(b) = NeededFold!Folded(n, none, seq)
  BY DEF Needed, FoldLeft, MapThenFoldSet, NeededFold!Folded, NeededFold!Greatest, Max, Reading
<1> HIDE DEF seq, none, n
<1>4. PICK acc : NeededFold!FoldsTo(n, none, seq, n, acc)
  BY <1>1, <1>2, NeededFold!FoldSteps
<1>5. acc[0] = none /\ Needed(b) = acc[n] /\ \A k \in 1..n : acc[k] = Reading(n, acc[k - 1], seq[k])
  BY <1>3, <1>4 DEF NeededFold!FoldsTo
<1>6. \A p \in 1..n :
        /\ b.ops[p].id \in NumbersOf(b) /\ Position(b, b.ops[p].id) = p
        /\ DefiningOp(b, b.ops[p].id) = b.ops[p]
  BY <1>1, PositionFacts DEF n
<1>7. \A p, q \in 1..n : b.ops[p].id \in ToSet(b.ops[q].in) => p < q
  BY <1>6, OperandFacts
<1> DEFINE Closed(k) == \A p \in 1..n :
                          p > n - k /\ b.ops[p].id \in acc[k] => ToSet(b.ops[p].in) \subseteq acc[k]
           T == {k \in 0..n : Closed(k)}
<1>8. 0 \in T
  BY <1>1
<1>9. ASSUME NEW k \in 1..n, k - 1 \in T
      PROVE  k \in T
  <2> DEFINE o == b.ops[(n - k) + 1]
             x == acc[k - 1]
  <2>0. k \in 0..n /\ (n - k) + 1 \in 1..n /\ n - (k - 1) = (n - k) + 1
    BY <1>1
  <2>1. acc[k] = IF o.id \in x \/ o.op \in {"arg", "return", "call"}
                 THEN x \cup {o.id} \cup ToSet(o.in) ELSE x
    BY <1>2, <1>5 DEF Reading
  <2>2. \A p \in 1..n : p > (n - k) + 1 /\ b.ops[p].id \in x => ToSet(b.ops[p].in) \subseteq x
    <3>1. Closed(k - 1)
      BY <1>9
    <3> QED
      BY <2>0, <3>1
  <2>3. ASSUME NEW p \in 1..n, p > n - k, b.ops[p].id \in acc[k]
        PROVE  ToSet(b.ops[p].in) \subseteq acc[k]
    <3>1. CASE p = (n - k) + 1
      <4>1. b.ops[p] = o
        BY <3>1
      <4> HIDE DEF o, x
      <4> QED
        BY <2>1, <2>3, <4>1
    <3>2. CASE p > (n - k) + 1
      <4>1. b.ops[p].id # o.id
        BY <1>1, <1>6, <2>0, <3>2
      <4>2. b.ops[p].id \notin ToSet(o.in)
        BY <1>1, <1>7, <2>0, <3>2
      <4>3. b.ops[p].id \in x
        <5> HIDE DEF o, x
        <5> QED
          BY <2>1, <2>3, <4>1, <4>2
      <4>4. ToSet(b.ops[p].in) \subseteq x
        BY <2>2, <3>2, <4>3
      <4> HIDE DEF o, x
      <4> QED
        BY <2>1, <4>4
    <3>3. p = (n - k) + 1 \/ p > (n - k) + 1
      BY <1>1, <2>3
    <3> QED
      BY <3>1, <3>2, <3>3
  <2> QED
    BY <2>0, <2>3
<1>10. n \in T
  <2> HIDE DEF T
  <2>1. \A k \in 0..n : k \in T
    BY <1>1, <1>8, <1>9, NeededFold!StepByStep
  <2> QED
    BY <1>1, <2>1
<1>11. PICK p \in 1..n : b.ops[p].id = v
  BY <1>1 DEF NumbersOf
<1>12. ToSet(b.ops[p].in) \subseteq acc[n]
  <2>1. Closed(n)
    BY <1>10
  <2>2. p > n - n
    BY <1>1
  <2> QED
    BY <1>5, <1>11, <2>1, <2>2
<1> QED
  BY <1>5, <1>6, <1>11, <1>12

\* What is dropped is read by nothing that stays.
LEMMA DropDeadFacts ==
  ASSUME NEW b, Sound(b)
  PROVE  Kept(b, DropDead(b))
PROOF
<1>1. \A v \in NumbersOf(b) \cap Needed(b) : ToSet(DefiningOp(b, v).in) \subseteq Needed(b)
  BY NeededFacts
<1> QED
  BY <1>1, KeepingFacts DEF DropDead

------------------------------------------------------------------------------
(* Operations that are made. *)

\* d is b with more operations, none of them a product or a concatenation, and other operands
\* here and there.
Extends(b, d) ==
  /\ Sound(d) /\ b.next <= d.next /\ NumbersOf(b) \subseteq NumbersOf(d)
  /\ \A v \in NumbersOf(b) : DefiningOp(d, v).op = DefiningOp(b, v).op
  /\ \A u, v \in NumbersOf(b) :
       Position(d, u) < Position(d, v) <=> Position(b, u) < Position(b, v)
  /\ \A v \in NumbersOf(d) : v \notin NumbersOf(b) => DefiningOp(d, v).op \notin Dots
  /\ Lessens(b, d)

\* A block has a next number.
LEMMA NextFacts ==
  ASSUME NEW b, Sound(b)
  PROVE  b.next \in Nat /\ b.next >= 1 /\ b.next \notin NumbersOf(b)
PROOF
<1>1. b.next \in Nat /\ b.next >= 1
  BY DEF Sound, Arranged
<1> QED
  BY <1>1, PositionFacts DEF Sound

\* Extensions of extensions.
LEMMA ExtendsFacts ==
  ASSUME NEW b, Sound(b)
  PROVE  /\ Extends(b, b)
         /\ \A d, e : Extends(b, d) /\ Extends(d, e) => Extends(b, e)
PROOF
<1>1. Extends(b, b)
  BY NextFacts, LessensFacts DEF Extends
<1>2. ASSUME NEW d, NEW e, Extends(b, d), Extends(d, e)
      PROVE  Extends(b, e)
  <2>1. b.next <= e.next
    BY <1>2, NextFacts DEF Extends
  <2>2. Lessens(b, e)
    BY <1>2, LessensFacts DEF Extends
  <2> QED
    BY <1>2, <2>1, <2>2 DEF Extends
<1> QED
  BY <1>1, <1>2

\* No argument stands below another operation.
LEMMA ArgsFirst ==
  ASSUME NEW b, Sound(b), NEW u \in NumbersOf(b), NEW v \in NumbersOf(b),
         DefiningOp(b, u).op = "arg", DefiningOp(b, v).op # "arg"
  PROVE  Position(b, u) < Position(b, v)
PROOF
<1>1. Position(b, u) \in Nat /\ Position(b, v) \in Nat /\ (Position(b, u) = Position(b, v) => u = v)
  BY PositionFacts DEF Sound
<1>2. ~(Position(b, v) < Position(b, u))
  BY DEF Sound, Placed
<1> QED
  BY <1>1, <1>2

\* d is b and an operation that nothing reads yet.
Added(b, d, op, in) ==
  /\ Extends(b, d) /\ d.next = b.next + 1
  /\ b.next \in NumbersOf(d) /\ b.next \notin NumbersOf(b)
  /\ NumbersOf(d) = NumbersOf(b) \cup {b.next}
  /\ \A v \in NumbersOf(b) : DefiningOp(d, v) = DefiningOp(b, v)
  /\ \A v \in NumbersOf(d) : b.next \notin ToSet(DefiningOp(d, v).in)
  /\ DefiningOp(d, b.next).op = op /\ DefiningOp(d, b.next).in = in

\* What is inserted is added.
LEMMA InsertedAdded ==
  ASSUME NEW b, Sound(b), NEW d, NEW p, NEW o, Fits(b, p, o), Inserted(b, d, p, o)
  PROVE  Added(b, d, o.op, o.in)
PROOF
<1>1. b.next \in Nat /\ b.next \notin NumbersOf(b)
  BY NextFacts
<1>a. Lessens(b, d)
  BY LessensFacts DEF Inserted, Fits
<1>2. Extends(b, d)
  BY <1>1, <1>a DEF Inserted, Extends, Fits
<1>3. \A v \in NumbersOf(b) : b.next \notin ToSet(DefiningOp(b, v).in)
  BY <1>1, OperandFacts
<1>4. b.next \notin ToSet(DefiningOp(d, b.next).in)
  BY OperandFacts DEF Inserted
<1> QED
  BY <1>1, <1>2, <1>3, <1>4 DEF Inserted, Added

\* They are above it, whatever is added; so is all that c reads.
LEMMA AboveFacts ==
  ASSUME NEW b, Sound(b), NEW c \in NumbersOf(b)
  PROVE  /\ DefiningOp(b, c).in \in Seq(Above(b, c))
         /\ ToSet(DefiningOp(b, c).in) \subseteq Above(b, c)
         /\ Above(b, c) \subseteq NumbersOf(b) /\ c \notin Above(b, c)
         /\ \A d : Extends(b, d) => Above(b, c) \subseteq Above(d, c)
PROOF
<1>1. ToSet(DefiningOp(b, c).in) \subseteq Above(b, c)
  BY OperandFacts DEF Above
<1>2. DefiningOp(b, c).in \in Seq(ToSet(DefiningOp(b, c).in))
  BY OperandFacts
<1>3. DefiningOp(b, c).in \in Seq(Above(b, c))
  BY <1>1, <1>2, SeqMonotonic
<1>4. \A d : Extends(b, d) => Above(b, c) \subseteq Above(d, c)
  BY DEF Above, Extends
<1>5. Position(b, c) \in Nat
  BY PositionFacts DEF Sound
<1> QED
  BY <1>1, <1>3, <1>4, <1>5 DEF Above

\* Fields of the operations that are made.
LEMMA OperationFacts ==
  ASSUME NEW op, NEW in, NEW shape, NEW elem, NEW attr
  PROVE  LET o == Operation(op, in, shape, elem, attr)
         IN  DOMAIN o = OperationFields /\ o.op = op /\ o.in = in
  BY DEF Operation, OperationFields

\* What is made.
Made == {"empty", "alloc", "call", "cast", "extract_slice", "insert_slice", "collapse_shape",
         "expand_shape"}

\* Nothing that is made is a product or a concatenation or an argument, and an insertion alone
\* has an init.
LEMMA MadeFacts ==
  ASSUME NEW op \in Made
  PROVE  op \notin Concats \cup Dots \cup {"arg"} /\ (op \in DestinationStyle => op = "insert_slice")
  BY DEF Made, Concats, Dots, DestinationStyle, Kernels

\* A new operation can be made where another one is that stands below all it reads.
LEMMA InsertAbove ==
  ASSUME NEW b, Sound(b), NEW c \in NumbersOf(b), DefiningOp(b, c).op # "arg",
         NEW op \in Made, NEW in \in Seq(Above(b, c)), op = "insert_slice" => in # <<>>,
         NEW shape, NEW elem, NEW attr
  PROVE  LET d == Insert(b, Position(b, c), Operation(op, in, shape, elem, attr))
         IN  /\ Added(b, d, op, in)
             /\ Position(d, b.next) < Position(d, c)
PROOF
<1> DEFINE p == Position(b, c)
           o == Operation(op, in, shape, elem, attr)
           d == Insert(b, p, o)
<1>1. p \in 1..Len(b.ops) /\ Len(b.ops) \in Nat
  BY PositionFacts DEF Sound
<1>2. DOMAIN o = OperationFields /\ o.op = op /\ o.in = in
  BY OperationFacts
<1> HIDE DEF o
<1>3. Fits(b, p, o)
  BY <1>1, <1>2, ArgsFirst, MadeFacts DEF Fits, Above
<1>4. Inserted(b, d, p, o)
  BY <1>3, InsertFacts
<1>5. Added(b, d, o.op, o.in)
  BY <1>3, <1>4, InsertedAdded
<1>6. Position(d, b.next) < Position(d, c)
  BY <1>1, <1>4 DEF Inserted
<1> QED
  BY <1>2, <1>5, <1>6 DEF o

\* e is b with more operations, none of them a product, and without c.
Replaces(b, e, c) ==
  /\ Sound(e) /\ b.next <= e.next /\ NumbersOf(b) \ {c} \subseteq NumbersOf(e)
  /\ c \notin NumbersOf(e)
  /\ \A v \in NumbersOf(e) \cap NumbersOf(b) : DefiningOp(e, v).op = DefiningOp(b, v).op
  /\ \A v \in NumbersOf(e) : v \notin NumbersOf(b) => DefiningOp(e, v).op \notin Dots
  /\ Lessens(b, e)

\* c is replaced by something above it that has been made.
LEMMA ReplacedExtension ==
  ASSUME NEW b, Sound(b), NEW c \in NumbersOf(b), NEW d, Extends(b, d),
         NEW new \in NumbersOf(d), Position(d, new) < Position(d, c),
         \A v \in NumbersOf(d) : new \notin ToSet(DefiningOp(d, v).in)
  PROVE  Replaces(b, ReplaceOp(d, c, new), c)
PROOF
<1>1. Sound(d) /\ c \in NumbersOf(d)
  BY DEF Extends
<1>2. c # new
  <2>1. Position(d, c) \in Nat
    BY <1>1, PositionFacts DEF Sound
  <2> QED
    BY <2>1
<1>3. ReplacedIn(d, ReplaceOp(d, c, new), c)
  BY <1>1, <1>2, ReplaceOpFacts
<1>4. Lessens(b, ReplaceOp(d, c, new))
  BY <1>3, LessensFacts DEF ReplacedIn, Extends
<1> QED
  BY <1>3, <1>4 DEF ReplacedIn, Extends, Replaces

\* A product becomes a call.
LEMMA CallInsteadFacts ==
  ASSUME NEW b, Sound(b), NEW v \in NumbersOf(b), DefiningOp(b, v).op # "arg", NEW type
  PROVE  Replaces(b, CallInstead(b, DefiningOp(b, v), type), v)
PROOF
<1> DEFINE o == DefiningOp(b, v)
           elem == OperandOf(b, o, 1).elem
           o1 == Operation("alloc", <<>>, o.shape, elem, <<>>)
           b1 == Insert(b, Position(b, v), o1)
           o2 == Operation("call", Append(o.in, b.next), o.shape, elem,
                           [callee |-> Callee(b, o, type)])
           b2 == Insert(b1, Position(b1, v), o2)
           o3 == Operation("cast", << b.next + 1 >>, o.shape, o.elem, <<>>)
           b3 == Insert(b2, Position(b2, v), o3)
<1>0. o.id = v
  BY PositionFacts DEF Sound
<1>1. CallInstead(b, o, type) = ReplaceOp(b3, v, b.next + 2)
  BY <1>0 DEF CallInstead
<1>a. b.next \in Nat
  BY NextFacts
<1> HIDE DEF o, b1, b2, b3
<1>2. Added(b, b1, "alloc", << >>) /\ Position(b1, b.next) < Position(b1, v)
  <2>1. <<>> \in Seq(Above(b, v))
    OBVIOUS
  <2> QED
    BY <2>1, InsertAbove DEF b1, Made
<1>3. Sound(b1) /\ v \in NumbersOf(b1) /\ DefiningOp(b1, v).op # "arg" /\ b1.next = b.next + 1
  BY <1>2 DEF Added, Extends
<1>4. Append(o.in, b.next) \in Seq(Above(b1, v))
  <2>1. o.in \in Seq(Above(b1, v))
    BY <1>2, AboveFacts, SeqMonotonic DEF o, Added
  <2>2. b.next \in Above(b1, v)
    BY <1>2 DEF Above, Added
  <2> QED
    BY <2>1, <2>2
<1>5. Added(b1, b2, "call", Append(o.in, b.next)) /\ Position(b2, b1.next) < Position(b2, v)
  BY <1>3, <1>4, InsertAbove DEF b2, Made
<1>6. Sound(b2) /\ v \in NumbersOf(b2) /\ DefiningOp(b2, v).op # "arg" /\ b2.next = b.next + 2
  BY <1>a, <1>3, <1>5 DEF Added, Extends
<1>7. << b.next + 1 >> \in Seq(Above(b2, v))
  BY <1>3, <1>5 DEF Above, Added
<1>8. Added(b2, b3, "cast", << b.next + 1 >>) /\ Position(b3, b2.next) < Position(b3, v)
  BY <1>6, <1>7, InsertAbove DEF b3, Made
<1>9. Extends(b, b3)
  BY <1>2, <1>3, <1>5, <1>6, <1>8, ExtendsFacts DEF Added
<1>10. Replaces(b, ReplaceOp(b3, v, b.next + 2), v)
  BY <1>6, <1>8, <1>9, ReplacedExtension DEF Added
<1> QED
  BY <1>1, <1>10 DEF o

\* d is what a rewrite makes of b.
Turned(b, d) ==
  /\ Sound(d) /\ b.next <= d.next
  /\ \A v \in NumbersOf(d) : DefiningOp(d, v).op \in Dots =>
       v \in NumbersOf(b) /\ DefiningOp(b, v).op = DefiningOp(d, v).op
  /\ Lessens(b, d)

\* Dropping what is dead undoes nothing of that.
LEMMA TurnedFacts ==
  ASSUME NEW b, Sound(b), NEW d
  PROVE  /\ Extends(b, d) => Turned(b, d) /\ Turned(b, DropDead(d))
         /\ \A c : Replaces(b, d, c) => /\ Turned(b, d) /\ Turned(b, DropDead(d))
                                       /\ c \notin NumbersOf(DropDead(d))
PROOF
<1>1. Extends(b, d) => Turned(b, d)
  BY DEF Extends, Turned
<1>2. \A c : Replaces(b, d, c) => Turned(b, d)
  BY DEF Replaces, Turned
<1>3. ASSUME Turned(b, d)
      PROVE  Turned(b, DropDead(d))
  <2>1. Kept(d, DropDead(d))
    BY <1>3, DropDeadFacts DEF Turned
  <2>2. Lessens(d, DropDead(d))
    BY <1>3, <2>1, LessensFacts DEF Turned, Kept
  <2>3. Lessens(b, DropDead(d))
    BY <1>3, <2>1, <2>2, LessensFacts DEF Turned, Kept
  <2> QED
    BY <1>3, <2>1, <2>3 DEF Turned, Kept
<1>4. ASSUME NEW c, Replaces(b, d, c)
      PROVE  c \notin NumbersOf(DropDead(d))
  BY <1>4, DropDeadFacts DEF Replaces, Kept
<1> QED
  BY <1>1, <1>2, <1>3, <1>4

\* A concatenation is taken apart into insertions.
InsertsNext(p, acc, v) == InsertNext(p.b, p.c, acc, v)
Filling == INSTANCE Recursion WITH Step <- InsertsNext

LEMMA DecomposeFacts ==
  ASSUME NEW b, Sound(b), NEW c \in NumbersOf(b), DefiningOp(b, c).op # "arg"
  PROVE  Turned(b, DecomposeConcat(b, c)) /\ c \notin NumbersOf(DecomposeConcat(b, c))
PROOF
<1> DEFINE o == DefiningOp(b, c)
           p == [b |-> b, c |-> c]
           n == Len(o.in)
           empty == Operation("empty", <<>>, o.shape, o.elem, <<>>)
           b1 == Insert(b, Position(b, c), empty)
           start == [b |-> b1, last |-> b.next, off |-> 0]
           filled == Filling!Folded(p, start, o.in)
           o3 == Operation("cast", << filled.last >>, o.shape, o.elem, <<>>)
           b3 == Insert(filled.b, Position(filled.b, c), o3)
<1>1. DecomposeConcat(b, c) = DropDead(ReplaceOp(b3, c, filled.b.next))
  BY DEF DecomposeConcat, FoldLeft, MapThenFoldSet, Filling!Folded, Filling!Greatest, Max,
         InsertsNext
<1> HIDE DEF filled, b1
<1>2. Added(b, b1, "empty", << >>) /\ Position(b1, b.next) < Position(b1, c)
  <2>1. <<>> \in Seq(Above(b, c))
    OBVIOUS
  <2> QED
    BY <2>1, InsertAbove DEF b1, Made
<1>3. n \in Nat /\ DOMAIN o.in = 1..n /\ \A k \in 1..n : o.in[k] \in Above(b, c)
  BY OperandFacts, AboveFacts
<1> HIDE DEF p
<1>p. p.b = b /\ p.c = c
  BY DEF p
<1> DEFINE Good(acc) == Extends(b, acc.b) /\ acc.last \in Above(acc.b, c)
<1>4. Good(start)
  BY <1>2 DEF Added, Above
<1>5. ASSUME NEW acc, Good(acc), NEW v \in Above(b, c)
      PROVE  Good(InsertsNext(p, acc, v))
  <2> DEFINE next == InsertsNext(p, acc, v)
             x == acc.b
             s == ShapeOf(b, v)
             region == Region([d \in DOMAIN s |-> IF d = Dim(o) THEN acc.off ELSE 0], s)
             o2 == Operation("insert_slice", << v, acc.last >>, o.shape, o.elem, region)
  <2>1. next.b = Insert(x, Position(x, c), o2) /\ next.last = x.next
    BY <1>p DEF InsertsNext, InsertNext
  <2> HIDE DEF o, s, region, next
  <2>2. Sound(x) /\ c \in NumbersOf(x) /\ DefiningOp(x, c).op # "arg"
    BY <1>5 DEF Extends, o
  <2>3. << v, acc.last >> \in Seq(Above(x, c))
    BY <1>5, AboveFacts
  <2>4. Added(x, next.b, "insert_slice", << v, acc.last >>) /\ Position(next.b, x.next) < Position(next.b, c)
    BY <2>1, <2>2, <2>3, InsertAbove DEF Made
  <2>5. Extends(b, next.b)
    BY <1>5, <2>4, ExtendsFacts DEF Added
  <2> QED
    BY <2>1, <2>4, <2>5 DEF Added, Above, next
<1> HIDE DEF Good, start, o
<1>6. PICK acc : Filling!FoldsTo(p, start, o.in, n, acc)
  BY <1>3, Filling!FoldSteps
<1>7. /\ acc[0] = start /\ filled = acc[n]
      /\ \A k \in 1..n : acc[k] = InsertsNext(p, acc[k - 1], o.in[k])
  BY <1>6 DEF Filling!FoldsTo, filled
<1> DEFINE T == {k \in 0..n : Good(acc[k])}
<1>8. 0 \in T
  BY <1>3, <1>4, <1>7
<1>9. \A k \in 1..n : k - 1 \in T => k \in T
  BY <1>3, <1>5, <1>7
<1>10. Good(filled)
  <2> HIDE DEF T
  <2>1. \A k \in 0..n : k \in T
    BY <1>3, <1>8, <1>9, Filling!StepByStep
  <2> QED
    BY <1>3, <1>7, <2>1 DEF T
<1>11. /\ Extends(b, filled.b) /\ filled.last \in Above(filled.b, c)
       /\ Sound(filled.b) /\ c \in NumbersOf(filled.b) /\ DefiningOp(filled.b, c).op # "arg"
  BY <1>10 DEF Good, Extends, o
<1>12. << filled.last >> \in Seq(Above(filled.b, c))
  BY <1>11
<1>13. Added(filled.b, b3, "cast", << filled.last >>) /\ Position(b3, filled.b.next) < Position(b3, c)
  BY <1>11, <1>12, InsertAbove DEF Made
<1> HIDE DEF b3
<1>14. Extends(b, b3)
  BY <1>11, <1>13, ExtendsFacts DEF Added
<1>15. Replaces(b, ReplaceOp(b3, c, filled.b.next), c)
  BY <1>13, <1>14, ReplacedExtension DEF Added
<1> QED
  BY <1>1, <1>15, TurnedFacts

------------------------------------------------------------------------------
(* The rewrites. *)

\* thlo.concatenate becomes tensor.concat.
LEMMA LegalizeFacts ==
  ASSUME NEW b, Sound(b), NEW c \in NumbersOf(b), DefiningOp(b, c).op = "thlo.concatenate"
  PROVE  Turned(b, LegalizeConcat(b, c)) /\ DefiningOp(LegalizeConcat(b, c), c).op = "concat"
PROOF
<1> DEFINE n == Len(b.ops)
           p == Position(b, c)
           x == [b.ops[p] EXCEPT !.op = "concat"]
           d == LegalizeConcat(b, c)
           S == ToSet(b.ops) \cup {x}
<1>1. /\ Arranged(b) /\ n \in Nat /\ DOMAIN b.ops = 1..n /\ p \in 1..n
      /\ DefiningOp(b, c) = b.ops[p] /\ b.ops[p].id = c
      /\ DOMAIN b.ops[p] = OperationFields
  BY PositionFacts DEF Sound
<1>2. /\ DOMAIN x = OperationFields /\ x.id = b.ops[p].id /\ x.op = "concat"
      /\ x.in = b.ops[p].in
  BY <1>1 DEF OperationFields
<1>3. b.ops \in [1..n -> ToSet(b.ops)]
  BY <1>1, ElementOfSeq DEF Arranged, ToSet
<1>4. DOMAIN d = {"ops", "next"} /\ d.next = b.next /\ d.ops = [b.ops EXCEPT ![p] = x]
  BY <1>1 DEF LegalizeConcat, Arranged
<1> HIDE DEF d, x
<1>5. d.ops \in [1..n -> S] /\ d.ops[p] = x /\ \A q \in 1..n : q # p => d.ops[q] = b.ops[q]
  BY <1>1, <1>3, <1>4
<1>6. \A q \in 1..n : DOMAIN b.ops[q] = OperationFields
  BY <1>1 DEF Arranged
<1>7. \A q \in 1..n : DOMAIN d.ops[q] = OperationFields /\ d.ops[q].id = b.ops[q].id
  BY <1>2, <1>5, <1>6
<1>8. Rewired(b, d, S)
  BY <1>4, <1>5, <1>7 DEF Rewired
<1> HIDE DEF S, p
<1>9. /\ Arranged(d) /\ Where(b, d)
      /\ \A u \in NumbersOf(b) : DefiningOp(d, u) = d.ops[Position(b, u)]
  BY <1>1, <1>8, WhereFacts
<1>10. \A u \in NumbersOf(b) : /\ Position(b, u) \in 1..n /\ DefiningOp(b, u) = b.ops[Position(b, u)]
                               /\ Position(b, u) = p => u = c
  BY <1>1, PositionFacts DEF p
<1>11. \A u \in NumbersOf(b) \ {c} : DefiningOp(d, u) = DefiningOp(b, u)
  BY <1>5, <1>9, <1>10
<1>12. DefiningOp(d, c).op = "concat" /\ DefiningOp(d, c).in = DefiningOp(b, c).in
  BY <1>1, <1>2, <1>5, <1>9 DEF p
<1>13. ASSUME NEW w \in NumbersOf(b)
       PROVE  Placed(d, w)
  <2>1. Placed(b, w) /\ NumbersOf(d) = NumbersOf(b)
        /\ \A u \in NumbersOf(b) : Position(d, u) = Position(b, u)
    BY <1>9 DEF Sound, Where
  <2>2. \A u \in ToSet(DefiningOp(b, w).in) : u \in NumbersOf(b)
    BY OperandFacts
  <2>3. DefiningOp(b, w).op = "arg" =>
          /\ DefiningOp(d, w).op = "arg"
          /\ \A u \in NumbersOf(b) : Position(b, u) < Position(b, w) => DefiningOp(d, u).op = "arg"
    <3>1. \A u \in NumbersOf(b) : DefiningOp(b, u).op = "arg" => DefiningOp(d, u).op = "arg"
      BY <1>11
    <3> QED
      BY <2>1, <3>1 DEF Placed
  <2>4. CASE w # c
    BY <1>11, <2>1, <2>2, <2>3, <2>4 DEF Placed
  <2>5. CASE w = c
    <3>1. Once(DefiningOp(b, w).in)
      BY <2>1, <2>5 DEF Placed, Concats
    <3>2. "concat" \notin DestinationStyle
      BY DEF DestinationStyle, Kernels
    <3> QED
      BY <1>12, <2>1, <2>2, <2>5, <3>1, <3>2 DEF Placed
  <2> QED
    BY <2>4, <2>5
<1>14. Sound(d)
  BY <1>9, <1>13 DEF Sound, Where
<1>15. b.next <= d.next
  BY <1>4, NextFacts
<1>16. \A u \in NumbersOf(b) : DefiningOp(d, u).op \in Dots => DefiningOp(b, u).op = DefiningOp(d, u).op
  BY <1>11, <1>12 DEF Dots
<1>17. Lessens(b, d)
  <2>1. \A u \in NumbersOf(b) : Len(DefiningOp(b, u).in) \in Nat
    BY OperandFacts
  <2>2. DefiningOp(b, c).op \in Concats
    BY DEF Concats
  <2> QED
    BY <1>9, <1>11, <1>12, <2>1, <2>2 DEF Lessens, Where
<1> QED
  BY <1>9, <1>12, <1>14, <1>15, <1>16, <1>17 DEF Turned, Where, d

\* Another init, above the operation that writes into it.
LEMMA SetInitFacts ==
  ASSUME NEW b, Sound(b), NEW v \in NumbersOf(b), DefiningOp(b, v).op \in DestinationStyle,
         NEW init \in Above(b, v)
  PROVE  LET d == SetInit(b, v, init)
         IN  /\ Sound(d) /\ Where(b, d)
             /\ \A u \in NumbersOf(b) : DefiningOp(d, u).op = DefiningOp(b, u).op
             /\ \A u \in NumbersOf(b) \ {v} : DefiningOp(d, u) = DefiningOp(b, u)
             /\ ToSet(DefiningOp(d, v).in) \subseteq ToSet(DefiningOp(b, v).in) \cup {init}
             /\ Lessens(b, d)
PROOF
<1> DEFINE in == DefiningOp(b, v).in
           e == ReplaceAt(in, Len(in), init)
<1>1. in # <<>> /\ in \in Seq(Above(b, v)) /\ Len(in) \in Nat /\ DOMAIN in = 1..Len(in)
      /\ ToSet(in) = {in[k] : k \in 1..Len(in)}
  BY AboveFacts, OperandFacts DEF Sound, Placed
<1>2. SetInit(b, v, init) = SetOperands(b, v, e)
  BY DEF SetInit
<1> HIDE DEF in
<1>3. Len(in) \in 1..Len(in)
  BY <1>1, EmptySeq
<1>4. e \in Seq(Above(b, v)) /\ DOMAIN e = 1..Len(in)
      /\ \A k \in 1..Len(in) : e[k] = IF k = Len(in) THEN init ELSE in[k]
  BY <1>1, <1>3 DEF ReplaceAt
<1> HIDE DEF e
<1>5. e # <<>>
  BY <1>3, <1>4, EmptySeq
<1>6. ToSet(e) \subseteq ToSet(in) \cup {init}
  BY <1>1, <1>4 DEF ToSet
<1>7. DefiningOp(b, v).op \notin Concats
  BY DEF Concats, DestinationStyle, Kernels
<1>8. LET d == SetOperands(b, v, e)
      IN  /\ Sound(d) /\ Where(b, d)
          /\ \A u \in NumbersOf(b) : DefiningOp(d, u).op = DefiningOp(b, u).op
          /\ \A u \in NumbersOf(b) \ {v} : DefiningOp(d, u) = DefiningOp(b, u)
          /\ DefiningOp(d, v).in = e
  BY <1>4, <1>5, <1>7, SetOperandsFacts
<1>9. Lessens(b, SetOperands(b, v, e))
  BY <1>7, <1>8, LessensFacts DEF Where
<1> QED
  BY <1>2, <1>6, <1>8, <1>9 DEF in

\* Blocks of the same operations in the same places extend each other.
LEMMA WhereExtends ==
  ASSUME NEW b, Sound(b), NEW d, Sound(d), Where(b, d),
         \A u \in NumbersOf(b) : DefiningOp(d, u).op = DefiningOp(b, u).op, Lessens(b, d)
  PROVE  Extends(b, d)
  BY NextFacts DEF Extends, Where

\* A fusion gets another init, one of its inputs.
LEMMA ReuseFacts ==
  ASSUME NEW b, Sound(b), NEW f \in NumbersOf(b), DefiningOp(b, f).op \in DestinationStyle
  PROVE  Turned(b, ReuseOutputTensor(b, f)) /\ Where(b, ReuseOutputTensor(b, f))
         /\ \A u \in NumbersOf(b) : DefiningOp(ReuseOutputTensor(b, f), u).op = DefiningOp(b, u).op
PROOF
<1> DEFINE in == DefiningOp(b, f).in
           C == Candidates(b, f)
           m == Len(in)
<1>1. CASE C = {}
  <2>1. ReuseOutputTensor(b, f) = b
    BY <1>1 DEF ReuseOutputTensor
  <2>2. Turned(b, b)
    BY ExtendsFacts, TurnedFacts
  <2> QED
    BY <2>1, <2>2 DEF Where
<1>2. CASE C # {}
  <2>1. ReuseOutputTensor(b, f) = SetInit(b, f, in[Min(C)])
    BY <1>2 DEF ReuseOutputTensor
  <2>2. /\ m \in Nat /\ in \in Seq(Above(b, f)) /\ DOMAIN in = 1..m
    BY AboveFacts, OperandFacts
  <2>3. C \in SUBSET (1..m)
    <3>1. in # <<>>
      BY DEF Sound, Placed
    <3> HIDE DEF in
    <3>2. m >= 1
      BY <2>2, <3>1, EmptySeq
    <3>3. DOMAIN Front(in) = 1..m - 1
      <4>1. SubSeq(in, 1, m - 1) \in Seq(Above(b, f)) /\ Len(SubSeq(in, 1, m - 1)) = m - 1
        BY <2>2, <3>2, SubSeqProperties
      <4> QED
        BY <2>2, <3>2, <4>1, LenProperties DEF Front
    <3>4. C \subseteq 1..m - 1
      BY <3>3 DEF Candidates, Inputs, in
    <3> QED
      BY <2>2, <3>4
  <2>4. Min(C) \in 1..m
    <3> HIDE DEF C
    <3>1. \E x \in C : \A y \in C : x <= y
      BY <1>2, <2>2, <2>3, NeededFold!FirstExists
    <3>2. Min(C) \in C
      BY <3>1 DEF Min
    <3> QED
      BY <2>3, <3>2
  <2>5. in[Min(C)] \in Above(b, f)
    <3> HIDE DEF in, C
    <3> QED
      BY <2>2, <2>4, ElementOfSeq
  <2> DEFINE d == SetInit(b, f, in[Min(C)])
  <2> HIDE DEF C, in
  <2>6. /\ Sound(d) /\ Where(b, d) /\ Lessens(b, d)
        /\ \A u \in NumbersOf(b) : DefiningOp(d, u).op = DefiningOp(b, u).op
    BY <2>5, SetInitFacts
  <2>7. Turned(b, d)
    BY <2>6, WhereExtends, TurnedFacts
  <2> QED
    BY <2>1, <2>6, <2>7
<1> QED
  BY <1>1, <1>2

\* One step of MergeOpportunities.
Extending(b, chains, v) ==
  IF chains # <<>> /\ Follows(b, Last(Last(chains)), v)
  THEN Append(Front(chains), Append(Last(chains), v))
  ELSE Append(chains, <<v>>)
Merging == INSTANCE Recursion WITH Step <- Extending

\* Two operands, one after the other.
InARow(in, v, w) == \E i \in 1..Len(in) - 1 : v = in[i] /\ w = in[i + 1]

\* What can be merged begins with two operands in a row.
LEMMA OpportunityFacts ==
  ASSUME NEW b, NEW D, NEW in \in Seq(D)
  PROVE  LET m == MergeOpportunities(b, in)
         IN  /\ Len(m) \in Nat /\ DOMAIN m = 1..Len(m)
             /\ m \in Seq(Seq(D))
             /\ \A j \in 1..Len(m) :
                  m[j][1] \in D /\ 2 \in DOMAIN m[j] /\ InARow(in, m[j][1], m[j][2])
PROOF
<1> DEFINE n == Len(in)
           none == <<>>
           chains == Merging!Folded(b, none, in)
           K == {k \in DOMAIN chains : Len(chains[k]) > 1}
<1>1. MergeOpportunities(b, in) = AtPositions(chains, K)
  BY DEF MergeOpportunities, Selected, FoldLeft, MapThenFoldSet, Merging!Folded, Merging!Greatest,
         Max, Extending
<1>2. n \in Nat /\ DOMAIN in = 1..n /\ \A k \in 1..n : in[k] \in D
  BY LenProperties, ElementOfSeq
<1> HIDE DEF chains, K, none, n
<1>4. PICK acc : Merging!FoldsTo(b, none, in, n, acc)
  BY <1>2, Merging!FoldSteps
<1>5. /\ acc[0] = none /\ chains = acc[n]
      /\ \A k \in 1..n : acc[k] = Extending(b, acc[k - 1], in[k])
  BY <1>4 DEF Merging!FoldsTo, chains
\* The chains that the first k operands make, each of them begun with two of them; the last one
\* ends with the k-th.
<1> DEFINE Begun(y) == Len(y) > 1 => \E i \in 1..n - 1 : y[1] = in[i] /\ y[2] = in[i + 1]
           Chained(k, x) == /\ x \in Seq(Seq(D) \ {<<>>})
                            /\ \A j \in 1..Len(x) : Begun(x[j])
                            /\ x # <<>> => k \in 1..n /\ Last(Last(x)) = in[k]
<1>3. Chained(0, none)
  BY EmptySeq DEF none
<1>6. ASSUME NEW k \in 1..n, NEW x, Chained(k - 1, x)
      PROVE  Chained(k, Extending(b, x, in[k]))
  <2> DEFINE S == Seq(D) \ {<<>>}
             v == in[k]
             m == Len(x)
             next == Extending(b, x, v)
  <2>1. /\ m \in Nat /\ DOMAIN x = 1..m /\ v \in D /\ k \in Nat
        /\ x \in Seq(S) /\ \A j \in 1..m : x[j] \in S /\ Begun(x[j])
    BY <1>2, <1>6, LenProperties, ElementOfSeq
  <2> HIDE DEF Begun
  <2>2. CASE next = Append(x, << v >>)
    <3>1. << v >> \in S /\ Len(<< v >>) = 1 /\ Last(<< v >>) = v
      BY <2>1, EmptySeq DEF Last
    <3> DEFINE y == << v >>
    <3> HIDE DEF y, S, m, next
    <3>2. /\ next \in Seq(S) /\ Len(next) = m + 1 /\ next[m + 1] = y
          /\ \A j \in 1..m : next[j] = x[j]
      BY <2>1, <2>2, <3>1, AppendProperties DEF y, m
    <3>3. \A j \in 1..Len(next) : Begun(next[j])
      <4>1. Begun(y)
        BY <3>1 DEF Begun, y
      <4> QED
        BY <2>1, <3>2, <4>1
    <3>4. Last(Last(next)) = v
      BY <2>1, <3>1, <3>2 DEF Last, y
    <3> QED
      BY <3>2, <3>3, <3>4 DEF S, next
  <2>3. CASE x # <<>> /\ next = Append(Front(x), Append(Last(x), v))
    <3> DEFINE l == Last(x)
               y == Append(l, v)
               f == Front(x)
    <3>1. m >= 1 /\ m \in 1..m
      BY <2>1, <2>3, EmptySeq
    <3>2. l = x[m] /\ l \in Seq(D) /\ l # <<>> /\ Begun(l)
      BY <2>1, <3>1 DEF Last
    <3>3. Len(l) \in Nat /\ Len(l) >= 1 /\ DOMAIN l = 1..Len(l) /\ l[Len(l)] = in[k - 1] /\ k - 1 \in 1..n
      BY <1>6, <2>3, <3>2, LenProperties, EmptySeq DEF Last
    <3>4. /\ y \in Seq(D) /\ Len(y) = Len(l) + 1 /\ y[Len(l) + 1] = v
          /\ \A j \in 1..Len(l) : y[j] = l[j]
      BY <2>1, <3>2, AppendProperties
    <3>5. f \in Seq(S) /\ Len(f) = m - 1 /\ \A j \in 1..m - 1 : f[j] = x[j]
      BY <2>1, <3>1, SubSeqProperties DEF Front
    <3> HIDE DEF l, y, f, m
    <3>6. y # <<>> /\ y \in S
      BY <3>3, <3>4, EmptySeq
    <3>7. Begun(y)
      <4>1. CASE Len(l) = 1
        <5>1. y[1] = in[k - 1] /\ y[2] = in[k]
          BY <3>3, <3>4, <4>1
        <5>2. k - 1 \in 1..n - 1 /\ (k - 1) + 1 = k
          BY <1>2, <3>3
        <5> QED
          BY <5>1, <5>2 DEF Begun
      <4>2. CASE Len(l) > 1
        <5>1. y[1] = l[1] /\ y[2] = l[2]
          BY <3>3, <3>4, <4>2
        <5> QED
          BY <3>2, <4>2, <5>1 DEF Begun
      <4> QED
        BY <3>3, <4>1, <4>2
    <3> HIDE DEF S, next
    <3>8. /\ next \in Seq(S) /\ Len(next) = m /\ next[m] = y
          /\ \A j \in 1..m - 1 : next[j] = x[j]
      <4>1. next = Append(f, y)
        BY <2>3 DEF f, y, l
      <4>2. /\ Append(f, y) \in Seq(S) /\ Len(Append(f, y)) = Len(f) + 1
            /\ Append(f, y)[Len(f) + 1] = y /\ \A j \in 1..Len(f) : Append(f, y)[j] = f[j]
        BY <3>5, <3>6, AppendProperties
      <4>3. (m - 1) + 1 = m
        BY <2>1
      <4> QED
        BY <3>5, <4>1, <4>2, <4>3
    <3>9. \A j \in 1..Len(next) : Begun(next[j])
      <4>1. \A j \in 1..m : j = m \/ j \in 1..m - 1
        BY <2>1
      <4> QED
        BY <2>1, <3>7, <3>8, <4>1
    <3>10. Last(Last(next)) = v
      BY <3>3, <3>4, <3>8 DEF Last
    <3> QED
      BY <3>8, <3>9, <3>10 DEF S, next
  <2>4. \/ next = Append(x, << v >>)
        \/ x # <<>> /\ next = Append(Front(x), Append(Last(x), v))
    BY DEF Extending
  <2> QED
    BY <2>2, <2>3, <2>4
<1> HIDE DEF Chained
<1> DEFINE T == {k \in 0..n : Chained(k, acc[k])}
<1>7. 0 \in T
  BY <1>2, <1>3, <1>5
<1>8. \A k \in 1..n : k - 1 \in T => k \in T
  <2> TAKE k \in 1..n
  <2> HAVE k - 1 \in T
  <2>1. k \in 0..n
    BY <1>2
  <2> QED
    BY <1>5, <1>6, <2>1
<1>9. chains \in Seq(Seq(D)) /\ \A k \in 1..Len(chains) : Begun(chains[k])
  <2> HIDE DEF T
  <2>1. \A k \in 0..n : k \in T
    BY <1>2, <1>7, <1>8, Merging!StepByStep
  <2>2. Chained(n, chains)
    BY <1>2, <1>5, <2>1 DEF T
  <2>3. (Seq(D) \ {<<>>}) \subseteq Seq(D)
    OBVIOUS
  <2> QED
    BY <2>2, <2>3, SeqMonotonic DEF Chained
<1>10. K \in SUBSET (1..Len(chains))
  BY <1>9, LenProperties DEF K
<1> DEFINE t == AtPositions(chains, K)
<1>11. /\ DOMAIN t = 1..Len(t) /\ Len(t) \in Nat /\ t \in Seq(Seq(D))
       /\ \A j \in 1..Len(t) : \E k \in K : t[j] = chains[k]
  BY <1>9, <1>10, ChosenFacts
<1> HIDE DEF t
<1>12. ASSUME NEW k \in K
       PROVE  /\ chains[k][1] \in D /\ 2 \in DOMAIN chains[k]
              /\ InARow(in, chains[k][1], chains[k][2])
  <2>1. chains[k] \in Seq(D) /\ Len(chains[k]) > 1 /\ Begun(chains[k])
    BY <1>9, <1>10, ElementOfSeq DEF K
  <2>2. /\ 1 \in 1..Len(chains[k]) /\ 2 \in 1..Len(chains[k])
        /\ DOMAIN chains[k] = 1..Len(chains[k])
    BY <2>1, LenProperties
  <2> QED
    BY <2>1, <2>2, ElementOfSeq DEF InARow, n
<1>13. \A j \in 1..Len(t) :
         t[j][1] \in D /\ 2 \in DOMAIN t[j] /\ InARow(in, t[j][1], t[j][2])
  <2> TAKE j \in 1..Len(t)
  <2>1. PICK k \in K : t[j] = chains[k]
    BY <1>11
  <2> QED
    BY <1>12, <2>1
<1>14. MergeOpportunities(b, in) = t
  BY <1>1 DEF t
<1> HIDE DEF K, chains
<1> QED
  BY <1>11, <1>13, <1>14 DEF n

\* The merged slice, and what gives it its shape, stand above the concatenation.
LEMMA AddMergedFacts ==
  ASSUME NEW b, Sound(b), NEW c \in NumbersOf(b), DefiningOp(b, c).op # "arg",
         NEW dst, dst[1] \in Above(b, c), NEW merge_dim
  PROVE  LET d == AddMerged(b, c, dst, merge_dim)
         IN  /\ Extends(b, d) /\ d.next - 1 \in Above(d, c) /\ d.next - 1 \notin NumbersOf(b)
             /\ DefiningOp(d, c) = DefiningOp(b, c)
PROOF
<1> DEFINE first == DefiningOp(b, dst[1])
           dim == Dim(DefiningOp(b, c))
           dtype == first.elem
           slice == MergedSlice(b, dst, merge_dim)
           b1 == Insert(b, Position(b, c), slice)
           merged == [ShapeOf(b, dst[1]) EXCEPT ![dim] = SizeOfAll(b, dst, dim)]
           groups == [groups |-> Reassociation(Len(merged), dim, merge_dim)]
           o2 == Operation("collapse_shape", << b.next >>, WithoutDim(merged, merge_dim),
                           dtype, groups)
           b2 == Insert(b1, Position(b1, c), o2)
           o3 == Operation("expand_shape", << b.next + 1 >>, merged, dtype, groups)
           b3 == Insert(b2, Position(b2, c), o3)
<1>1. AddMerged(b, c, dst, merge_dim) = IF dim = merge_dim THEN b1 ELSE b3
  BY DEF AddMerged
<1>2. dst[1] \in NumbersOf(b) /\ first.in \in Seq(Above(b, c)) /\ b.next \in Nat
  <2>1. dst[1] \in NumbersOf(b) /\ Position(b, dst[1]) < Position(b, c)
    BY DEF Above
  <2>2. \A u \in NumbersOf(b) : Position(b, u) \in Nat
    BY PositionFacts DEF Sound
  <2>3. Above(b, dst[1]) \subseteq Above(b, c)
    BY <2>1, <2>2 DEF Above
  <2>4. first.in \in Seq(Above(b, dst[1]))
    BY <2>1, AboveFacts
  <2> QED
    BY <2>1, <2>3, <2>4, NextFacts, SeqMonotonic
<1>3. \E size : slice = Operation("extract_slice", first.in, size, "f32",
                                  [first.attr EXCEPT !.size = size])
  BY DEF MergedSlice
<1> HIDE DEF first, dim, slice, b1, b2, b3, merged, groups
<1>4. Added(b, b1, "extract_slice", first.in) /\ Position(b1, b.next) < Position(b1, c)
  <2>1. PICK size : slice = Operation("extract_slice", first.in, size, "f32",
                                      [first.attr EXCEPT !.size = size])
    BY <1>3
  <2> QED
    BY <1>2, <2>1, InsertAbove DEF b1, Made
<1>5. /\ Extends(b, b1) /\ Sound(b1) /\ c \in NumbersOf(b1) /\ b1.next = b.next + 1
      /\ DefiningOp(b1, c) = DefiningOp(b, c) /\ b.next \in Above(b1, c)
      /\ b.next \notin NumbersOf(b)
  BY <1>4 DEF Added, Extends, Above
<1>6. << b.next >> \in Seq(Above(b1, c))
  BY <1>5
<1>7. Added(b1, b2, "collapse_shape", << b.next >>) /\ Position(b2, b1.next) < Position(b2, c)
  BY <1>5, <1>6, InsertAbove DEF b2, Made
<1>8. /\ Extends(b, b2) /\ Sound(b2) /\ c \in NumbersOf(b2) /\ b2.next = b.next + 2
      /\ DefiningOp(b2, c) = DefiningOp(b, c) /\ b.next + 1 \in Above(b2, c)
  BY <1>2, <1>5, <1>7, ExtendsFacts DEF Added, Extends, Above
<1>9. << b.next + 1 >> \in Seq(Above(b2, c))
  BY <1>8
<1>10. Added(b2, b3, "expand_shape", << b.next + 1 >>) /\ Position(b3, b2.next) < Position(b3, c)
  BY <1>8, <1>9, InsertAbove DEF b3, Made
<1>11. /\ Extends(b, b3) /\ b3.next = b.next + 3
       /\ DefiningOp(b3, c) = DefiningOp(b, c) /\ b.next + 2 \in Above(b3, c)
  BY <1>2, <1>8, <1>10, ExtendsFacts DEF Added, Extends, Above
<1>12. b.next + 2 \notin NumbersOf(b)
  <2>1. \A v \in NumbersOf(b) : v < b.next /\ v \in Nat
    BY PositionFacts DEF Sound
  <2> QED
    BY <1>2, <2>1
<1>13. b1.next - 1 = b.next /\ b3.next - 1 = b.next + 2
  BY <1>2, <1>5, <1>11
<1> QED
  BY <1>1, <1>5, <1>11, <1>12, <1>13

\* The slices of one run are merged: the concatenation has fewer operands then, if two of the
\* run were among them.
LEMMA RewriteSlicesFacts ==
  ASSUME NEW b, Sound(b), NEW c \in NumbersOf(b), DefiningOp(b, c).op = "concat",
         NEW dst, dst[1] \in Above(b, c)
  PROVE  LET r == RewriteConcatSlices(b, c, dst)
             in == DefiningOp(b, c).in
         IN  /\ Extends(b, r)
             /\ (\E w \in ToSet(dst) : w \in ToSet(in) /\ w # dst[1]) =>
                  Len(DefiningOp(r, c).in) < Len(in)
PROOF
<1> DEFINE in == DefiningOp(b, c).in
           d == AddMerged(b, c, dst, MergeDim(b, dst))
           new == d.next - 1
           K == {k \in DOMAIN in : in[k] = dst[1] \/ in[k] \notin ToSet(dst)}
           kept == AtPositions(in, K)
           e == ReplaceAll(kept, dst[1], new)
           r == SetOperands(d, c, e)
<1>1. RewriteConcatSlices(b, c, dst) = r
  BY DEF RewriteConcatSlices, Selected
<1>2. /\ Extends(b, d) /\ new \in Above(d, c) /\ new \notin NumbersOf(b)
      /\ DefiningOp(d, c) = DefiningOp(b, c)
  BY AddMergedFacts
<1> HIDE DEF d, new
<1>3. Sound(d) /\ c \in NumbersOf(d) /\ Above(b, c) \subseteq Above(d, c)
  BY <1>2, AboveFacts DEF Extends
<1>4. in \in Seq(Above(b, c)) /\ Once(in) /\ DOMAIN in = 1..Len(in)
  BY AboveFacts, OperandFacts DEF Sound, Placed, Concats
<1>5. K \in SUBSET (1..Len(in))
  BY <1>4
<1> HIDE DEF in
<1>6. /\ kept \in Seq(Above(b, c)) /\ Once(kept) /\ Len(in) \in Nat /\ Len(kept) \in Nat
      /\ ToSet(kept) \subseteq ToSet(in) /\ \A w \in ToSet(kept) : w = dst[1] \/ w \notin ToSet(dst)
  <2> HIDE DEF K
  <2>1. /\ kept \in Seq(Above(b, c)) /\ Once(kept) /\ DOMAIN kept = 1..Len(kept)
        /\ Len(kept) \in Nat /\ \A j \in 1..Len(kept) : \E k \in K : kept[j] = in[k]
    BY <1>4, <1>5, ChosenFacts
  <2> HIDE DEF kept
  <2>2. /\ ToSet(kept) = {kept[j] : j \in 1..Len(kept)} /\ Len(in) \in Nat
        /\ ToSet(in) = {in[k] : k \in 1..Len(in)}
    BY <1>4, <2>1, ElementFacts
  <2>3. \A k \in K : in[k] \in ToSet(in) /\ (in[k] = dst[1] \/ in[k] \notin ToSet(dst))
    BY <1>5, <2>2 DEF K
  <2> QED
    BY <2>1, <2>2, <2>3
<1> HIDE DEF K, kept
<1>a. Len(kept) <= Len(in)
  BY <1>4, <1>6, LengthFacts
<1>b. ASSUME NEW w \in ToSet(dst), w \in ToSet(in), w # dst[1]
      PROVE  Len(kept) < Len(in)
  <2>1. w \notin ToSet(kept)
    BY <1>6, <1>b
  <2> QED
    BY <1>4, <1>6, <1>b, <2>1, ShorterFacts
<1>7. kept \in Seq(Above(d, c)) /\ new \notin ToSet(kept)
  <2>1. Above(b, c) \subseteq NumbersOf(b)
    BY DEF Above
  <2>2. ToSet(kept) \subseteq Above(b, c)
    BY <1>6, ElementFacts
  <2> QED
    BY <1>2, <1>3, <1>6, <2>1, <2>2, SeqMonotonic
<1>8. e \in Seq(Above(d, c)) /\ Once(e) /\ Len(e) = Len(kept)
  BY <1>2, <1>6, <1>7, ReplaceAllFacts
<1> HIDE DEF e
<1>9. "concat" \notin DestinationStyle
  BY DEF DestinationStyle, Kernels
<1>10. /\ Sound(r) /\ Where(d, r) /\ DefiningOp(r, c).in = e
       /\ \A u \in NumbersOf(d) : DefiningOp(r, u).op = DefiningOp(d, u).op
       /\ \A u \in NumbersOf(d) \ {c} : DefiningOp(r, u) = DefiningOp(d, u)
  BY <1>2, <1>3, <1>8, <1>9, SetOperandsFacts
<1> HIDE DEF r
<1>c. Lessens(d, r)
  <2>1. \A u \in NumbersOf(d) : Len(DefiningOp(d, u).in) \in Nat
    BY <1>3, OperandFacts
  <2>2. Len(DefiningOp(r, c).in) <= Len(DefiningOp(d, c).in)
    BY <1>2, <1>8, <1>10, <1>a DEF in
  <2> QED
    BY <1>3, <1>10, <2>1, <2>2 DEF Lessens, Where
<1>11. Extends(d, r)
  BY <1>3, <1>10, <1>c, WhereExtends
<1> QED
  BY <1>1, <1>2, <1>8, <1>10, <1>11, <1>b, ExtendsFacts DEF in

\* One step of SimplifyConcat.
Simplifying(c, acc, dst) == RewriteConcatSlices(acc, c, dst)
Slices == INSTANCE Recursion WITH Step <- Simplifying

\* All slices that can be merged are.
LEMMA SimplifyFacts ==
  ASSUME NEW b, Sound(b), NEW c \in NumbersOf(b), DefiningOp(b, c).op = "concat",
         SimplifiesConcat(b, c)
  PROVE  /\ Turned(b, SimplifyConcat(b, c))
         /\ c \in NumbersOf(SimplifyConcat(b, c)) =>
              Len(DefiningOp(SimplifyConcat(b, c), c).in) < Len(DefiningOp(b, c).in)
PROOF
<1> DEFINE m == MergeOpportunities(b, DefiningOp(b, c).in)
           n == Len(m)
           d == Slices!Folded(c, b, m)
           in == DefiningOp(b, c).in
<1>1. SimplifyConcat(b, c) = DropDead(d)
  BY DEF SimplifyConcat, FoldLeft, MapThenFoldSet, Slices!Folded, Slices!Greatest, Max, Simplifying
<1>2. /\ n \in Nat /\ DOMAIN m = 1..n /\ \A k \in 1..n : m[k][1] \in Above(b, c)
      /\ n >= 1 => \E w \in ToSet(m[1]) : w \in ToSet(in) /\ w # m[1][1]
  <2>1. in \in Seq(Above(b, c)) /\ Len(in) \in Nat /\ ToSet(in) = {in[i] : i \in 1..Len(in)} /\ Once(in)
    BY AboveFacts, OperandFacts DEF Sound, Placed, Concats
  <2> HIDE DEF in
  <2>2. /\ n \in Nat /\ DOMAIN m = 1..n
        /\ \A j \in 1..n :
             m[j][1] \in Above(b, c) /\ 2 \in DOMAIN m[j] /\ InARow(in, m[j][1], m[j][2])
    <3>1. m = MergeOpportunities(b, in)
      BY DEF in
    <3> HIDE DEF m
    <3> QED
      BY <2>1, <3>1, OpportunityFacts
  <2> HIDE DEF m, n
  <2>3. ASSUME n >= 1
        PROVE  \E w \in ToSet(m[1]) : w \in ToSet(in) /\ w # m[1][1]
    <3>a. 1 \in 1..n
      BY <2>2, <2>3
    <3>b. InARow(in, m[1][1], m[1][2]) /\ 2 \in DOMAIN m[1]
      BY <2>2, <3>a
    <3>1. PICK i \in 1..Len(in) - 1 : m[1][1] = in[i] /\ m[1][2] = in[i + 1]
      BY <3>b DEF InARow
    <3>2. i \in 1..Len(in) /\ i + 1 \in 1..Len(in) /\ i # i + 1
      BY <2>1
    <3>3. in[i + 1] # in[i] /\ in[i + 1] \in ToSet(in)
      BY <2>1, <3>2 DEF Once
    <3>4. m[1][2] \in ToSet(m[1])
      BY <3>b DEF ToSet
    <3> QED
      BY <3>1, <3>3, <3>4
  <2> QED
    BY <2>2, <2>3
<1>a. n >= 1
  <2>1. m # <<>>
    BY DEF SimplifiesConcat
  <2>2. m \in Seq(Seq(Above(b, c)))
    BY AboveFacts, OpportunityFacts
  <2> HIDE DEF m
  <2> QED
    BY <1>2, <2>1, <2>2, EmptySeq
<1> HIDE DEF m, n, d
<1>3. PICK acc : Slices!FoldsTo(c, b, m, n, acc)
  BY <1>2, Slices!FoldSteps
<1>4. /\ acc[0] = b /\ d = acc[n]
      /\ \A k \in 1..n : acc[k] = RewriteConcatSlices(acc[k - 1], c, m[k])
  BY <1>3 DEF Slices!FoldsTo, Simplifying, d
<1> DEFINE Fewer(x) == Len(DefiningOp(x, c).in) < Len(in)
           T == {k \in 0..n : Extends(b, acc[k]) /\ (k >= 1 => Fewer(acc[k]))}
<1>5. 0 \in T
  BY <1>2, <1>4, ExtendsFacts
<1>6. ASSUME NEW k \in 1..n, k - 1 \in T
      PROVE  k \in T
  <2> DEFINE x == acc[k - 1]
  <2>1. /\ Extends(b, x) /\ k \in 0..n /\ acc[k] = RewriteConcatSlices(x, c, m[k])
        /\ k - 1 >= 1 => Fewer(x)
    BY <1>4, <1>6
  <2> HIDE DEF x
  <2>2. /\ Sound(x) /\ c \in NumbersOf(x) /\ DefiningOp(x, c).op = "concat"
        /\ m[k][1] \in Above(x, c)
    BY <1>2, <2>1, AboveFacts DEF Extends
  <2>3. /\ Extends(x, acc[k])
        /\ (\E w \in ToSet(m[k]) : w \in ToSet(DefiningOp(x, c).in) /\ w # m[k][1]) =>
             Len(DefiningOp(acc[k], c).in) < Len(DefiningOp(x, c).in)
    BY <2>1, <2>2, RewriteSlicesFacts
  <2>4. CASE k = 1
    <3>1. x = b
      BY <1>4, <2>4 DEF x
    <3>2. Fewer(acc[k])
      BY <1>2, <1>a, <2>3, <2>4, <3>1
    <3> QED
      BY <2>1, <2>3, <3>2, ExtendsFacts
  <2>5. CASE k # 1
    <3>1. Fewer(x) /\ c \in NumbersOf(acc[k]) /\ DefiningOp(acc[k], c).op = "concat" /\ Sound(acc[k])
      BY <1>2, <2>1, <2>2, <2>3, <2>5 DEF Extends
    <3>2. Len(DefiningOp(acc[k], c).in) <= Len(DefiningOp(x, c).in)
      BY <2>3, <3>1 DEF Extends, Lessens, Concats
    <3>3. /\ Len(DefiningOp(acc[k], c).in) \in Nat /\ Len(DefiningOp(x, c).in) \in Nat
          /\ Len(in) \in Nat
      BY <2>2, <3>1, OperandFacts
    <3>4. Fewer(acc[k])
      BY <3>1, <3>2, <3>3
    <3> QED
      BY <2>1, <2>3, <3>4, ExtendsFacts
  <2> QED
    BY <2>4, <2>5
<1>7. Extends(b, d) /\ Fewer(d)
  <2> HIDE DEF T
  <2>1. \A k \in 0..n : k \in T
    BY <1>2, <1>5, <1>6, Slices!StepByStep
  <2> QED
    BY <1>2, <1>4, <1>a, <2>1 DEF T
<1>8. Kept(d, DropDead(d))
  BY <1>7, DropDeadFacts DEF Extends
<1> QED
  BY <1>1, <1>7, <1>8, TurnedFacts DEF Kept

------------------------------------------------------------------------------
(* ConcatRemoval. *)

\* Behind the arguments is where they end.
LEMMA StartFacts ==
  ASSUME NEW b, Sound(b)
  PROVE  /\ Start(b) \in 1..Len(b.ops) + 1
         /\ \A v \in NumbersOf(b) : DefiningOp(b, v).op = "arg" <=> Position(b, v) < Start(b)
PROOF
<1> DEFINE n == Len(b.ops)
           A == {p \in DOMAIN b.ops : b.ops[p].op = "arg"}
           U == 1..n \ A
<1>1. n \in Nat /\ DOMAIN b.ops = 1..n /\ A \subseteq 1..n
  BY PositionFacts DEF Sound
<1>2. \A p \in 1..n : /\ b.ops[p].id \in NumbersOf(b) /\ Position(b, b.ops[p].id) = p
                      /\ DefiningOp(b, b.ops[p].id) = b.ops[p]
  BY PositionFacts DEF Sound
<1>3. \A p, q \in 1..n : p < q /\ q \in A => p \in A
  <2> SUFFICES ASSUME NEW p \in 1..n, NEW q \in 1..n, p < q, q \in A PROVE p \in A
    OBVIOUS
  <2>1. Placed(b, b.ops[q].id)
    BY <1>2 DEF Sound
  <2>2. DefiningOp(b, b.ops[p].id).op = "arg"
    BY <1>2, <2>1 DEF Placed
  <2> QED
    BY <1>1, <1>2, <2>2
<1>4. Start(b) = Cardinality(A) + 1
  BY DEF Start
<1>5. \A v \in NumbersOf(b) : /\ Position(b, v) \in 1..n
                              /\ DefiningOp(b, v).op = "arg" <=> Position(b, v) \in A
  BY <1>1, PositionFacts DEF Sound
<1> HIDE DEF A, n
<1>6. PICK k \in 0..n : A = 1..k
  <2>1. CASE U = {}
    <3>1. \A x \in 1..n : x \in A
      BY <2>1
    <3>2. A = 1..n
      BY <1>1, <3>1
    <3>3. n \in 0..n
      BY <1>1
    <3> QED
      BY <3>2, <3>3
  <2>2. CASE U # {}
    <3>1. PICK u \in U : \A y \in U : u <= y
      BY <1>1, <2>2, NeededFold!FirstExists
    <3>2. ASSUME NEW x \in 1..n
          PROVE  x \in A <=> x < u
      <4>1. u \in 1..n /\ u \notin A
        BY <3>1
      <4>2. x < u => x \in A
        BY <1>1, <3>1, <4>1
      <4>3. x \in A => x # u /\ ~(u < x)
        BY <1>3, <4>1
      <4> QED
        BY <1>1, <4>1, <4>2, <4>3
    <3> DEFINE k == u - 1
    <3>3. k \in 0..n /\ \A x : x \in 1..k <=> x \in 1..n /\ x < u
      <4>1. u \in 1..n
        BY <3>1
      <4> QED
        BY <1>1, <4>1
    <3> HIDE DEF k
    <3>4. A = 1..k
      BY <1>1, <3>2, <3>3
    <3> QED
      BY <3>3, <3>4
  <2> QED
    BY <2>1, <2>2
<1>7. Cardinality(A) = k
  BY <1>1, <1>6, FS_Interval
<1>8. \A p \in 1..n : p \in A <=> p < Start(b)
  BY <1>1, <1>4, <1>6, <1>7
<1> QED
  BY <1>1, <1>4, <1>5, <1>6, <1>7, <1>8 DEF n

\* One step of SortedInputs.
Collecting(p, sorted, o) ==
  IF o.op = "arg" THEN sorted
  ELSE sorted \o AtPositions(p, {k \in DOMAIN p : p[k] = o.id})
Sorting == INSTANCE Recursion WITH Step <- Collecting

\* Operations of the block, in its order, that are among the first k and no arguments.
InOrder(b, D, k, s) ==
  /\ s \in Seq(D)
  /\ \A i \in 1..Len(s) : DefiningOp(b, s[i]).op # "arg" /\ Position(b, s[i]) <= k
  /\ \A i, j \in 1..Len(s) : i < j => Position(b, s[i]) < Position(b, s[j])

\* The inputs that differ, the arguments among them first, the others in the order of the block.
LEMMA SortedFacts ==
  ASSUME NEW b, Sound(b), NEW D, D \subseteq NumbersOf(b), NEW in \in Seq(D), Once(in)
  PROVE  LET s == SortedInputs(b, in)
         IN  /\ s \in Seq(D)
             /\ \A i, j \in 1..Len(s) :
                  i < j /\ DefiningOp(b, s[j]).op # "arg" =>
                    DefiningOp(b, s[i]).op = "arg" \/ Position(b, s[i]) < Position(b, s[j])
PROOF
<1> DEFINE n == Len(b.ops)
           none == <<>>
           ops == b.ops
           A == {k \in DOMAIN in : DefiningOp(b, in[k]).op = "arg"}
           args == AtPositions(in, A)
           others == Sorting!Folded(in, none, ops)
<1>1. SortedInputs(b, in) = Reverse(args) \o others
  BY DEF SortedInputs, Selected, FoldLeft, MapThenFoldSet, Sorting!Folded, Sorting!Greatest, Max,
         Collecting
<1>2. n \in Nat /\ DOMAIN ops = 1..n
  BY PositionFacts DEF Sound
<1>3. \A k \in 1..n : /\ ops[k].id \in NumbersOf(b) /\ Position(b, ops[k].id) = k
                      /\ DefiningOp(b, ops[k].id) = ops[k]
  BY PositionFacts DEF Sound
<1>4. none \in Seq(D) /\ Len(none) = 0 /\ 1..0 = {}
  BY EmptySeq
<1>5. DOMAIN in = 1..Len(in) /\ Len(in) \in Nat
  BY LenProperties
<1>6. A \in SUBSET (1..Len(in))
  BY <1>5
<1> HIDE DEF n, none, ops, args, others, A
<1>7. PICK acc : Sorting!FoldsTo(in, none, ops, n, acc)
  BY <1>2, Sorting!FoldSteps
<1>8. /\ acc[0] = none /\ others = acc[n]
      /\ \A k \in 1..n : acc[k] = Collecting(in, acc[k - 1], ops[k])
  BY <1>7 DEF Sorting!FoldsTo, others
<1> DEFINE T == {k \in 0..n : InOrder(b, D, k, acc[k])}
<1>9. 0 \in T
  <2>1. InOrder(b, D, 0, none)
    BY <1>4 DEF InOrder
  <2>2. 0 \in 0..n
    BY <1>2
  <2> QED
    BY <1>8, <2>1, <2>2
<1>10. \A v \in NumbersOf(b) : Position(b, v) \in Nat
  BY PositionFacts DEF Sound
<1>11. ASSUME NEW k \in 1..n, k - 1 \in T
       PROVE  k \in T
  <2> DEFINE x == acc[k - 1]
             o == ops[k]
             K == {j \in DOMAIN in : in[j] = o.id}
             t == AtPositions(in, K)
             l == Len(x)
  <2>1. InOrder(b, D, k - 1, x) /\ k \in 0..n /\ acc[k] = Collecting(in, x, o)
    BY <1>8, <1>11
  <2>2. K \in SUBSET (1..Len(in))
    BY <1>5
  <2>3. acc[k] = IF o.op = "arg" THEN x ELSE x \o t
    BY <2>1 DEF Collecting
  <2> HIDE DEF x, o, l
  <2>4. /\ x \in Seq(D) /\ l \in Nat
        /\ \A i \in 1..l : /\ x[i] \in D /\ DefiningOp(b, x[i]).op # "arg"
                           /\ Position(b, x[i]) \in Nat /\ Position(b, x[i]) < k
                           /\ Position(b, x[i]) <= k
        /\ \A i, j \in 1..l : i < j => Position(b, x[i]) < Position(b, x[j])
    <3>1. /\ x \in Seq(D) /\ \A i \in 1..l : x[i] \in D
      BY <2>1, ElementOfSeq DEF InOrder, l
    <3>2. \A i \in 1..l : Position(b, x[i]) \in Nat /\ DefiningOp(b, x[i]).op # "arg"
                          /\ Position(b, x[i]) <= k - 1
      BY <1>10, <2>1, <3>1 DEF InOrder, l
    <3>3. \A i \in 1..l : Position(b, x[i]) < k /\ Position(b, x[i]) <= k
      BY <3>2
    <3>4. \A i, j \in 1..l : i < j => Position(b, x[i]) < Position(b, x[j])
      BY <2>1 DEF InOrder, l
    <3>5. l \in Nat
      BY <3>1, LenProperties DEF l
    <3> QED
      BY <3>1, <3>2, <3>3, <3>4, <3>5
  <2>5. CASE o.op = "arg"
    <3>1. InOrder(b, D, k, x)
      BY <2>4 DEF InOrder, l
    <3> QED
      BY <2>1, <2>3, <2>5, <3>1
  <2>6. CASE o.op # "arg"
    <3>1. /\ t \in Seq(D) /\ Len(t) \in Nat /\ Once(t)
          /\ \A j \in 1..Len(t) : \E i \in K : t[j] = in[i]
      BY <2>2, ChosenFacts
    <3>2. \A j \in 1..Len(t) : t[j] = o.id
      BY <3>1
    <3> HIDE DEF t, K
    <3>3. \A i, j \in 1..Len(t) : i = j
      BY <3>1, <3>2 DEF Once
    <3>4. Position(b, o.id) = k /\ DefiningOp(b, o.id) = o
      BY <1>3 DEF o
    <3> DEFINE y == x \o t
    <3>5. /\ y \in Seq(D) /\ Len(y) = l + Len(t)
          /\ \A i \in 1..l + Len(t) : y[i] = IF i <= l THEN x[i] ELSE t[i - l]
      BY <2>4, <3>1, ConcatProperties DEF l
    <3> HIDE DEF y
    <3>6. ASSUME NEW i \in 1..Len(y)
          PROVE  (i \in 1..l /\ y[i] = x[i]) \/ (i = l + 1 /\ y[i] = o.id)
      <4>1. CASE i <= l
        <5>1. i \in 1..l
          BY <2>4, <3>5, <4>1
        <5> QED
          BY <3>5, <4>1, <5>1
      <4>2. CASE i > l
        <5>1. i - l \in 1..Len(t) /\ 1 \in 1..Len(t) /\ y[i] = t[i - l]
          BY <2>4, <3>1, <3>5, <4>2
        <5>2. i - l = 1 /\ y[i] = o.id
          BY <3>2, <3>3, <5>1
        <5> QED
          BY <2>4, <5>2
      <4> QED
        BY <2>4, <4>1, <4>2
    <3>7. \A i \in 1..Len(y) : DefiningOp(b, y[i]).op # "arg" /\ Position(b, y[i]) <= k
      <4>1. k <= k
        OBVIOUS
      <4> QED
        BY <2>4, <2>6, <3>4, <3>6, <4>1
    <3>8. ASSUME NEW i \in 1..Len(y), NEW j \in 1..Len(y), i < j
          PROVE  Position(b, y[i]) < Position(b, y[j])
      <4>1. i \in 1..l /\ y[i] = x[i]
        <5>1. j \in 1..l \/ j = l + 1
          BY <3>6
        <5>2. i # l + 1
          BY <2>4, <3>8, <5>1
        <5> QED
          BY <3>6, <5>2
      <4>2. CASE j \in 1..l /\ y[j] = x[j]
        BY <2>4, <3>8, <4>1, <4>2
      <4>3. CASE j = l + 1 /\ y[j] = o.id
        BY <2>4, <3>4, <4>1, <4>3
      <4> QED
        BY <3>6, <4>2, <4>3
    <3>9. InOrder(b, D, k, y)
      BY <3>5, <3>7, <3>8 DEF InOrder
    <3> QED
      BY <2>1, <2>3, <2>6, <3>9 DEF y
  <2> QED
    BY <2>5, <2>6
<1>12. InOrder(b, D, n, others)
  <2> HIDE DEF T
  <2>1. \A k \in 0..n : k \in T
    BY <1>2, <1>9, <1>11, Sorting!StepByStep
  <2> QED
    BY <1>2, <1>8, <2>1 DEF T
<1>13. /\ args \in Seq(D) /\ Len(args) \in Nat
       /\ \A j \in 1..Len(args) : DefiningOp(b, args[j]).op = "arg"
  <2>1. /\ args \in Seq(D) /\ Len(args) \in Nat
        /\ \A j \in 1..Len(args) : \E i \in A : args[j] = in[i]
    BY <1>6, ChosenFacts DEF args
  <2> QED
    BY <2>1 DEF A
<1> DEFINE r == Reverse(args)
           l == Len(args)
           m == Len(others)
<1>14. r \in Seq(D) /\ Len(r) = l /\ \A j \in 1..l : DefiningOp(b, r[j]).op = "arg"
  <2>1. r = [i \in 1..l |-> args[(l - i) + 1]]
    BY DEF Reverse
  <2> HIDE DEF r, l
  <2>2. \A i \in 1..l : (l - i) + 1 \in 1..l
    BY <1>13 DEF l
  <2>3. \A i \in 1..l : args[(l - i) + 1] \in D /\ DefiningOp(b, args[(l - i) + 1]).op = "arg"
    BY <1>13, <2>2, ElementOfSeq DEF l
  <2>4. r \in [1..l -> D]
    BY <2>1, <2>3
  <2> QED
    BY <1>13, <2>1, <2>3, <2>4 DEF l
<1> HIDE DEF r
<1>15. m \in Nat /\ others \in Seq(D)
  BY <1>12, LenProperties DEF InOrder
<1> DEFINE s == r \o others
<1>16. /\ s \in Seq(D) /\ Len(s) = l + m
       /\ \A i \in 1..l + m : s[i] = IF i <= l THEN r[i] ELSE others[i - l]
  <2>1. Len(r) = l /\ Len(others) = m /\ r \in Seq(D) /\ others \in Seq(D)
    BY <1>14, <1>15
  <2>2. /\ s \in Seq(D) /\ Len(s) = Len(r) + Len(others)
        /\ \A i \in 1..Len(r) + Len(others) :
             s[i] = IF i <= Len(r) THEN r[i] ELSE others[i - Len(r)]
    BY <2>1, ConcatProperties
  <2> HIDE DEF s, l, m
  <2> QED
    BY <2>1, <2>2
<1> HIDE DEF s, l, m
<1>17. ASSUME NEW i \in 1..Len(s), NEW j \in 1..Len(s), i < j, DefiningOp(b, s[j]).op # "arg"
       PROVE  DefiningOp(b, s[i]).op = "arg" \/ Position(b, s[i]) < Position(b, s[j])
  <2>1. l \in Nat /\ m \in Nat /\ i \in 1..l + m /\ j \in 1..l + m
    BY <1>13, <1>15, <1>16, <1>17 DEF l, m
  <2>2. CASE i <= l
    <3>1. i \in 1..l /\ s[i] = r[i]
      BY <1>16, <2>1, <2>2
    <3> QED
      BY <1>14, <3>1
  <2>3. CASE i > l
    <3>1. /\ i - l \in 1..m /\ j - l \in 1..m /\ i - l < j - l
          /\ s[i] = others[i - l] /\ s[j] = others[j - l]
      BY <1>16, <1>17, <2>1, <2>3
    <3> QED
      BY <1>12, <3>1 DEF InOrder, m
  <2> QED
    BY <2>1, <2>2, <2>3
<1> QED
  BY <1>1, <1>16, <1>17 DEF s, r

\* A new operation can be made behind another one, no argument, that it may read.
LEMMA InsertBelow ==
  ASSUME NEW b, Sound(b), NEW w \in NumbersOf(b), DefiningOp(b, w).op # "arg",
         NEW op \in Made,
         NEW in \in Seq({u \in NumbersOf(b) : Position(b, u) <= Position(b, w)}),
         op = "insert_slice" => in # <<>>, NEW shape, NEW elem, NEW attr
  PROVE  LET d == Insert(b, Position(b, w) + 1, Operation(op, in, shape, elem, attr))
         IN  /\ Added(b, d, op, in) /\ Position(d, b.next) = Position(b, w) + 1
             /\ \A u \in NumbersOf(b) : w \in Above(b, u) => b.next \in Above(d, u)
PROOF
<1> DEFINE p == Position(b, w) + 1
           o == Operation(op, in, shape, elem, attr)
           d == Insert(b, p, o)
<1>1. Position(b, w) \in 1..Len(b.ops) /\ Len(b.ops) \in Nat
      /\ \A u \in NumbersOf(b) : Position(b, u) \in Nat
  BY PositionFacts DEF Sound
<1>2. DOMAIN o = OperationFields /\ o.op = op /\ o.in = in
  BY OperationFacts
<1>3. p \in 1..Len(b.ops) + 1
      /\ \A u \in NumbersOf(b) : /\ Position(b, u) <= Position(b, w) <=> Position(b, u) < p
                                 /\ Position(b, w) < Position(b, u) <=> p <= Position(b, u)
  BY <1>1
<1>4. \A u \in NumbersOf(b) : DefiningOp(b, u).op = "arg" => Position(b, u) < p
  BY <1>1, <1>3, ArgsFirst
<1>5. in \in Seq({u \in NumbersOf(b) : Position(b, u) < p})
  <2>1. {u \in NumbersOf(b) : Position(b, u) <= Position(b, w)}
          = {u \in NumbersOf(b) : Position(b, u) < p}
    BY <1>3
  <2> QED
    BY <2>1
<1> HIDE DEF o, p
<1>6. Fits(b, p, o)
  BY <1>2, <1>3, <1>4, <1>5, MadeFacts DEF Fits
<1>7. Inserted(b, d, p, o)
  BY <1>6, InsertFacts
<1>8. Added(b, d, o.op, o.in)
  BY <1>6, <1>7, InsertedAdded
<1>9. \A u \in NumbersOf(b) : w \in Above(b, u) => b.next \in Above(d, u)
  BY <1>3, <1>7, <1>8 DEF Inserted, Added, Above
<1>10. Position(d, b.next) = p
  BY <1>7 DEF Inserted
<1> QED
  BY <1>2, <1>8, <1>9, <1>10 DEF o, p

\* What has been placed of c in the result so far: that stands above c, and nothing reads it.
Placing(b, c, acc) ==
  /\ DOMAIN acc = {"b", "at", "last"} /\ Extends(b, acc.b)
  /\ acc.last \in Above(acc.b, c) /\ DefiningOp(acc.b, acc.last).op # "arg"
  /\ \A u \in NumbersOf(acc.b) : acc.last \notin ToSet(DefiningOp(acc.b, u).in)
  /\ acc.at = Position(acc.b, acc.last) + 1

\* An insertion behind w, which is neither above the operand nor above the result so far.
LEMMA BehindFacts ==
  ASSUME NEW b, Sound(b), NEW c \in NumbersOf(b), NEW acc, Extends(b, acc.b),
         NEW w \in Above(acc.b, c), DefiningOp(acc.b, w).op # "arg",
         NEW v \in NumbersOf(acc.b), Position(acc.b, v) <= Position(acc.b, w),
         acc.last \in NumbersOf(acc.b), Position(acc.b, acc.last) <= Position(acc.b, w)
  PROVE  LET next == InsertBehind(acc, Position(acc.b, w) + 1, c, v)
         IN  /\ Placing(b, c, next)
             /\ \A u \in NumbersOf(acc.b) : w \in Above(acc.b, u) => next.last \in Above(next.b, u)
PROOF
<1> DEFINE x == acc.b
           p == Position(x, w) + 1
           o == DefiningOp(x, c)
           region == RegionOf(x, c, v)
           in == << v, acc.last >>
           d == Insert(x, p, Operation("insert_slice", in, o.shape, o.elem, region))
           next == InsertBehind(acc, p, c, v)
<1>1. /\ DOMAIN next = {"b", "at", "last"} /\ next.b = d
      /\ next.at = p + 1 /\ next.last = x.next
  BY DEF InsertBehind
<1>2. Sound(x) /\ c \in NumbersOf(x) /\ w \in NumbersOf(x)
  BY DEF Extends, Above
<1>3. in \in Seq({u \in NumbersOf(x) : Position(x, u) <= Position(x, w)}) /\ in # <<>>
  OBVIOUS
<1> HIDE DEF in, region, o, next
<1>4. /\ Added(x, d, "insert_slice", in) /\ Position(d, x.next) = p
      /\ \A u \in NumbersOf(x) : w \in Above(x, u) => x.next \in Above(d, u)
  BY <1>2, <1>3, InsertBelow DEF Made
<1> HIDE DEF d, p
<1>5. Extends(b, d) /\ x.next \in Above(d, c)
  BY <1>2, <1>4, ExtendsFacts DEF Added
<1>6. Placing(b, c, next)
  BY <1>1, <1>4, <1>5 DEF Placing, Added
<1> QED
  BY <1>1, <1>4, <1>6 DEF next, p

\* An operand is placed behind itself, behind the result so far if it is an argument.
LEMMA PlaceFacts ==
  ASSUME NEW b, Sound(b), NEW c \in NumbersOf(b), NEW acc, Placing(b, c, acc),
         NEW v \in Above(b, c), DefiningOp(b, v).op # "arg" => acc.last \in Above(acc.b, v)
  PROVE  LET next == PlaceOperand(acc, c, v, Erasable(b, v))
         IN  /\ Placing(b, c, next)
             /\ \A u \in NumbersOf(b) :
                  /\ acc.last \in Above(acc.b, u)
                  /\ DefiningOp(b, v).op = "arg" \/ Position(b, v) < Position(b, u)
                  => next.last \in Above(next.b, u)
PROOF
<1> DEFINE x == acc.b
           next == PlaceOperand(acc, c, v, Erasable(b, v))
<1>1. /\ Sound(x) /\ Extends(b, x) /\ v \in NumbersOf(b) /\ v \in NumbersOf(x)
      /\ acc.last \in NumbersOf(x) /\ acc.last \in Above(x, c) /\ v \in Above(x, c)
      /\ DefiningOp(x, v).op = DefiningOp(b, v).op /\ DefiningOp(x, acc.last).op # "arg"
  BY AboveFacts DEF Placing, Extends, Above
<1>2. \A u \in NumbersOf(b) : u \in NumbersOf(x)
                             /\ (Position(b, v) < Position(b, u) => v \in Above(x, u))
  BY <1>1 DEF Extends, Above
<1>3. \A u \in NumbersOf(x) : Position(x, u) \in Nat
  BY <1>1, PositionFacts DEF Sound
<1>4. CASE ~Erasable(b, v) /\ DefiningOp(b, v).op = "arg"
  <2>1. next = InsertBehind(acc, Position(x, acc.last) + 1, c, v)
    BY <1>1, <1>4 DEF PlaceOperand
  <2>2. Position(x, v) <= Position(x, acc.last) /\ Position(x, acc.last) <= Position(x, acc.last)
    BY <1>1, <1>3, <1>4, ArgsFirst
  <2> HIDE DEF next
  <2>3. /\ Placing(b, c, next)
        /\ \A u \in NumbersOf(x) : acc.last \in Above(x, u) => next.last \in Above(next.b, u)
    BY <1>1, <2>1, <2>2, BehindFacts
  <2> QED
    BY <1>2, <2>3 DEF next
<1>5. CASE ~Erasable(b, v) /\ DefiningOp(b, v).op # "arg"
  <2>1. next = InsertBehind(acc, Position(x, v) + 1, c, v)
    BY <1>1, <1>5 DEF PlaceOperand
  <2>2. Position(x, acc.last) <= Position(x, v) /\ Position(x, v) <= Position(x, v)
    BY <1>1, <1>3, <1>5 DEF Above
  <2> HIDE DEF next
  <2>3. /\ Placing(b, c, next)
        /\ \A u \in NumbersOf(x) : v \in Above(x, u) => next.last \in Above(next.b, u)
    BY <1>1, <1>5, <2>1, <2>2, BehindFacts
  <2> QED
    BY <1>2, <1>5, <2>3 DEF next
<1>6. CASE Erasable(b, v)
  <2> DEFINE o == DefiningOp(x, v)
             region == RegionOf(x, c, v)
             in == << acc.last >>
             e == Insert(x, Position(x, acc.last) + 1,
                         Operation("extract_slice", in, o.shape, o.elem, region))
             d == SetInit(e, v, x.next)
             y == Redirect(acc, c, v)
  <2>1. y = [acc EXCEPT !.b = d] /\ next = InsertBehind(y, Position(y.b, v) + 1, c, v)
    BY <1>6 DEF PlaceOperand, Redirect, Placing
  <2>2. y.b = d /\ y.last = acc.last
    BY <2>1 DEF Placing
  <2>3. DefiningOp(x, v).op \in DestinationStyle /\ DefiningOp(b, v).op # "arg"
    BY <1>1, <1>6 DEF Erasable, DestinationStyle, Kernels
  <2>4. in \in Seq({u \in NumbersOf(x) : Position(x, u) <= Position(x, acc.last)})
    BY <1>1, <1>3
  <2> HIDE DEF in, o, region, y, next
  <2>5. Added(x, e, "extract_slice", in) /\ x.next \in Above(e, v)
    BY <1>1, <2>3, <2>4, InsertBelow DEF Made
  <2> HIDE DEF e
  <2>6. /\ Sound(e) /\ Extends(x, e) /\ Extends(b, e) /\ v \in NumbersOf(e)
        /\ DefiningOp(e, v).op \in DestinationStyle
    BY <1>1, <2>3, <2>5, ExtendsFacts DEF Added, Extends
  <2>7. /\ Sound(d) /\ Where(e, d) /\ Lessens(e, d)
        /\ \A u \in NumbersOf(e) : DefiningOp(d, u).op = DefiningOp(e, u).op
    BY <2>5, <2>6, SetInitFacts
  <2> HIDE DEF d
  <2>8. Extends(e, d)
    BY <2>6, <2>7, WhereExtends
  <2>9. Extends(x, d) /\ Extends(b, d)
    BY <1>1, <2>6, <2>8, ExtendsFacts
  <2>10. /\ v \in Above(d, c) /\ acc.last \in Above(d, v) /\ v \in NumbersOf(d)
         /\ DefiningOp(d, v).op # "arg" /\ acc.last \in NumbersOf(d)
         /\ Position(d, acc.last) <= Position(d, v) /\ Position(d, v) <= Position(d, v)
    <3>1. /\ v \in Above(d, c) /\ acc.last \in Above(d, v)
          /\ DefiningOp(d, v).op # "arg"
      BY <1>1, <2>3, <2>9, AboveFacts DEF Extends
    <3>2. v \in NumbersOf(d) /\ acc.last \in NumbersOf(d)
      BY <3>1 DEF Above
    <3>3. Position(d, v) \in Nat /\ Position(d, acc.last) \in Nat
      BY <2>7, <3>2, PositionFacts DEF Sound
    <3> QED
      BY <3>1, <3>2, <3>3 DEF Above
  <2>11. /\ Placing(b, c, next)
         /\ \A u \in NumbersOf(d) : v \in Above(d, u) => next.last \in Above(next.b, u)
    BY <2>1, <2>2, <2>9, <2>10, BehindFacts
  <2>12. \A u \in NumbersOf(b) : u \in NumbersOf(d)
                                /\ (Position(b, v) < Position(b, u) => v \in Above(d, u))
    BY <1>1, <2>9, <2>10 DEF Extends, Above
  <2> QED
    BY <2>3, <2>11, <2>12 DEF next
<1> QED
  BY <1>4, <1>5, <1>6

\* One step of ConcatRemoval; p is the block and the concatenation.
Places(p, acc, v) == PlaceOperand(acc, p.c, v, Erasable(p.b, v))
Removing == INSTANCE Recursion WITH Step <- Places

\* What is concatenated is placed in the result, which is made behind the arguments, operation
\* by operation in the order of the block.
LEMMA RemovalFacts ==
  ASSUME NEW b, Sound(b), NEW c \in NumbersOf(b), DefiningOp(b, c).op = "concat"
  PROVE  Turned(b, ConcatRemoval(b, c)) /\ c \notin NumbersOf(ConcatRemoval(b, c))
PROOF
<1> DEFINE o == DefiningOp(b, c)
           p == [b |-> b, c |-> c]
           s == SortedInputs(b, o.in)
           n == Len(s)
           empty == Operation("empty", <<>>, o.shape, o.elem, <<>>)
           b1 == Insert(b, Start(b), empty)
           start == [b |-> b1, at |-> Start(b) + 1, last |-> b.next]
           placed == Removing!Folded(p, start, s)
           IsArg(v) == DefiningOp(b, v).op = "arg"
<1>1. ConcatRemoval(b, c) = DropDead(ReplaceOp(placed.b, c, placed.last))
  BY DEF ConcatRemoval, FoldLeft, MapThenFoldSet, Removing!Folded, Removing!Greatest, Max, Places
<1>2. /\ s \in Seq(Above(b, c)) /\ DOMAIN s = 1..n /\ n \in Nat
      /\ \A k \in 1..n : s[k] \in Above(b, c) /\ s[k] \in NumbersOf(b)
      /\ \A i, j \in 1..n : i < j /\ ~IsArg(s[j]) =>
                              IsArg(s[i]) \/ Position(b, s[i]) < Position(b, s[j])
  <2>1. o.in \in Seq(Above(b, c)) /\ Above(b, c) \subseteq NumbersOf(b) /\ Once(o.in)
    BY AboveFacts DEF Sound, Placed, Concats
  <2>2. /\ s \in Seq(Above(b, c))
        /\ \A i, j \in 1..n : i < j /\ ~IsArg(s[j]) =>
                                IsArg(s[i]) \/ Position(b, s[i]) < Position(b, s[j])
    BY <2>1, SortedFacts
  <2> HIDE DEF s
  <2>3. DOMAIN s = 1..n /\ n \in Nat /\ \A k \in 1..n : s[k] \in Above(b, c)
    BY <2>2, ElementOfSeq, LenProperties
  <2> HIDE DEF n, IsArg
  <2> QED
    BY <2>1, <2>2, <2>3
<1> HIDE DEF placed, s, n
<1>3. /\ Added(b, b1, "empty", << >>) /\ Position(b1, b.next) = Start(b)
      /\ \A u \in NumbersOf(b) : ~IsArg(u) => b.next \in Above(b1, u)
  <2>1. DOMAIN empty = OperationFields /\ empty.op = "empty" /\ empty.in = <<>>
    BY OperationFacts
  <2> HIDE DEF empty
  <2>2. /\ Start(b) \in 1..Len(b.ops) + 1
        /\ \A v \in NumbersOf(b) : IsArg(v) <=> Position(b, v) < Start(b)
    BY StartFacts
  <2>3. /\ "empty" \notin Concats \cup Dots \cup {"arg"} /\ "empty" \notin DestinationStyle
        /\ <<>> \in Seq({u \in NumbersOf(b) : Position(b, u) < Start(b)})
    BY DEF Concats, Dots, DestinationStyle, Kernels
  <2>4. Fits(b, Start(b), empty)
    BY <2>1, <2>2, <2>3 DEF Fits
  <2>5. Inserted(b, b1, Start(b), empty)
    BY <2>4, InsertFacts
  <2>6. Added(b, b1, "empty", << >>)
    BY <2>1, <2>4, <2>5, InsertedAdded
  <2>7. \A u \in NumbersOf(b) : Position(b, u) \in Nat /\ Start(b) \in Nat
    BY <2>2, PositionFacts DEF Sound
  <2>8. \A u \in NumbersOf(b) : ~IsArg(u) => Start(b) <= Position(b, u)
    BY <2>2, <2>7
  <2> QED
    BY <2>5, <2>6, <2>8 DEF Inserted, Added, Above
<1> HIDE DEF b1, p
<1>p. p.b = b /\ p.c = c
  BY DEF p
<1> DEFINE Good(k, acc) ==
             /\ Placing(b, c, acc)
             /\ \A j \in 1..n : k < j /\ ~IsArg(s[j]) => acc.last \in Above(acc.b, s[j])
<1>4. Good(0, start)
  <2>1. Placing(b, c, start)
    BY <1>3 DEF Placing, Added
  <2> QED
    BY <1>2, <1>3, <2>1
<1>5. ASSUME NEW k \in 1..n, NEW acc, Good(k - 1, acc)
      PROVE  Good(k, Places(p, acc, s[k]))
  <2> DEFINE next == Places(p, acc, s[k])
  <2>1. next = PlaceOperand(acc, c, s[k], Erasable(b, s[k]))
    BY <1>p DEF Places
  <2> HIDE DEF next
  <2>2. k - 1 < k /\ s[k] \in Above(b, c) /\ \A j \in 1..n : k < j => k - 1 < j
    BY <1>2
  <2>3. ~IsArg(s[k]) => acc.last \in Above(acc.b, s[k])
    BY <1>5, <2>2
  <2>4. /\ Placing(b, c, next)
        /\ \A u \in NumbersOf(b) :
             /\ acc.last \in Above(acc.b, u)
             /\ IsArg(s[k]) \/ Position(b, s[k]) < Position(b, u)
             => next.last \in Above(next.b, u)
    BY <1>5, <2>1, <2>2, <2>3, PlaceFacts
  <2>5. ASSUME NEW j \in 1..n, k < j, ~IsArg(s[j])
        PROVE  next.last \in Above(next.b, s[j])
    <3>1. acc.last \in Above(acc.b, s[j])
      BY <1>5, <2>2, <2>5
    <3>2. IsArg(s[k]) \/ Position(b, s[k]) < Position(b, s[j])
      BY <1>2, <2>5
    <3> QED
      BY <1>2, <2>4, <3>1, <3>2
  <2> QED
    BY <2>4, <2>5 DEF next
<1> HIDE DEF Good, start
<1>6. PICK acc : Removing!FoldsTo(p, start, s, n, acc)
  BY <1>2, Removing!FoldSteps
<1>7. /\ acc[0] = start /\ placed = acc[n]
      /\ \A k \in 1..n : acc[k] = Places(p, acc[k - 1], s[k])
  BY <1>6 DEF Removing!FoldsTo, placed
<1> DEFINE T == {k \in 0..n : Good(k, acc[k])}
<1>8. 0 \in T
  BY <1>2, <1>4, <1>7
<1>9. \A k \in 1..n : k - 1 \in T => k \in T
  <2> TAKE k \in 1..n
  <2> HAVE k - 1 \in T
  <2>1. k \in 0..n
    BY <1>2
  <2> QED
    BY <1>5, <1>7, <2>1
<1>10. Good(n, placed)
  <2> HIDE DEF T
  <2>1. \A k \in 0..n : k \in T
    BY <1>2, <1>8, <1>9, Removing!StepByStep
  <2> QED
    BY <1>2, <1>7, <2>1 DEF T
<1>11. /\ Extends(b, placed.b) /\ placed.last \in NumbersOf(placed.b)
       /\ Position(placed.b, placed.last) < Position(placed.b, c)
       /\ \A u \in NumbersOf(placed.b) : placed.last \notin ToSet(DefiningOp(placed.b, u).in)
  BY <1>10 DEF Good, Placing, Above
<1>12. Replaces(b, ReplaceOp(placed.b, c, placed.last), c)
  BY <1>11, ReplacedExtension
<1> QED
  BY <1>1, <1>12, TurnedFacts

------------------------------------------------------------------------------
(* The walks. *)

\* The operations of a block that are members of W, in the order of the block.
Walked(b, W) ==
  LET ids == [p \in DOMAIN b.ops |-> b.ops[p].id]
  IN  AtPositions(ids, {k \in DOMAIN ids : ids[k] \in W})

\* Each of them is there once.
LEMMA WalkedFacts ==
  ASSUME NEW b, Sound(b), NEW W \in SUBSET NumbersOf(b)
  PROVE  /\ Walked(b, W) \in Seq(W) /\ Once(Walked(b, W))
         /\ ToSet(Walked(b, W)) = W
PROOF
<1> DEFINE n == Len(b.ops)
           ids == [p \in DOMAIN b.ops |-> b.ops[p].id]
           K == {k \in DOMAIN ids : ids[k] \in W}
           t == Walked(b, W)
<1>1. /\ n \in Nat /\ DOMAIN b.ops = 1..n
      /\ \A p \in 1..n : b.ops[p].id \in NumbersOf(b)
      /\ \A p, q \in 1..n : b.ops[p].id = b.ops[q].id => p = q
  BY PositionFacts DEF Sound, Arranged
<1>2. /\ ids \in Seq(NumbersOf(b)) /\ Len(ids) = n /\ DOMAIN ids = 1..n
      /\ \A p \in 1..n : ids[p] = b.ops[p].id
  BY <1>1
<1>3. t = AtPositions(ids, K)
  BY DEF Walked
<1>4. K \in SUBSET (1..Len(ids)) /\ \A v \in W : \E k \in K : ids[k] = v
  BY <1>1, <1>2 DEF NumbersOf
<1>5. Once(ids)
  BY <1>1, <1>2 DEF Once
<1>6. \A k \in K : ids[k] \in W
  OBVIOUS
<1> HIDE DEF ids, K, t
<1>7. /\ t \in Seq(NumbersOf(b)) /\ Once(t)
      /\ \A j \in 1..Len(t) : \E k \in K : t[j] = ids[k]
      /\ \A k \in K : \E j \in 1..Len(t) : t[j] = ids[k]
  BY <1>2, <1>3, <1>4, <1>5, ChosenFacts
<1>8. ToSet(t) = {t[j] : j \in 1..Len(t)} /\ t \in Seq(ToSet(t))
  BY <1>7, ElementFacts
<1>9. ToSet(t) = W
  <2>1. \A j \in 1..Len(t) : t[j] \in W
    BY <1>6, <1>7
  <2>2. \A v \in W : \E j \in 1..Len(t) : t[j] = v
    BY <1>4, <1>7
  <2> QED
    BY <1>8, <2>1, <2>2
<1> QED
  BY <1>7, <1>8, <1>9 DEF t

\* The products of a block.
DotsIn(b) == {v \in NumbersOf(b) : DefiningOp(b, v).op \in Dots}

\* The walk over them comes to each of them once.
LEMMA DotsFacts ==
  ASSUME NEW b, Sound(b)
  PROVE  /\ DotsOf(b) \in Seq(NumbersOf(b)) /\ Once(DotsOf(b))
         /\ ToSet(DotsOf(b)) = DotsIn(b)
PROOF
<1> DEFINE Of(kind) == {v \in NumbersOf(b) : DefiningOp(b, v).op = kind}
           s == Walked(b, Of("dot"))
           t == Walked(b, Of("dot_general"))
           ids == [p \in DOMAIN b.ops |-> b.ops[p].id]
<1>1. \A kind : {k \in DOMAIN ids : DefiningOp(b, ids[k]).op = kind}
                  = {k \in DOMAIN ids : ids[k] \in Of(kind)}
  BY DEF NumbersOf
<1>2. DotsOf(b) = s \o t
  <2>1. DotsOf(b) = AtPositions(ids, {k \in DOMAIN ids : DefiningOp(b, ids[k]).op = "dot"})
                    \o AtPositions(ids, {k \in DOMAIN ids : DefiningOp(b, ids[k]).op = "dot_general"})
    BY DEF DotsOf, Selected
  <2>2. \A kind : Walked(b, Of(kind)) = AtPositions(ids, {k \in DOMAIN ids : ids[k] \in Of(kind)})
    BY DEF Walked
  <2> HIDE DEF ids, Of
  <2> QED
    BY <1>1, <2>1, <2>2
<1>3. /\ s \in Seq(Of("dot")) /\ Once(s) /\ ToSet(s) = Of("dot")
      /\ t \in Seq(Of("dot_general")) /\ Once(t) /\ ToSet(t) = Of("dot_general")
  BY WalkedFacts
<1>4. s \in Seq(NumbersOf(b)) /\ t \in Seq(NumbersOf(b))
  <2>1. Of("dot") \subseteq NumbersOf(b) /\ Of("dot_general") \subseteq NumbersOf(b)
    OBVIOUS
  <2> HIDE DEF s, t
  <2> QED
    BY <1>3, <2>1, SeqMonotonic
<1>5. Of("dot") \cap Of("dot_general") = {} /\ Of("dot") \cup Of("dot_general") = DotsIn(b)
  BY DEF DotsIn, Dots
<1> HIDE DEF s, t, Of
<1>6. ToSet(s) \cap ToSet(t) = {} /\ ToSet(s) \cup ToSet(t) = DotsIn(b)
  BY <1>3, <1>5
<1>7. /\ s \o t \in Seq(NumbersOf(b)) /\ Once(s \o t)
      /\ ToSet(s \o t) = ToSet(s) \cup ToSet(t)
  BY <1>3, <1>4, <1>6, BothOnce
<1> HIDE DEF ids
<1> QED
  BY <1>2, <1>6, <1>7

\* So does the one over fusions.
LEMMA FusionsFacts ==
  ASSUME NEW b, Sound(b)
  PROVE  /\ FusionsOf(b) \in Seq(NumbersOf(b)) /\ Once(FusionsOf(b))
         /\ \A v \in ToSet(FusionsOf(b)) : DefiningOp(b, v).op = "fusion"
PROOF
<1> DEFINE W == {v \in NumbersOf(b) : IsElementwise(DefiningOp(b, v))}
           ids == [p \in DOMAIN b.ops |-> b.ops[p].id]
           s == Walked(b, W)
<1>1. {k \in DOMAIN ids : IsElementwise(DefiningOp(b, ids[k]))} = {k \in DOMAIN ids : ids[k] \in W}
  BY DEF NumbersOf
<1>2. FusionsOf(b) = s
  <2>1. FusionsOf(b)
          = AtPositions(ids, {k \in DOMAIN ids : IsElementwise(DefiningOp(b, ids[k]))})
    BY DEF FusionsOf, Selected
  <2>2. s = AtPositions(ids, {k \in DOMAIN ids : ids[k] \in W})
    BY DEF Walked
  <2> HIDE DEF ids, W, s
  <2> QED
    BY <1>1, <2>1, <2>2
<1>3. s \in Seq(W) /\ Once(s) /\ ToSet(s) = W
  BY WalkedFacts
<1>4. W \subseteq NumbersOf(b) /\ \A v \in W : DefiningOp(b, v).op = "fusion"
  BY DEF IsElementwise
<1> HIDE DEF s, W
<1> QED
  BY <1>2, <1>3, <1>4, SeqMonotonic

\* What is left of a walk after its first operation.
LEMMA TailFacts ==
  ASSUME NEW S, NEW s \in Seq(S), Once(s), s # <<>>
  PROVE  /\ Head(s) \in S /\ Head(s) \in ToSet(s)
         /\ Tail(s) \in Seq(S \ {Head(s)}) /\ Once(Tail(s))
         /\ Len(Tail(s)) + 1 = Len(s) /\ Len(Tail(s)) \in Nat
         /\ ToSet(Tail(s)) \subseteq ToSet(s)
PROOF
<1> DEFINE n == Len(s)
           t == Tail(s)
<1>1. n \in Nat /\ DOMAIN s = 1..n /\ ToSet(s) = {s[i] : i \in 1..n} /\ \A i \in 1..n : s[i] \in S
  BY ElementFacts, ElementOfSeq
<1>2. n >= 1 /\ Head(s) = s[1]
  BY <1>1, EmptySeq
<1>3. t \in Seq(S) /\ Len(t) = n - 1 /\ \A i \in 1..n - 1 : t[i] = s[i + 1]
  BY HeadTailProperties
<1>4. ToSet(t) = {t[i] : i \in 1..Len(t)} /\ t \in Seq(ToSet(t))
  BY <1>3, ElementFacts
<1>5. \A i, j \in 1..n : s[i] = s[j] => i = j
  BY DEF Once
<1> HIDE DEF n, t
<1>6. \A i \in 1..n - 1 : i + 1 \in 1..n /\ i + 1 # 1 /\ 1 \in 1..n
  BY <1>1, <1>2
<1>7. ToSet(t) \subseteq ToSet(s) /\ ToSet(t) \subseteq S \ {Head(s)}
  BY <1>1, <1>2, <1>3, <1>4, <1>5, <1>6
<1>8. Once(t)
  <2>1. \A i, j \in 1..n - 1 : i + 1 = j + 1 => i = j
    OBVIOUS
  <2> QED
    BY <1>3, <1>5, <1>6, <2>1 DEF Once
<1>9. t \in Seq(S \ {Head(s)})
  BY <1>4, <1>7, SeqMonotonic
<1>10. Head(s) \in S /\ Head(s) \in ToSet(s)
  BY <1>1, <1>2
<1> QED
  BY <1>1, <1>2, <1>3, <1>7, <1>8, <1>9, <1>10 DEF n, t

------------------------------------------------------------------------------
(* The passes. *)

\* A block as it is given to a pass, if no operand of a concatenation occurs twice.
LEMMA GivenFacts ==
  ASSUME DistinctOperands, NEW r \in Pipelines
  PROVE  Sound(r.block)
PROOF
<1> DEFINE b == r.block
           n == Len(b.ops)
<1>1. IsBlock(b)
  BY PipelinesAssumption
<1>2. \A p \in DOMAIN b.ops : b.ops[p].op \in Concats => IsInjective(b.ops[p].in)
  BY DEF DistinctOperands, Concats
<1> HIDE DEF b
<1>3. /\ DOMAIN b = {"ops", "next"} /\ b.next \in Nat \ {0} /\ b.ops \in Seq(ToSet(b.ops))
      /\ n \in Nat /\ DOMAIN b.ops = 1..n
  BY <1>1, LenProperties DEF IsBlock
<1>4. \A p \in 1..n : LET o == b.ops[p] IN
        /\ DOMAIN o = OperationFields /\ o.id \in 1..b.next - 1 /\ o.in \in Seq(Nat)
        /\ \A q \in 1..p - 1 : b.ops[q].id # o.id /\ (o.op = "arg" => b.ops[q].op = "arg")
        /\ o.op \in DestinationStyle => o.in # <<>>
  BY <1>1, <1>3 DEF IsBlock
<1>5. \A p \in 1..n : \A v \in ToSet(b.ops[p].in) :
        \E q \in 1..n : b.ops[q].id = v /\ q < p
  BY <1>1, <1>3 DEF IsBlock, Dominates, Positions
<1> HIDE DEF n
<1>6. Arranged(b)
  <2>1. \A p, q \in 1..n : q < p => q \in 1..p - 1
    BY <1>3
  <2>2. ASSUME NEW p \in 1..n, NEW q \in 1..n, b.ops[p].id = b.ops[q].id
        PROVE  p = q
    <3>1. ~(q < p) /\ ~(p < q)
      BY <1>4, <2>1, <2>2
    <3> QED
      BY <1>3, <3>1
  <2> QED
    BY <1>3, <1>4, <2>2 DEF Arranged
<1>7. ASSUME NEW v \in NumbersOf(b)
      PROVE  Placed(b, v)
  <2> DEFINE p == Position(b, v)
             o == DefiningOp(b, v)
  <2>1. /\ p \in 1..n /\ o = b.ops[p]
        /\ \A q \in 1..n : b.ops[q].id \in NumbersOf(b) /\ Position(b, b.ops[q].id) = q
        /\ \A u \in NumbersOf(b) : Position(b, u) \in 1..n /\ DefiningOp(b, u) = b.ops[Position(b, u)]
    BY <1>6, PositionFacts DEF n
  <2> HIDE DEF p, o
  <2>2. \A u \in ToSet(o.in) : u \in NumbersOf(b) /\ Position(b, u) < p
    BY <1>5, <2>1
  <2>3. o.in \in Seq(NumbersOf(b)) /\ DOMAIN o.in = 1..Len(o.in)
    <3>1. o.in \in Seq(ToSet(o.in)) /\ DOMAIN o.in = 1..Len(o.in)
      BY <1>4, <2>1, ElementFacts
    <3>2. ToSet(o.in) \subseteq NumbersOf(b)
      BY <2>2
    <3> QED
      BY <3>1, <3>2, SeqMonotonic
  <2>4. o.op \in DestinationStyle => o.in # <<>>
    BY <1>4, <2>1
  <2>5. o.op \in Concats => Once(o.in)
    <3>1. o.op \in Concats => IsInjective(o.in)
      BY <1>2, <1>3, <2>1
    <3> QED
      BY <2>3, <3>1 DEF IsInjective, Once
  <2>6. ASSUME o.op = "arg", NEW u \in NumbersOf(b), Position(b, u) < p
        PROVE  DefiningOp(b, u).op = "arg"
    <3>1. Position(b, u) \in 1..p - 1
      BY <2>1, <2>6
    <3> QED
      BY <1>4, <2>1, <2>6, <3>1
  <2> QED
    BY <2>2, <2>3, <2>4, <2>5, <2>6 DEF Placed, p, o
<1> QED
  BY <1>6, <1>7 DEF Sound, b

\* Rewrite after rewrite.
LEMMA TurnedOn ==
  ASSUME NEW b, Sound(b), NEW d, NEW e, Turned(b, d), Turned(d, e)
  PROVE  Turned(b, e)
PROOF
<1>1. b.next \in Nat /\ d.next \in Nat /\ e.next \in Nat
  BY NextFacts DEF Turned
<1>2. b.next <= e.next
  BY <1>1 DEF Turned
<1>3. Lessens(b, e)
  BY LessensFacts DEF Turned
<1> QED
  BY <1>2, <1>3 DEF Turned

\* How many entries of the selector there are at most to use up.
Limit == Len(DotsOf(request.block))

\* What is left of a walk: different operations, of the kind that the pass is about; no more
\* products than the block had in the beginning, with those that have used up an entry.
WalkInv ==
  /\ todo \in Seq(NumbersOf(block)) /\ Once(todo)
  /\ matmul_idx \in 0..Limit
  /\ todo # <<>> =>
       \/ /\ Current = "dot-to-function-call" /\ matmul_idx + Len(todo) <= Limit
          /\ \A v \in ToSet(todo) : DefiningOp(block, v).op \in Dots
       \/ /\ Current = "gml-st-reuse-output-tensor"
          /\ \A v \in ToSet(todo) : DefiningOp(block, v).op = "fusion"

\* The inductive invariant.
TensorInv ==
  /\ request \in Pipelines /\ pass \in 0..Len(request.passes) /\ failed \in BOOLEAN
  /\ Sound(request.block) /\ Turned(request.block, block)
  /\ WalkInv

\* No block has more products than the one that was given.
LEMMA LimitFacts ==
  ASSUME NEW b, Sound(b), NEW d, Turned(b, d)
  PROVE  Len(DotsOf(d)) <= Len(DotsOf(b)) /\ Len(DotsOf(d)) \in Nat /\ Len(DotsOf(b)) \in Nat
PROOF
<1> DEFINE s == DotsOf(d)
           r == DotsOf(b)
<1>1. /\ s \in Seq(NumbersOf(d)) /\ Once(s) /\ ToSet(s) = DotsIn(d)
      /\ r \in Seq(NumbersOf(b)) /\ ToSet(r) = DotsIn(b)
  BY DotsFacts DEF Turned
<1>2. DotsIn(d) \subseteq DotsIn(b)
  BY DEF Turned, DotsIn
<1> HIDE DEF s, r
<1>3. /\ s \in Seq(ToSet(s)) /\ r \in Seq(ToSet(r)) /\ ToSet(s) \subseteq ToSet(r)
      /\ Len(s) \in Nat /\ Len(r) \in Nat
  BY <1>1, <1>2, ElementFacts
<1>4. s \in Seq(ToSet(r))
  BY <1>3, SeqMonotonic
<1>5. Len(s) <= Len(r)
  BY <1>1, <1>3, <1>4, LengthFacts
<1> QED
  BY <1>3, <1>5 DEF s, r

\* The steps left in a block: finitely many of them.
LEMMA OpenFacts ==
  ASSUME NEW b, Sound(b)
  PROVE  /\ IsFiniteSet(Open(b)) /\ Cardinality(Open(b)) \in Nat
         /\ \A v, k : << v, k >> \in Open(b) <=> v \in NumbersOf(b) /\ k \in Steps(DefiningOp(b, v))
         /\ \A x \in Open(b) : \E v, k : x = << v, k >>
PROOF
<1> DEFINE N == NumbersOf(b)
           f == [v \in N |-> {v} \X Steps(DefiningOp(b, v))]
           S == {f[v] : v \in N}
<1>1. /\ \A p \in DOMAIN b.ops : b.ops[p].id \in N /\ DefiningOp(b, b.ops[p].id) = b.ops[p]
      /\ \A v \in N : \E p \in DOMAIN b.ops : v = b.ops[p].id
      /\ N \subseteq 1..b.next - 1 /\ b.next \in Nat
  BY PositionFacts DEF Sound, Arranged, NumbersOf
<1>2. \A v \in N : Len(DefiningOp(b, v).in) \in Nat
  BY OperandFacts
<1>3. IsFiniteSet(N)
  <2>1. IsFiniteSet(1..b.next - 1)
    <3>1. b.next - 1 \in Int /\ 1 \in Int
      BY <1>1
    <3> QED
      BY <3>1, FS_Interval
  <2> QED
    BY <1>1, <2>1, FS_Subset
<1>4. Open(b) = UNION S
  <2>1. ToSet(b.ops) = {b.ops[p] : p \in DOMAIN b.ops}
    BY DEF ToSet
  <2>2. {{o.id} \X Steps(o) : o \in ToSet(b.ops)} = S
    <3>1. \A p \in DOMAIN b.ops :
            /\ b.ops[p].id \in N
            /\ {b.ops[p].id} \X Steps(b.ops[p]) = f[b.ops[p].id]
      BY <1>1
    <3> HIDE DEF f, N
    <3>2. \A o \in ToSet(b.ops) : \E v \in N : {o.id} \X Steps(o) = f[v]
      BY <2>1, <3>1
    <3>3. \A v \in N : \E o \in ToSet(b.ops) : {o.id} \X Steps(o) = f[v]
      BY <1>1, <2>1, <3>1
    <3> QED
      BY <3>2, <3>3
  <2> QED
    BY <2>2 DEF Open
<1>5. \A T \in S : IsFiniteSet(T)
  <2> SUFFICES ASSUME NEW v \in N PROVE IsFiniteSet({v} \X Steps(DefiningOp(b, v)))
    OBVIOUS
  <2> DEFINE n == Len(DefiningOp(b, v).in)
             K == Steps(DefiningOp(b, v))
  <2>1. n \in Int /\ -1 \in Int /\ 0 \in Int
    BY <1>2
  <2>2. IsFiniteSet(-1..n) /\ IsFiniteSet(0..n) /\ IsFiniteSet({})
    <3> HIDE DEF n
    <3> QED
      BY <2>1, FS_Interval, FS_EmptySet
  <2>3. K \in {-1..n, 0..n, {}}
    BY DEF Steps
  <2>4. IsFiniteSet(K)
    BY <2>2, <2>3
  <2>5. IsFiniteSet({v})
    BY FS_Singleton
  <2> HIDE DEF K
  <2> QED
    BY <2>4, <2>5, FS_Product DEF K
<1>6. IsFiniteSet(S)
  <2>1. f \in Surjection(N, S)
    <3> HIDE DEF f
    <3>1. f \in [N -> S]
      BY DEF f
    <3> QED
      BY <3>1 DEF Surjection
  <2> HIDE DEF f, S, N
  <2> QED
    BY <1>3, <2>1, FS_Surjection
<1>7. IsFiniteSet(Open(b))
  <2> HIDE DEF S
  <2> QED
    BY <1>4, <1>5, <1>6, FS_UNION
<1>8. \A v, k : << v, k >> \in Open(b) <=> v \in N /\ k \in Steps(DefiningOp(b, v))
  BY <1>4
<1>9. \A x \in Open(b) : \E v, k : x = << v, k >>
  BY <1>4
<1> QED
  BY <1>7, <1>8, <1>9, FS_CardinalityType

\* A block of fewer concatenations, or of shorter ones, has no more steps left; it has fewer if
\* one concatenation is gone, legalized, or has fewer operands.
LEMMA FewerFacts ==
  ASSUME NEW b, Sound(b), NEW d, Turned(b, d)
  PROVE  /\ Cardinality(Open(d)) \in Nat /\ Cardinality(Open(b)) \in Nat
         /\ Cardinality(Open(d)) <= Cardinality(Open(b))
         /\ \A c \in NumbersOf(b) :
              /\ DefiningOp(b, c).op \in Concats
              /\ c \in NumbersOf(d) =>
                   \/ DefiningOp(d, c).op = "concat" /\ DefiningOp(b, c).op = "thlo.concatenate"
                   \/ Len(DefiningOp(d, c).in) < Len(DefiningOp(b, c).in)
              => Cardinality(Open(d)) < Cardinality(Open(b))
PROOF
<1>1. Sound(d) /\ Lessens(b, d)
  BY DEF Turned
<1>2. /\ IsFiniteSet(Open(b)) /\ Cardinality(Open(b)) \in Nat
      /\ \A v, k : << v, k >> \in Open(b) <=> v \in NumbersOf(b) /\ k \in Steps(DefiningOp(b, v))
  BY OpenFacts
<1>3. /\ Cardinality(Open(d)) \in Nat
      /\ \A v, k : << v, k >> \in Open(d) <=> v \in NumbersOf(d) /\ k \in Steps(DefiningOp(d, v))
      /\ \A x \in Open(d) : \E v, k : x = << v, k >>
  BY <1>1, OpenFacts
<1>4. /\ \A v \in NumbersOf(b) : Len(DefiningOp(b, v).in) \in Nat
      /\ \A v \in NumbersOf(d) : Len(DefiningOp(d, v).in) \in Nat
  BY <1>1, OperandFacts
<1>5. Open(d) \subseteq Open(b)
  <2> SUFFICES ASSUME NEW v, NEW k, v \in NumbersOf(d), k \in Steps(DefiningOp(d, v))
               PROVE  v \in NumbersOf(b) /\ k \in Steps(DefiningOp(b, v))
    BY <1>2, <1>3
  <2> DEFINE m == Len(DefiningOp(d, v).in)
             n == Len(DefiningOp(b, v).in)
  <2>1. DefiningOp(d, v).op \in Concats
    BY DEF Steps, Concats
  <2>2. /\ v \in NumbersOf(b) /\ DefiningOp(b, v).op \in Concats
        /\ DefiningOp(d, v).op \in {DefiningOp(b, v).op, "concat"} /\ m <= n
    BY <1>1, <2>1 DEF Lessens
  <2>3. /\ Steps(DefiningOp(b, v)) = IF DefiningOp(b, v).op = "concat" THEN 0..n ELSE -1..n
        /\ Steps(DefiningOp(d, v)) = IF DefiningOp(d, v).op = "concat" THEN 0..m ELSE -1..m
    BY <2>1, <2>2 DEF Steps, Concats
  <2>4. m \in Nat /\ n \in Nat
    BY <1>4, <2>2
  <2> HIDE DEF m, n
  <2>5. 0..m \subseteq 0..n /\ -1..m \subseteq -1..n /\ 0..n \subseteq -1..n
    BY <2>2, <2>4
  <2> QED
    BY <2>2, <2>3, <2>5
<1>6. Cardinality(Open(d)) <= Cardinality(Open(b))
  BY <1>2, <1>5, FS_Subset
<1>7. ASSUME NEW c \in NumbersOf(b), DefiningOp(b, c).op \in Concats,
             c \in NumbersOf(d) =>
               \/ DefiningOp(d, c).op = "concat" /\ DefiningOp(b, c).op = "thlo.concatenate"
               \/ Len(DefiningOp(d, c).in) < Len(DefiningOp(b, c).in)
      PROVE  Cardinality(Open(d)) < Cardinality(Open(b))
  <2> DEFINE n == Len(DefiningOp(b, c).in)
  <2>1. n \in Nat /\ 0..n \subseteq Steps(DefiningOp(b, c))
    <3>1. n \in Nat
      BY <1>4
    <3>2. Steps(DefiningOp(b, c)) \in {0..n, -1..n}
      BY <1>7 DEF Steps, Concats
    <3> HIDE DEF n
    <3>3. 0..n \subseteq -1..n
      BY <3>1
    <3> QED
      BY <3>1, <3>2, <3>3
  <2>2. \E k : k \in Steps(DefiningOp(b, c)) /\ << c, k >> \notin Open(d)
    <3>1. CASE c \notin NumbersOf(d)
      <4>1. 0 \in 0..n
        BY <2>1
      <4> QED
        BY <1>3, <2>1, <3>1, <4>1
    <3>2. CASE /\ c \in NumbersOf(d) /\ DefiningOp(d, c).op = "concat"
               /\ DefiningOp(b, c).op = "thlo.concatenate"
      <4>1. -1 \in Steps(DefiningOp(b, c))
        BY <2>1, <3>2 DEF Steps
      <4>2. -1 \notin Steps(DefiningOp(d, c))
        BY <3>2 DEF Steps
      <4> QED
        BY <1>3, <4>1, <4>2
    <3>3. CASE c \in NumbersOf(d) /\ Len(DefiningOp(d, c).in) < n
      <4> DEFINE m == Len(DefiningOp(d, c).in)
      <4>1. m \in Nat /\ m < n
        BY <1>4, <3>3
      <4>2. Steps(DefiningOp(d, c)) \in {-1..m, 0..m, {}}
        BY DEF Steps
      <4> HIDE DEF m, n
      <4>3. n \in 0..n /\ n \notin -1..m /\ n \notin 0..m
        BY <2>1, <4>1
      <4>4. n \notin Steps(DefiningOp(d, c))
        BY <4>2, <4>3
      <4> QED
        BY <1>3, <2>1, <4>3, <4>4
    <3> QED
      BY <1>7, <3>1, <3>2, <3>3
  <2>3. Open(d) # Open(b)
    BY <1>2, <1>7, <2>2
  <2>4. Cardinality(Open(d)) # Cardinality(Open(b))
    BY <1>2, <1>5, <2>3, FS_Subset
  <2> QED
    BY <1>2, <1>3, <1>6, <2>4
<1> QED
  BY <1>2, <1>3, <1>6, <1>7

\* Every rewrite of a concatenation.
LEMMA RewrittenFacts ==
  ASSUME Sound(block), NEW c \in Rewritable
  PROVE  /\ Turned(block, Rewritten(c))
         /\ Cardinality(Open(Rewritten(c))) < Cardinality(Open(block))
         /\ Current \notin {"dot-to-function-call", "gml-st-reuse-output-tensor"}
PROOF
<1>1. \A op : \A v \in OpsOf(op) : v \in NumbersOf(block) /\ DefiningOp(block, v).op = op
  BY DEF OpsOf, NumbersOf
<1>2. CASE Current = "thlo-legalize-concat"
  <2>1. c \in OpsOf("thlo.concatenate") /\ Rewritten(c) = LegalizeConcat(block, c)
    BY <1>2 DEF Rewritable, Rewritten
  <2>2. c \in NumbersOf(block) /\ DefiningOp(block, c).op = "thlo.concatenate" /\ DefiningOp(block, c).op \in Concats
    BY <1>1, <2>1 DEF Concats
  <2>3. /\ Turned(block, Rewritten(c))
        /\ DefiningOp(Rewritten(c), c).op = "concat"
    BY <2>1, <2>2, LegalizeFacts
  <2> QED
    BY <1>1, <1>2, <2>2, <2>3, FewerFacts
<1>3. CASE Current = "simplify-tensor-concat"
  <2>1. /\ c \in OpsOf("concat") /\ Rewritten(c) = SimplifyConcat(block, c)
        /\ SimplifiesConcat(block, c)
    BY <1>3 DEF Rewritable, Rewritten
  <2>2. c \in NumbersOf(block) /\ DefiningOp(block, c).op = "concat" /\ DefiningOp(block, c).op \in Concats
    BY <1>1, <2>1 DEF Concats
  <2>3. /\ Turned(block, Rewritten(c))
        /\ c \in NumbersOf(Rewritten(c)) =>
             Len(DefiningOp(Rewritten(c), c).in) < Len(DefiningOp(block, c).in)
    BY <2>1, <2>2, SimplifyFacts
  <2> QED
    BY <1>1, <1>3, <2>2, <2>3, FewerFacts
<1>4. CASE Current = "concat-removal"
  <2>1. c \in OpsOf("concat") /\ Rewritten(c) = ConcatRemoval(block, c)
    BY <1>4 DEF Rewritable, Rewritten
  <2>2. c \in NumbersOf(block) /\ DefiningOp(block, c).op = "concat" /\ DefiningOp(block, c).op \in Concats
    BY <1>1, <2>1 DEF Concats
  <2>3. /\ Turned(block, Rewritten(c))
        /\ c \notin NumbersOf(Rewritten(c))
    BY <2>1, <2>2, RemovalFacts
  <2> QED
    BY <1>1, <1>4, <2>2, <2>3, FewerFacts
<1>5. CASE Current = "decompose-tensor-concat"
  <2>1. c \in OpsOf("concat") /\ Rewritten(c) = DecomposeConcat(block, c)
    BY <1>5 DEF Rewritable, Rewritten
  <2>2. c \in NumbersOf(block) /\ DefiningOp(block, c).op = "concat" /\ DefiningOp(block, c).op \in Concats
    BY <1>1, <2>1 DEF Concats
  <2>3. /\ Turned(block, Rewritten(c))
        /\ c \notin NumbersOf(Rewritten(c))
    BY <2>1, <2>2, DecomposeFacts
  <2> QED
    BY <1>1, <1>5, <2>2, <2>3, FewerFacts
<1> QED
  BY <1>2, <1>3, <1>4, <1>5 DEF Rewritable

\* The invariant holds of the block as it is given.
LEMMA TensorInit ==
  ASSUME DistinctOperands, Init
  PROVE  TensorInv
PROOF
<1>1. request \in Pipelines /\ block = request.block /\ Sound(block)
  BY GivenFacts DEF Init
<1>2. Turned(block, block)
  BY <1>1, ExtendsFacts, TurnedFacts
<1>3. Limit \in Nat
  BY <1>1, <1>2, LimitFacts DEF Limit
<1>4. pass \in 0..Len(request.passes)
  <2>1. request.passes \in Seq(ToSet(request.passes))
    BY <1>1, PipelinesAssumption
  <2>2. Len(request.passes) \in Nat
    BY <2>1, LenProperties
  <2> QED
    BY <2>2 DEF Init
<1>5. WalkInv
  <2>1. todo = <<>> /\ matmul_idx = 0
    BY DEF Init
  <2>2. Once(<< >>)
    BY DEF Once
  <2> QED
    BY <1>3, <2>1, <2>2 DEF WalkInv
<1> QED
  BY <1>1, <1>2, <1>4, <1>5 DEF Init, TensorInv

\* Every step keeps it.
LEMMA TensorStep ==
  ASSUME TensorInv, [Next]_vars
  PROVE  TensorInv'
PROOF
<1>1. /\ request \in Pipelines /\ pass \in 0..Len(request.passes) /\ failed \in BOOLEAN
      /\ Sound(request.block) /\ Turned(request.block, block) /\ Sound(block)
      /\ request.block.next \in Nat /\ Len(request.passes) \in Nat
  <2>1. request \in Pipelines /\ Sound(request.block)
    BY DEF TensorInv
  <2>2. request.passes \in Seq(ToSet(request.passes))
    BY <2>1, PipelinesAssumption
  <2> QED
    BY <2>1, <2>2, NextFacts, LenProperties DEF TensorInv, Turned
<1>2. /\ todo \in Seq(NumbersOf(block)) /\ Once(todo) /\ matmul_idx \in 0..Limit /\ Limit \in Nat
      /\ Len(DotsOf(block)) \in Nat /\ Len(DotsOf(block)) <= Limit
  BY <1>1, LimitFacts DEF TensorInv, WalkInv, Limit
<1>3. CASE NextPass
  <2>1. /\ request' = request /\ block' = block /\ failed' = failed /\ matmul_idx' = 0
        /\ pass' = pass + 1 /\ pass # Len(request.passes) /\ Limit' = Limit
    BY <1>3 DEF NextPass, Ended, Limit
  <2>2. pass' \in 0..Len(request.passes)
    BY <1>1, <2>1
  <2>3. todo' = CASE Current' = "dot-to-function-call" -> DotsOf(block)
                  [] Current' = "gml-st-reuse-output-tensor" -> FusionsOf(block)
                  [] OTHER -> <<>>
    BY <1>3 DEF NextPass
  <2>4. WalkInv'
    <3> DEFINE cur == Current'
    <3>1. CASE cur = "dot-to-function-call"
      <4>1. todo' = DotsOf(block)
        BY <2>3, <3>1
      <4>2. /\ todo' \in Seq(NumbersOf(block)) /\ Once(todo')
            /\ \A v \in ToSet(todo') : DefiningOp(block, v).op \in Dots
        BY <1>1, <4>1, DotsFacts DEF DotsIn
      <4>3. matmul_idx' \in 0..Limit /\ matmul_idx' + Len(todo') <= Limit
        BY <1>2, <2>1, <4>1
      <4> QED
        BY <2>1, <3>1, <4>2, <4>3 DEF WalkInv
    <3>2. CASE cur = "gml-st-reuse-output-tensor"
      <4>1. todo' = FusionsOf(block)
        BY <2>3, <3>2
      <4>2. /\ todo' \in Seq(NumbersOf(block)) /\ Once(todo')
            /\ \A v \in ToSet(todo') : DefiningOp(block, v).op = "fusion"
        BY <1>1, <4>1, FusionsFacts
      <4>3. matmul_idx' \in 0..Limit
        BY <1>2, <2>1
      <4> QED
        BY <2>1, <3>2, <4>2, <4>3 DEF WalkInv
    <3>3. CASE cur \notin {"dot-to-function-call", "gml-st-reuse-output-tensor"}
      <4>1. todo' = <<>>
        BY <2>3, <3>3
      <4>2. matmul_idx' \in 0..Limit /\ Once(<< >>)
        BY <1>2, <2>1 DEF Once
      <4> QED
        BY <2>1, <4>1, <4>2 DEF WalkInv
    <3> HIDE DEF cur
    <3> QED
      BY <3>1, <3>2, <3>3
  <2> QED
    BY <1>1, <2>1, <2>2, <2>4 DEF TensorInv
<1>4. CASE Rewrite
  <2>1. /\ request' = request /\ pass' = pass /\ todo' = todo /\ matmul_idx' = matmul_idx
        /\ failed' = failed /\ Limit' = Limit
    BY <1>4 DEF Rewrite, Limit
  <2>2. PICK c \in Rewritable : block' = Rewritten(c)
    BY <1>4 DEF Rewrite
  <2>3. /\ Turned(block, block')
        /\ Current \notin {"dot-to-function-call", "gml-st-reuse-output-tensor"}
    BY <1>1, <2>2, RewrittenFacts
  <2>4. Turned(request.block, block')
    BY <1>1, <2>3, TurnedOn
  <2>5. todo = <<>>
    BY <2>3 DEF TensorInv, WalkInv
  <2>6. WalkInv'
    BY <1>2, <2>1, <2>5 DEF WalkInv
  <2> QED
    BY <1>1, <2>1, <2>4, <2>6 DEF TensorInv
<1>5. CASE VisitDot
  <2> DEFINE v == Head(todo)
             o == DefiningOp(block, v)
             lacks == EntryLacks(block, o, request.selector, matmul_idx)
             types == IF lacks THEN {InvalidType(o)}
                      ELSE MatmulTypes(block, o, request.selector, matmul_idx)
  <2>1. /\ todo # <<>> /\ Current = "dot-to-function-call" /\ Current' = Current
        /\ request' = request /\ pass' = pass /\ todo' = Tail(todo) /\ Limit' = Limit
    BY <1>5 DEF VisitDot, Limit, Current
  <2>2. /\ matmul_idx' = NextIdx(block, o, request.selector, matmul_idx)
        /\ \E type \in types :
             /\ failed' = \/ lacks \/ TypesUnknown(block, o)
                          \/ Replaced(block, o, type) /\ CannotCall(block, o, type)
             /\ block' = IF Replaced(block, o, type) /\ ~failed'
                         THEN CallInstead(block, o, type) ELSE block
    BY <1>5 DEF VisitDot
  <2>3. failed' \in BOOLEAN
    BY <2>2
  <2>4. matmul_idx' \in {matmul_idx, matmul_idx + 1}
    BY <2>2 DEF NextIdx
  <2>5. PICK type : block' = CallInstead(block, o, type) \/ block' = block
    BY <2>2
  <2> HIDE DEF lacks, types
  <2>6. /\ v \in NumbersOf(block) /\ v \in ToSet(todo)
        /\ todo' \in Seq(NumbersOf(block) \ {v}) /\ Once(todo')
        /\ Len(todo') + 1 = Len(todo) /\ Len(todo') \in Nat
        /\ ToSet(todo') \subseteq ToSet(todo)
    BY <1>2, <2>1, TailFacts
  <2>7. /\ matmul_idx + Len(todo) <= Limit
        /\ \A u \in ToSet(todo) : DefiningOp(block, u).op \in Dots
    BY <2>1 DEF TensorInv, WalkInv
  <2>8. DefiningOp(block, v).op # "arg"
    BY <2>6, <2>7 DEF Dots
  <2>9. /\ matmul_idx' \in 0..Limit /\ matmul_idx' + Len(todo') <= Limit
    BY <1>2, <2>4, <2>6, <2>7
  <2>10. CASE block' = block
    <3>1. NumbersOf(block) \ {v} \subseteq NumbersOf(block)
      OBVIOUS
    <3>2. todo' \in Seq(NumbersOf(block))
      BY <2>6, <3>1, SeqMonotonic
    <3>3. WalkInv'
      BY <2>1, <2>6, <2>7, <2>9, <2>10, <3>2 DEF WalkInv
    <3> QED
      BY <1>1, <2>1, <2>3, <2>10, <3>3 DEF TensorInv
  <2>11. CASE block' = CallInstead(block, o, type)
    <3>1. Replaces(block, block', v)
      BY <1>1, <2>6, <2>8, <2>11, CallInsteadFacts
    <3>2. Turned(block, block')
      BY <1>1, <3>1, TurnedFacts
    <3>3. Turned(request.block, block')
      BY <1>1, <3>2, TurnedOn
    <3>4. todo' \in Seq(NumbersOf(block'))
      BY <2>6, <3>1, SeqMonotonic DEF Replaces
    <3>5. \A u \in ToSet(todo') : u \in NumbersOf(block') /\ u \in NumbersOf(block)
      BY <2>6, <3>4, ElementFacts
    <3>6. \A u \in ToSet(todo') : DefiningOp(block', u).op \in Dots
      BY <2>6, <2>7, <3>1, <3>5 DEF Replaces
    <3>7. WalkInv'
      BY <2>1, <2>6, <2>9, <3>4, <3>6 DEF WalkInv
    <3> QED
      BY <1>1, <2>1, <2>3, <3>3, <3>7 DEF TensorInv
  <2> QED
    BY <2>5, <2>10, <2>11
<1>6. CASE VisitFusion
  <2> DEFINE v == Head(todo)
  <2>1. /\ todo # <<>> /\ Current = "gml-st-reuse-output-tensor" /\ Current' = Current
        /\ request' = request /\ pass' = pass /\ todo' = Tail(todo) /\ Limit' = Limit
        /\ matmul_idx' = matmul_idx /\ failed' = failed
        /\ block' = ReuseOutputTensor(block, v)
    BY <1>6 DEF VisitFusion, Limit, Current
  <2>2. /\ v \in NumbersOf(block) /\ v \in ToSet(todo)
        /\ todo' \in Seq(NumbersOf(block) \ {v}) /\ Once(todo')
        /\ ToSet(todo') \subseteq ToSet(todo)
    BY <1>2, <2>1, TailFacts
  <2>3. \A u \in ToSet(todo) : DefiningOp(block, u).op = "fusion"
    BY <2>1 DEF TensorInv, WalkInv
  <2>4. DefiningOp(block, v).op \in DestinationStyle
    BY <2>2, <2>3 DEF DestinationStyle, Kernels
  <2>5. /\ Turned(block, block') /\ Where(block, block')
        /\ \A u \in NumbersOf(block) : DefiningOp(block', u).op = DefiningOp(block, u).op
    BY <1>1, <2>1, <2>2, <2>4, ReuseFacts
  <2>6. Turned(request.block, block')
    BY <1>1, <2>5, TurnedOn
  <2>7. todo' \in Seq(NumbersOf(block'))
    <3>1. NumbersOf(block) \ {v} \subseteq NumbersOf(block')
      BY <2>5 DEF Where
    <3> QED
      BY <2>2, <3>1, SeqMonotonic
  <2>8. \A u \in ToSet(todo') : u \in NumbersOf(block)
    BY <2>2, ElementFacts
  <2>9. \A u \in ToSet(todo') : DefiningOp(block', u).op = "fusion"
    BY <2>2, <2>3, <2>5, <2>8
  <2>10. WalkInv'
    BY <1>2, <2>1, <2>2, <2>7, <2>9 DEF WalkInv
  <2> QED
    BY <1>1, <2>1, <2>6, <2>10 DEF TensorInv
<1>7. CASE UNCHANGED vars
  <2>1. /\ request' = request /\ pass' = pass /\ block' = block /\ todo' = todo
        /\ matmul_idx' = matmul_idx /\ failed' = failed /\ Current' = Current /\ Limit' = Limit
    BY <1>7 DEF vars, Current, Limit
  <2> QED
    BY <2>1 DEF TensorInv, WalkInv
<1> QED
  BY <1>3, <1>4, <1>5, <1>6, <1>7 DEF Next

\* A walk turns the block into another one too.
LEMMA VisitFacts ==
  ASSUME TensorInv, VisitDot \/ VisitFusion, Head(todo) \in NumbersOf(block),
         Head(todo) \in ToSet(todo)
  PROVE  Turned(block, block')
PROOF
<1> DEFINE v == Head(todo)
<1>1. Sound(block)
  BY DEF TensorInv, Turned
<1>2. Turned(block, block)
  BY <1>1, ExtendsFacts, TurnedFacts
<1>3. CASE VisitDot
  <2>1. DefiningOp(block, v).op \in Dots
    BY <1>3 DEF VisitDot, TensorInv, WalkInv
  <2>2. DefiningOp(block, v).op # "arg"
    BY <2>1 DEF Dots
  <2>3. block' = block \/ \E type : block' = CallInstead(block, DefiningOp(block, v), type)
    BY <1>3 DEF VisitDot
  <2> QED
    BY <1>1, <1>2, <2>2, <2>3, CallInsteadFacts, TurnedFacts
<1>4. CASE VisitFusion
  <2>1. DefiningOp(block, v).op = "fusion"
    BY <1>4 DEF VisitFusion, TensorInv, WalkInv
  <2>2. DefiningOp(block, v).op \in DestinationStyle
    BY <2>1 DEF DestinationStyle, Kernels
  <2>3. block' = ReuseOutputTensor(block, v)
    BY <1>4 DEF VisitFusion
  <2> QED
    BY <1>1, <2>2, <2>3, ReuseFacts
<1> QED
  BY <1>3, <1>4

\* The invariant holds throughout every pipeline of passes.
THEOREM TensorInvariant ==
  ASSUME DistinctOperands
  PROVE  Spec => []TensorInv
PROOF
<1>1. Init => TensorInv
  BY TensorInit
<1>2. TensorInv /\ [Next]_vars => TensorInv'
  BY TensorStep
<1> QED
  BY <1>1, <1>2, PTL DEF Spec

\* Whatever the blocks, the passes and the selector: after every single rewrite each operation
\* stands below all it reads, also the results of concatenations that ConcatRemoval threads
\* through the block (ConcatOpPatterns.cpp) and the calls that take the place of products
\* (dot_to_func_call_pass.cpp).
THEOREM TensorDominated ==
  ASSUME DistinctOperands
  PROVE  Spec => []Dominated
PROOF
<1>1. TensorInv => Dominated
  <2> SUFFICES ASSUME TensorInv, NEW p \in DOMAIN block.ops, NEW v \in ToSet(block.ops[p].in)
               PROVE  \E q \in Positions(block, v) : q < p
    BY DEF Dominated, Dominates
  <2>1. Sound(block) /\ Arranged(block)
    BY DEF TensorInv, Turned, Sound
  <2> DEFINE u == block.ops[p].id
  <2>2. u \in NumbersOf(block) /\ Position(block, u) = p /\ DefiningOp(block, u) = block.ops[p]
    BY <2>1, PositionFacts
  <2>3. v \in NumbersOf(block) /\ Position(block, v) < p
    BY <2>1, <2>2, OperandFacts
  <2>4. Position(block, v) \in DOMAIN block.ops /\ block.ops[Position(block, v)].id = v
    BY <2>1, <2>3, PositionFacts
  <2> QED
    BY <2>3, <2>4 DEF Positions
<1> QED
  BY <1>1, TensorInvariant, PTL

\* Every operation keeps a number of its own, walks come only to operations that are still
\* there, and a pass asks the selector for no more entries than the block has products.
THEOREM TensorTypeOK ==
  ASSUME DistinctOperands
  PROVE  Spec => []TypeOK
PROOF
<1>1. TensorInv => TypeOK
  <2> SUFFICES ASSUME TensorInv PROVE TypeOK
    OBVIOUS
  <2> DEFINE n == Len(block.ops)
             f == [p \in 1..n |-> block.ops[p].id]
  <2>1. Sound(block) /\ Arranged(block)
    BY DEF TensorInv, Turned, Sound
  <2>2. /\ n \in Nat /\ DOMAIN block.ops = 1..n /\ Numbers = NumbersOf(block)
        /\ \A v \in NumbersOf(block) : v \in 1..block.next - 1
        /\ \A p, q \in 1..n : block.ops[p].id = block.ops[q].id => p = q
    <3>1. n \in Nat /\ DOMAIN block.ops = 1..n
      BY <2>1, PositionFacts
    <3> QED
      BY <2>1, <3>1 DEF Numbers, NumbersOf, Arranged
  <2>3. f \in Bijection(1..n, Numbers)
    <3>1. f \in [1..n -> Numbers] /\ IsInjective(f) /\ \A v \in Numbers : \E p \in 1..n : f[p] = v
      BY <2>2 DEF Numbers, IsInjective
    <3> HIDE DEF f
    <3> QED
      BY <3>1 DEF Bijection, Injection, Surjection
  <2> HIDE DEF f, n
  <2>4. Cardinality(Numbers) = n
    <3>1. IsFiniteSet(1..n) /\ Cardinality(1..n) = n
      BY <2>2, FS_Interval
    <3>2. ExistsBijection(1..n, Numbers)
      BY <2>3 DEF ExistsBijection
    <3> QED
      BY <3>1, <3>2, FS_Bijection
  <2>5. ToSet(todo) \subseteq Numbers
    BY <2>2, ElementFacts DEF TensorInv, WalkInv
  <2>6. matmul_idx \in 0..Len(DotsOf(request.block))
    BY DEF TensorInv, WalkInv, Limit
  <2> QED
    BY <2>2, <2>4, <2>5, <2>6 DEF TensorInv, TypeOK, n
<1> QED
  BY <1>1, TensorInvariant, PTL

\* Every pass over concatenations ends, whichever the greedy driver takes next, and every walk:
\* a rewrite leaves fewer steps than there were, whatever the block (the canonicalization of
\* the slices in ConcatOpPatterns.cpp too, which leaves its concatenation in place).
THEOREM TensorEnds ==
  ASSUME DistinctOperands
  PROVE  Spec => Ends
PROOF
<1>1. TensorInv /\ [Next]_vars => [pass' = pass => Left' < Left]_vars
  <2> SUFFICES ASSUME TensorInv, Next, pass' = pass, ~UNCHANGED vars PROVE Left' < Left
    OBVIOUS
  <2> DEFINE m == Cardinality(Open(block))
             n == Cardinality(Open(block'))
  <2>1. Sound(block) /\ todo \in Seq(NumbersOf(block)) /\ Once(todo)
    BY DEF TensorInv, WalkInv, Turned
  <2>2. Left = m + Len(todo) /\ Left' = n + Len(todo') /\ Len(todo) \in Nat
    BY <2>1, LenProperties DEF Left
  <2>3. CASE NextPass
    <3>1. pass \in Nat /\ pass' = pass + 1
      <4>1. request.passes \in Seq(ToSet(request.passes))
        BY PipelinesAssumption DEF TensorInv
      <4> QED
        BY <2>3, <4>1, LenProperties DEF TensorInv, NextPass
    <3> QED
      BY <3>1
  <2>4. CASE Rewrite
    <3>1. todo' = todo /\ \E c \in Rewritable : block' = Rewritten(c)
      BY <2>4 DEF Rewrite
    <3>2. Turned(block, block') /\ n < m
      BY <2>1, <3>1, RewrittenFacts
    <3>3. m \in Nat /\ n \in Nat
      BY <2>1, <3>2, FewerFacts
    <3> HIDE DEF m, n
    <3> QED
      BY <2>2, <3>1, <3>2, <3>3
  <2>5. CASE VisitDot \/ VisitFusion
    <3>1. todo # <<>> /\ todo' = Tail(todo)
      BY <2>5 DEF VisitDot, VisitFusion
    <3>2. Head(todo) \in NumbersOf(block) /\ Head(todo) \in ToSet(todo)
          /\ Len(todo') + 1 = Len(todo) /\ Len(todo') \in Nat
      BY <2>1, <3>1, TailFacts
    <3>3. Turned(block, block')
      BY <2>1, <2>5, <3>2, VisitFacts
    <3>4. m \in Nat /\ n \in Nat /\ n <= m
      BY <2>1, <3>3, FewerFacts
    <3> HIDE DEF m, n
    <3> QED
      BY <2>2, <3>2, <3>4
  <2>6. ~(Ended /\ UNCHANGED vars)
    OBVIOUS
  <2> QED
    BY <2>3, <2>4, <2>5, <2>6 DEF Next
<1> QED
  BY <1>1, TensorInvariant, PTL DEF Spec, Ends

=============================================================================
