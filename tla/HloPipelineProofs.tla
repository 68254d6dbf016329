--------------------------- MODULE HloPipelineProofs ---------------------------
(***************************************************************************)
(* What a computation is after every rewrite of the passes: one in which   *)
(* operands exist and nothing depends on itself, and in which everything   *)
(* is still there that the pass has yet to come to.  The rewriters are     *)
(* looked at one by one for what they add, what they read and what they    *)
(* take away.  And what the flags are that the text of ANNC_FLAGS leaves.  *)
(***************************************************************************)
EXTENDS HloPipeline, FiniteSetTheorems, SequenceTheorems, TLAPS

------------------------------------------------------------------------------
(* What the operators on a computation leave of it: that it stays one in which operands exist *)
(* and nothing depends on itself, and which of its instructions go.                           *)

\* The instructions that i reads.
Operands(c, i) == ToSet(c.instrs[i].in)

\* No set of instructions but has one that reads none of the set: nothing depends on itself.
Grounded(c) ==
  \A S \in SUBSET Ids(c) : S # {} => \E i \in S : Operands(c, i) \cap S = {}

\* What there is beside the instructions: the next number is above theirs, and the root is one
\* of them.
Framed(c) ==
  /\ DOMAIN c = {"instrs", "root", "next"}
  /\ c.next \in Nat /\ Ids(c) \subseteq 1..c.next - 1
  /\ c.root \in Ids(c)

\* A computation in which each instruction is one, reads what exists, and depends on nothing
\* that depends on it.
Sound(c) ==
  /\ Framed(c)
  /\ \A i \in Ids(c) : IsInstruction(c, i)
  /\ Grounded(c)

\* A set that instructions are not read from outside of.
Closed(c, R) == R \subseteq Ids(c) /\ \A i \in R : Operands(c, i) \subseteq R

\* The instructions of a sound computation are finitely many, numbered below the next one, and
\* read each other.
LEMMA SoundFacts ==
  ASSUME NEW c, Sound(c)
  PROVE  /\ c.next \in Nat /\ IsFiniteSet(Ids(c))
         /\ \A i \in Ids(c) : i \in Nat /\ i < c.next /\ i >= 1
         /\ \A i \in Ids(c) : Operands(c, i) \subseteq Ids(c)
         /\ \A i \in Ids(c) : c.instrs[i].in \in Seq(Ids(c))
PROOF
<1>1. c.next \in Nat /\ Ids(c) \subseteq 1..c.next - 1
  BY DEF Sound, Framed
<1>2. IsFiniteSet(Ids(c))
  <2>1. IsFiniteSet(1..c.next - 1)
    BY <1>1, FS_Interval
  <2> QED
    BY <1>1, <2>1, FS_Subset
<1>3. \A i \in Ids(c) : i \in Nat /\ i < c.next /\ i >= 1
  BY <1>1
<1>4. \A i \in Ids(c) : c.instrs[i].in \in Seq(Ids(c))
  BY DEF Sound, IsInstruction
<1>5. \A i \in Ids(c) : Operands(c, i) \subseteq Ids(c)
  BY <1>4 DEF Operands, ToSet
<1> QED
  BY <1>1, <1>2, <1>3, <1>4, <1>5

------------------------------------------------------------------------------
(* Reached. *)

\* One step of Reached.
WithOperands(c, seen, s) == seen \cup UNION {Operands(c, i) : i \in seen}

\* What Reached grows to.
Over == INSTANCE Recursion WITH Step <- WithOperands

\* What is reached from a set is the smallest closed set around it.
LEMMA ReachedFacts ==
  ASSUME NEW c, Sound(c), NEW from \in SUBSET Ids(c)
  PROVE  /\ from \subseteq Reached(c, from)
         /\ Closed(c, Reached(c, from))
         /\ \A R : Closed(c, R) /\ from \subseteq R => Reached(c, from) \subseteq R
PROOF
<1>1. Over!Grows(c, Ids(c))
  <2>1. \A s \in SUBSET Ids(c) : /\ s \subseteq WithOperands(c, s, s)
                                 /\ WithOperands(c, s, s) \subseteq Ids(c)
    BY SoundFacts DEF WithOperands
  <2> QED
    BY <2>1 DEF Over!Grows
<1>2. Over!IsFiniteSet(Ids(c))
  <2>1. IsFiniteSet(Ids(c))
    BY SoundFacts
  <2> QED
    BY <2>1 DEF IsFiniteSet, Over!IsFiniteSet
<1>3. PICK n, ch : Over!GrowsTo(c, Ids(c), from, n, ch)
  BY <1>1, <1>2, Over!GrowthSteps
<1>4. /\ n \in Nat /\ ch[0] = from
      /\ \A k \in 1..n : ch[k] = WithOperands(c, ch[k - 1], ch[k - 1])
      /\ \A k \in 0..n : ch[k] \subseteq Ids(c)
      /\ Over!Grown(c, Ids(c), from) = ch[n]
      /\ WithOperands(c, ch[n], ch[n]) = ch[n]
  BY <1>3 DEF Over!GrowsTo
<1>5. Reached(c, from) = ch[n]
  <2>1. Reached(c, from) = Over!Grown(c, Ids(c), from)
    BY DEF Reached, Over!Grown, WithOperands, Operands
  <2> QED
    BY <1>4, <2>1
<1>6. Closed(c, ch[n])
  BY <1>4 DEF Closed, WithOperands
<1>7. ASSUME NEW R, Closed(c, R), from \subseteq R
      PROVE  ch[n] \subseteq R
  <2> DEFINE T == {k \in 0..n : ch[k] \subseteq R}
  <2>0. n \in Nat
    BY <1>4
  <2>1. 0 \in T
    BY <1>4, <1>7
  <2>2. ASSUME NEW k \in 1..n, k - 1 \in T
        PROVE  k \in T
    BY <1>4, <1>7, <2>2 DEF Closed, WithOperands
  <2> HIDE DEF T
  <2>3. \A k \in 0..n : k \in T
    BY <2>0, <2>1, <2>2, Over!StepByStep
  <2>4. n \in T
    BY <2>0, <2>3
  <2> QED
    BY <2>4 DEF T
<1>8. from \subseteq ch[n]
  <2> DEFINE T == {k \in 0..n : from \subseteq ch[k]}
  <2>0. n \in Nat
    BY <1>4
  <2>1. 0 \in T
    BY <1>4
  <2>2. ASSUME NEW k \in 1..n, k - 1 \in T
        PROVE  k \in T
    BY <1>4, <2>2 DEF WithOperands
  <2> HIDE DEF T
  <2>3. \A k \in 0..n : k \in T
    BY <2>0, <2>1, <2>2, Over!StepByStep
  <2>4. n \in T
    BY <2>0, <2>3
  <2> QED
    BY <2>4 DEF T
<1> QED
  BY <1>5, <1>6, <1>7, <1>8

\* The ancestors of an instruction are closed and do not include it.
LEMMA AncestorsFacts ==
  ASSUME NEW c, Sound(c), NEW i \in Ids(c)
  PROVE  /\ Operands(c, i) \subseteq Ancestors(c, i)
         /\ Closed(c, Ancestors(c, i))
         /\ i \notin Ancestors(c, i)
         /\ \A R : Closed(c, R) /\ Operands(c, i) \subseteq R => Ancestors(c, i) \subseteq R
PROOF
<1>1. \A x \in Ids(c) : /\ Operands(c, x) \subseteq Ids(c)
                        /\ Operands(c, x) \subseteq Ancestors(c, x)
                        /\ Closed(c, Ancestors(c, x))
                        /\ \A R : Closed(c, R) /\ Operands(c, x) \subseteq R
                                    => Ancestors(c, x) \subseteq R
  <2> TAKE x \in Ids(c)
  <2>1. Operands(c, x) \in SUBSET Ids(c)
    BY SoundFacts
  <2> QED
    BY <2>1, ReachedFacts DEF Ancestors, Operands
<1> DEFINE T == {x \in Ids(c) : i = x \/ i \in Ancestors(c, x)}
<1>2. PICK x \in T : Operands(c, x) \cap T = {}
  <2>1. T \in SUBSET Ids(c) /\ i \in T
    OBVIOUS
  <2> HIDE DEF T
  <2> QED
    BY <2>1 DEF Sound, Grounded
<1> DEFINE R == UNION {{o} \cup Ancestors(c, o) : o \in Operands(c, x)}
<1>3. \A o \in Operands(c, x) : o \in Ids(c) /\ i # o /\ i \notin Ancestors(c, o)
  BY <1>1, <1>2
<1>4. i \notin R
  BY <1>3
<1>5. Closed(c, R)
  <2>1. \A o \in Operands(c, x) : Closed(c, {o} \cup Ancestors(c, o))
    BY <1>1, <1>3 DEF Closed
  <2> QED
    BY <2>1 DEF Closed
<1>6. Operands(c, x) \subseteq R
  OBVIOUS
<1> HIDE DEF R
<1>7. i \notin Ancestors(c, x)
  BY <1>1, <1>4, <1>5, <1>6
<1>8. x = i
  BY <1>2, <1>7
<1> QED
  BY <1>1, <1>7, <1>8

------------------------------------------------------------------------------
(* Selected. *)

\* One step of AtPositions.
Chosen(p, acc, k) == IF k \in p.chosen THEN Append(acc, p.seq[k]) ELSE acc

\* What AtPositions picks.
Choice == INSTANCE Recursion WITH Step <- Chosen

\* The elements come from the chosen positions, one behind the other.
ComesFrom(s, seq, K, pos) ==
  /\ \A j \in 1..Len(s) : pos[j] \in K /\ s[j] = seq[pos[j]]
  /\ \A a, b \in 1..Len(s) : a < b => pos[a] < pos[b]

\* The elements at some positions of a sequence: all of them, and none from another position.
LEMMA AtPositionsFacts ==
  ASSUME NEW S, NEW seq \in Seq(S), NEW K \in SUBSET (1..Len(seq))
  PROVE  /\ AtPositions(seq, K) \in Seq(S)
         /\ \A k \in K : \E j \in 1..Len(AtPositions(seq, K)) : AtPositions(seq, K)[j] = seq[k]
         /\ \E pos : ComesFrom(AtPositions(seq, K), seq, K, pos)
PROOF
<1> DEFINE p == [seq |-> seq, chosen |-> K]
<1>1. AtPositions(seq, K) = Choice!Counted(p, <<>>, Len(seq))
  BY DEF AtPositions, Choice!Counted, Chosen
<1>2. \A acc : \A k \in 1..Len(seq) :
        Chosen(p, acc, k) = IF k \in K THEN Append(acc, seq[k]) ELSE acc
  BY DEF Chosen
<1>3. \A s, pos : Choice!ComesFrom(s, seq, K, pos) => ComesFrom(s, seq, K, pos)
  BY DEF ComesFrom, Choice!ComesFrom
<1> DEFINE t == Choice!Counted(p, <<>>, Len(seq))
<1>4. /\ t \in Seq(S)
      /\ \A k \in K : \E j \in 1..Len(t) : t[j] = seq[k]
      /\ \E pos : Choice!ComesFrom(t, seq, K, pos)
  <2> HIDE DEF p
  <2> QED
    BY <1>2, Choice!ChosenSteps
<1> HIDE DEF p, t
<1> QED
  BY <1>1, <1>3, <1>4 DEF t

\* users() returns those that read an instruction, all of them, and each once.
LEMMA UsersFacts ==
  ASSUME NEW c, Sound(c), NEW i
  PROVE  /\ Users(c, i) \in Seq(Ids(c))
         /\ \A j \in 1..Len(Users(c, i)) : /\ Users(c, i)[j] \in Ids(c)
                                           /\ i \in Operands(c, Users(c, i)[j])
         /\ \A u \in Ids(c) : i \in Operands(c, u) => u \in ToSet(Users(c, i))
         /\ \A a, b \in 1..Len(Users(c, i)) : a < b => Users(c, i)[a] # Users(c, i)[b]
PROOF
<1> DEFINE seq == [u \in 1..c.next - 1 |-> u]
           K == {u \in DOMAIN seq : seq[u] \in Ids(c) /\ Uses(c, seq[u], i)}
           s == AtPositions(seq, K)
<1>1. Users(c, i) = s
  BY DEF Users, Selected
<1>2. c.next \in Nat /\ \A u \in Ids(c) : u \in Nat /\ u >= 1 /\ u < c.next
  BY SoundFacts
<1>3. PICK n \in Nat : 1..c.next - 1 = 1..n
  <2>1. CASE c.next = 0
    <3>1. 1..c.next - 1 = 1..0
      BY <2>1
    <3> QED
      BY <3>1
  <2>2. CASE c.next # 0
    BY <1>2, <2>2
  <2> QED
    BY <2>1, <2>2
<1>4. seq \in Seq(1..n) /\ Len(seq) = n /\ DOMAIN seq = 1..n /\ \A u \in 1..n : seq[u] = u
  <2>1. seq = [u \in 1..n |-> u]
    BY <1>3, Zenon
  <2> HIDE DEF seq
  <2> QED
    BY <2>1
<1> HIDE DEF seq
<1>15. \A u : Uses(c, u, i) <=> i \in Operands(c, u)
  BY DEF Uses, Operands, ToSet
<1>5. K \in SUBSET (1..Len(seq)) /\ \A u \in K : u \in Ids(c) /\ i \in Operands(c, u)
  BY <1>4, <1>15
<1>6. \A u \in Ids(c) : i \in Operands(c, u) => u \in K
  <2>1. \A u \in Ids(c) : u \in 1..n
    BY <1>2, <1>3
  <2> QED
    BY <1>4, <1>15, <2>1
<1> HIDE DEF K
<1>7. /\ s \in Seq(1..n)
      /\ \A k \in K : \E j \in 1..Len(s) : s[j] = seq[k]
      /\ \E pos : ComesFrom(s, seq, K, pos)
  BY <1>4, <1>5, AtPositionsFacts
<1>8. PICK pos : ComesFrom(s, seq, K, pos)
  BY <1>7
<1> HIDE DEF s
<1>9. Len(s) \in Nat /\ DOMAIN s = 1..Len(s)
  BY <1>7, LenProperties
<1>10. \A j \in 1..Len(s) : s[j] = pos[j] /\ pos[j] \in K
  BY <1>4, <1>5, <1>8 DEF ComesFrom
<1>11. s \in Seq(Ids(c))
  BY <1>5, <1>7, <1>9, <1>10
<1>12. \A j \in 1..Len(s) : s[j] \in Ids(c) /\ i \in Operands(c, s[j])
  BY <1>5, <1>10
<1>13. \A u \in Ids(c) : i \in Operands(c, u) => u \in ToSet(s)
  <2> SUFFICES ASSUME NEW u \in Ids(c), i \in Operands(c, u)
               PROVE  \E j \in DOMAIN s : s[j] = u
    BY DEF ToSet
  <2> QED
    BY <1>4, <1>5, <1>6, <1>7, <1>9
<1>14. \A a, b \in 1..Len(s) : a < b => s[a] # s[b]
  <2>1. \A a, b \in 1..Len(s) : a < b => pos[a] < pos[b]
    BY <1>8 DEF ComesFrom
  <2>2. \A a \in 1..Len(s) : pos[a] \in Nat
    BY <1>2, <1>5, <1>10
  <2>3. \A x \in Nat : ~(x < x)
    OBVIOUS
  <2> QED
    BY <1>10, <2>1, <2>2, <2>3
<1> QED
  BY <1>1, <1>11, <1>12, <1>13, <1>14

------------------------------------------------------------------------------
(* Add. *)

\* AddInstruction leaves what is there alone and numbers what is new in the order it is added.
LEMMA AddFacts ==
  ASSUME NEW c, Framed(c), NEW added, NEW n \in Nat, Len(added) = n
  PROVE  /\ DOMAIN Add(c, added) = {"instrs", "root", "next"}
         /\ Ids(Add(c, added)) = Ids(c) \cup c.next..c.next + n - 1
         /\ Add(c, added).next = c.next + n /\ Add(c, added).root = c.root
         /\ \A j \in Ids(c) : Add(c, added).instrs[j] = c.instrs[j]
         /\ \A k \in 1..n : Add(c, added).instrs[c.next + k - 1] = added[k]
PROOF
<1>1. DOMAIN c = {"instrs", "root", "next"} /\ c.next \in Nat
  BY DEF Framed
<1>2. \A i \in Ids(c) : i \in Nat /\ i < c.next
  BY DEF Framed
<1> DEFINE d == Add(c, added)
           all == Ids(c) \cup c.next..c.next + n - 1
<1>3. /\ DOMAIN d = {"instrs", "root", "next"}
      /\ d.instrs = [i \in all |-> IF i < c.next THEN c.instrs[i] ELSE added[i - c.next + 1]]
      /\ d.next = c.next + n /\ d.root = c.root
  BY <1>1 DEF Add
<1> HIDE DEF d
<1>4. \A j \in Ids(c) : d.instrs[j] = c.instrs[j]
  BY <1>2, <1>3
<1>5. ASSUME NEW k \in 1..n
      PROVE  d.instrs[c.next + k - 1] = added[k]
  <2>1. /\ c.next + k - 1 \in c.next..c.next + n - 1 /\ ~(c.next + k - 1 < c.next)
        /\ (c.next + k - 1) - c.next + 1 = k
    BY <1>1
  <2> QED
    BY <1>3, <2>1
<1> QED
  BY <1>3, <1>4, <1>5 DEF d, Ids

\* New instructions read old ones and those before them.
LEMMA AddSound ==
  ASSUME NEW c, Sound(c), NEW added, NEW n \in Nat, Len(added) = n,
         \A k \in 1..n : /\ DOMAIN added[k] = Fields /\ TakesAsMany(added[k])
                         /\ added[k].in \in Seq(Ids(c) \cup c.next..c.next + k - 2)
  PROVE  Sound(Add(c, added))
PROOF
<1> DEFINE d == Add(c, added)
<1>1. /\ DOMAIN d = {"instrs", "root", "next"}
      /\ Ids(d) = Ids(c) \cup c.next..c.next + n - 1
      /\ d.next = c.next + n /\ d.root = c.root
      /\ \A j \in Ids(c) : d.instrs[j] = c.instrs[j]
      /\ \A k \in 1..n : d.instrs[c.next + k - 1] = added[k]
  BY AddFacts DEF Sound
<1>2. c.next \in Nat /\ \A i \in Ids(c) : i \in Nat /\ i < c.next /\ i >= 1
  BY SoundFacts
<1> HIDE DEF d
<1>3. c.next >= 1
  <2>1. c.root \in Ids(c)
    BY DEF Sound, Framed
  <2> QED
    BY <1>2, <2>1
<1>4. Framed(d)
  <2>1. c.root \in Ids(c)
    BY DEF Sound, Framed
  <2>2. \A i \in Ids(d) : i \in 1..d.next - 1
    BY <1>1, <1>2, <1>3
  <2> QED
    BY <1>1, <1>2, <2>1, <2>2 DEF Framed
<1>5. \A i \in Ids(d) : i \in Ids(c) \/ \E k \in 1..n : i = c.next + k - 1
  <2> TAKE i \in Ids(d)
  <2>1. CASE i \in c.next..c.next + n - 1
    <3>1. i - c.next + 1 \in 1..n /\ i = c.next + (i - c.next + 1) - 1
      BY <1>2, <2>1
    <3> QED
      BY <3>1
  <2> QED
    BY <1>1, <2>1
<1>6. \A k \in 1..n : Ids(c) \cup c.next..c.next + k - 2 \subseteq Ids(d)
  BY <1>1, <1>2
<1>7. ASSUME NEW i \in Ids(d)
      PROVE  IsInstruction(d, i)
  <2>1. CASE i \in Ids(c)
    <3>1. IsInstruction(c, i)
      BY <2>1 DEF Sound
    <3>2. d.instrs[i] = c.instrs[i] /\ Ids(c) \subseteq Ids(d)
      BY <1>1, <2>1
    <3>3. c.instrs[i].in \in Seq(Ids(d))
      BY <3>1, <3>2 DEF IsInstruction
    <3> QED
      BY <3>1, <3>2, <3>3 DEF IsInstruction
  <2>2. CASE \E k \in 1..n : i = c.next + k - 1
    <3>1. PICK k \in 1..n : i = c.next + k - 1
      BY <2>2
    <3>2. d.instrs[i] = added[k]
      BY <1>1, <3>1
    <3>3. added[k].in \in Seq(Ids(d))
      <4> DEFINE S == Ids(c) \cup c.next..c.next + k - 2
      <4>1. S \subseteq Ids(d) /\ added[k].in \in Seq(S)
        BY <1>6
      <4> HIDE DEF S
      <4> QED
        BY <4>1
    <3> QED
      BY <3>2, <3>3 DEF IsInstruction
  <2> QED
    BY <1>5, <2>1, <2>2
<1>8. ASSUME NEW S \in SUBSET Ids(d), S # {}
      PROVE  \E i \in S : Operands(d, i) \cap S = {}
  <2>1. CASE S \cap Ids(c) # {}
    <3>1. PICK i \in S \cap Ids(c) : Operands(c, i) \cap (S \cap Ids(c)) = {}
      BY <2>1 DEF Sound, Grounded
    <3>2. Operands(d, i) = Operands(c, i) /\ Operands(c, i) \subseteq Ids(c)
      BY <1>1, <3>1, SoundFacts DEF Operands
    <3> QED
      BY <3>1, <3>2
  <2>2. CASE S \cap Ids(c) = {}
    <3> DEFINE T == {k \in 1..n : c.next + k - 1 \in S}
    <3>1. T \in SUBSET (1..n) /\ T # {}
      <4>1. PICK i \in S : i \in Ids(d) /\ i \notin Ids(c)
        BY <1>8, <2>2
      <4>2. PICK k \in 1..n : i = c.next + k - 1
        BY <1>5, <4>1
      <4> QED
        BY <4>1, <4>2
    <3> HIDE DEF T
    <3>2. PICK k \in T : \A x \in T : k <= x
      BY <3>1, Over!FirstExists
    <3>3. k \in 1..n /\ c.next + k - 1 \in S /\ d.instrs[c.next + k - 1] = added[k]
      BY <1>1, <3>2 DEF T
    <3>4. Operands(d, c.next + k - 1) \subseteq Ids(c) \cup c.next..c.next + k - 2
      <4> DEFINE A == Ids(c) \cup c.next..c.next + k - 2
      <4>1. added[k].in \in Seq(A)
        BY <3>3
      <4> HIDE DEF A
      <4>2. Operands(d, c.next + k - 1) \subseteq A
        BY <3>3, <4>1 DEF Operands, ToSet
      <4> QED
        BY <4>2 DEF A
    <3>5. ASSUME NEW o \in c.next..c.next + k - 2, o \in S
          PROVE  FALSE
      <4>1. o - c.next + 1 \in 1..n /\ c.next + (o - c.next + 1) - 1 = o /\ o - c.next + 1 < k
        BY <1>2, <3>3
      <4>2. o - c.next + 1 \in T
        BY <3>5, <4>1 DEF T
      <4> QED
        BY <3>2, <3>3, <4>1, <4>2
    <3> QED
      BY <2>2, <3>3, <3>4, <3>5
  <2> QED
    BY <2>1, <2>2
<1> QED
  BY <1>4, <1>7, <1>8 DEF Sound, Grounded, d

------------------------------------------------------------------------------
(* Without. *)

\* A removal leaves the rest alone.
LEMMA WithoutFacts ==
  ASSUME NEW c, Framed(c), NEW gone
  PROVE  /\ DOMAIN Without(c, gone) = {"instrs", "root", "next"}
         /\ Ids(Without(c, gone)) = Ids(c) \ gone
         /\ Without(c, gone).next = c.next /\ Without(c, gone).root = c.root
         /\ \A j \in Ids(c) \ gone : Without(c, gone).instrs[j] = c.instrs[j]
PROOF
  BY DEF Framed, Without, Ids

\* What goes is read by nothing that stays.
LEMMA WithoutSound ==
  ASSUME NEW c, Sound(c), NEW gone, c.root \notin gone,
         \A j \in Ids(c) \ gone : Operands(c, j) \cap gone = {}
  PROVE  Sound(Without(c, gone))
PROOF
<1> DEFINE d == Without(c, gone)
<1>1. /\ DOMAIN d = {"instrs", "root", "next"}
      /\ Ids(d) = Ids(c) \ gone
      /\ d.next = c.next /\ d.root = c.root
      /\ \A j \in Ids(c) \ gone : d.instrs[j] = c.instrs[j]
  BY WithoutFacts DEF Sound
<1> HIDE DEF d
<1>2. Framed(d)
  BY <1>1 DEF Framed, Sound
<1>3. \A i \in Ids(d) : /\ i \in Ids(c) /\ d.instrs[i] = c.instrs[i]
                        /\ Operands(d, i) = Operands(c, i)
  BY <1>1 DEF Operands
<1>4. ASSUME NEW i \in Ids(d)
      PROVE  IsInstruction(d, i)
  <2>1. IsInstruction(c, i)
    BY <1>3 DEF Sound
  <2>2. c.instrs[i].in \in Seq(Ids(c)) /\ DOMAIN c.instrs[i].in = 1..Len(c.instrs[i].in)
    BY <2>1, LenProperties DEF IsInstruction
  <2>3. \A k \in DOMAIN c.instrs[i].in : c.instrs[i].in[k] \in Ids(d)
    <3>1. Operands(c, i) \subseteq Ids(c) /\ Operands(c, i) \cap gone = {}
      BY <1>1, <1>3, SoundFacts
    <3> QED
      BY <1>1, <3>1 DEF Operands, ToSet
  <2>4. c.instrs[i].in \in Seq(Ids(d))
    BY <2>2, <2>3
  <2> QED
    BY <1>3, <2>1, <2>4 DEF IsInstruction
<1>5. Grounded(d)
  <2> SUFFICES ASSUME NEW S \in SUBSET Ids(d), S # {}
               PROVE  \E i \in S : Operands(d, i) \cap S = {}
    BY DEF Grounded
  <2>1. S \in SUBSET Ids(c)
    BY <1>1
  <2> QED
    BY <1>3, <2>1 DEF Sound, Grounded
<1> QED
  BY <1>2, <1>4, <1>5 DEF Sound, d

------------------------------------------------------------------------------
(* ReplaceAllUses. *)

\* An instruction is the same but for its operands.
Alike(c, d, j) ==
  /\ DOMAIN d.instrs[j] = DOMAIN c.instrs[j]
  /\ d.instrs[j].op = c.instrs[j].op
  /\ d.instrs[j].control = c.instrs[j].control

\* ReplaceAllUsesWith changes operands only, and not those of the new instruction, which may
\* read the old.
LEMMA ReplaceFacts ==
  ASSUME NEW c, Sound(c), NEW old \in Ids(c), NEW new \in Ids(c)
  PROVE  /\ DOMAIN ReplaceAllUses(c, old, new) = {"instrs", "root", "next"}
         /\ Ids(ReplaceAllUses(c, old, new)) = Ids(c)
         /\ ReplaceAllUses(c, old, new).next = c.next
         /\ ReplaceAllUses(c, old, new).root = IF c.root = old THEN new ELSE c.root
         /\ \A j \in Ids(c) :
              /\ Alike(c, ReplaceAllUses(c, old, new), j)
              /\ ReplaceAllUses(c, old, new).instrs[j].in =
                   IF j = new THEN c.instrs[j].in ELSE ReplaceAll(c.instrs[j].in, old, new)
PROOF
<1> DEFINE d == ReplaceAllUses(c, old, new)
           e(i) == IF i = new THEN c.instrs[i]
                   ELSE [c.instrs[i] EXCEPT !.in = ReplaceAll(@, old, new)]
<1>1. DOMAIN c = {"instrs", "root", "next"}
  BY DEF Sound, Framed
<1>2. /\ DOMAIN d = {"instrs", "root", "next"}
      /\ d.instrs = [i \in Ids(c) |-> e(i)]
      /\ d.next = c.next
      /\ d.root = IF c.root = old THEN new ELSE c.root
  BY <1>1 DEF ReplaceAllUses
<1>3. \A i \in Ids(c) : DOMAIN c.instrs[i] = Fields
  BY DEF Sound, IsInstruction
<1> HIDE DEF d
<1>4. ASSUME NEW j \in Ids(c)
      PROVE  /\ Alike(c, d, j)
             /\ d.instrs[j].in =
                  IF j = new THEN c.instrs[j].in ELSE ReplaceAll(c.instrs[j].in, old, new)
  <2>1. d.instrs[j] = e(j)
    BY <1>2
  <2>2. DOMAIN c.instrs[j] = Fields
    BY <1>3
  <2>3. CASE j = new
    <3>1. d.instrs[j] = c.instrs[j]
      BY <2>1, <2>3
    <3> QED
      BY <2>3, <3>1 DEF Alike
  <2>4. CASE j # new
    <3> DEFINE r == c.instrs[j]
               in == ReplaceAll(c.instrs[j].in, old, new)
    <3>1. d.instrs[j] = [r EXCEPT !.in = in]
      BY <2>1, <2>4
    <3> HIDE DEF in, r
    <3>2. DOMAIN r = Fields
      BY <2>2 DEF r
    <3>3. /\ DOMAIN d.instrs[j] = Fields /\ d.instrs[j].in = in
          /\ d.instrs[j].op = r.op /\ d.instrs[j].control = r.control
      BY <3>1, <3>2 DEF Fields
    <3> QED
      BY <2>4, <3>2, <3>3 DEF Alike, r, in
  <2> QED
    BY <2>3, <2>4
<1> QED
  BY <1>2, <1>4 DEF d, Ids

\* Of the operands the old one becomes the new one.
LEMMA ReplaceOperands ==
  ASSUME NEW c, Sound(c), NEW old \in Ids(c), NEW new \in Ids(c), NEW j \in Ids(c)
  PROVE  /\ ReplaceAllUses(c, old, new).instrs[j].in \in Seq(Ids(c))
         /\ Len(ReplaceAllUses(c, old, new).instrs[j].in) = Len(c.instrs[j].in)
         /\ j = new \/ old \notin Operands(c, j) =>
              /\ ReplaceAllUses(c, old, new).instrs[j].in = c.instrs[j].in
              /\ Operands(ReplaceAllUses(c, old, new), j) = Operands(c, j)
         /\ Operands(ReplaceAllUses(c, old, new), j) \subseteq Operands(c, j) \cup {new}
         /\ \A o \in Operands(c, j) : o # old => o \in Operands(ReplaceAllUses(c, old, new), j)
         /\ old # new /\ j # new => old \notin Operands(ReplaceAllUses(c, old, new), j)
PROOF
<1> DEFINE s == c.instrs[j].in
           n == Len(s)
           d == ReplaceAllUses(c, old, new)
           t == d.instrs[j].in
<1>1. s \in Seq(Ids(c)) /\ n \in Nat /\ DOMAIN s = 1..n /\ \A k \in 1..n : s[k] \in Ids(c)
  BY LenProperties, ElementOfSeq, SoundFacts
<1>2. t = IF j = new THEN s ELSE ReplaceAll(s, old, new)
  BY ReplaceFacts
<1>3. Operands(c, j) = {s[k] : k \in 1..n} /\ Operands(d, j) = {t[k] : k \in DOMAIN t}
  BY <1>1 DEF Operands, ToSet
<1> HIDE DEF s, t, d
<1>4. CASE j = new
  BY <1>1, <1>2, <1>3, <1>4 DEF s, t, d
<1>5. CASE j # new
  <2>1. t = [k \in 1..n |-> IF s[k] = old THEN new ELSE s[k]]
    BY <1>2, <1>5 DEF ReplaceAll
  <2>2. t \in Seq(Ids(c)) /\ Len(t) = n /\ DOMAIN t = 1..n
    BY <1>1, <2>1
  <2>3. ASSUME old \notin Operands(c, j)
        PROVE  t = s
    <3>1. \A k \in 1..n : s[k] # old
      BY <1>3, <2>3
    <3>2. \A k \in 1..n : t[k] = s[k]
      BY <2>1, <3>1
    <3> QED
      BY <1>1, <2>2, <3>2, SeqEqual
  <2>4. Operands(d, j) \subseteq Operands(c, j) \cup {new}
    BY <1>3, <2>1, <2>2
  <2>5. \A o \in Operands(c, j) : o # old => o \in Operands(d, j)
    BY <1>3, <2>1, <2>2
  <2>6. old # new => old \notin Operands(d, j)
    BY <1>3, <2>1, <2>2
  <2>7. old \notin Operands(c, j) => Operands(d, j) = Operands(c, j)
    BY <1>1, <1>3, <2>3
  <2> QED
    BY <1>5, <2>2, <2>3, <2>4, <2>5, <2>6, <2>7 DEF s, t, d
<1> QED
  BY <1>4, <1>5

\* An instruction nobody reads.
Unread(c, i) == \A j \in Ids(c) : i \notin Operands(c, j)

\* Nothing comes to depend on itself when what the new one depends on does not include the old.
LEMMA ReplaceSound ==
  ASSUME NEW c, Sound(c), NEW R, Closed(c, R), NEW old \in Ids(c), old \notin R, NEW new \in R
  PROVE  /\ Sound(ReplaceAllUses(c, old, new))
         /\ Unread(ReplaceAllUses(c, old, new), old)
         /\ ReplaceAllUses(c, old, new).root # old
         /\ \A j \in R : /\ j \in Ids(c)
                         /\ ReplaceAllUses(c, old, new).instrs[j].in = c.instrs[j].in
PROOF
<1> DEFINE d == ReplaceAllUses(c, old, new)
<1>1. new \in Ids(c) /\ old # new /\ R \subseteq Ids(c)
  BY DEF Closed
<1>2. /\ DOMAIN d = {"instrs", "root", "next"} /\ Ids(d) = Ids(c) /\ d.next = c.next
      /\ d.root = IF c.root = old THEN new ELSE c.root
      /\ \A j \in Ids(c) : Alike(c, d, j)
  BY <1>1, ReplaceFacts
<1>3. \A j \in Ids(c) :
        /\ d.instrs[j].in \in Seq(Ids(c))
        /\ Len(d.instrs[j].in) = Len(c.instrs[j].in)
        /\ j = new \/ old \notin Operands(c, j) => /\ d.instrs[j].in = c.instrs[j].in
                                                   /\ Operands(d, j) = Operands(c, j)
        /\ Operands(d, j) \subseteq Operands(c, j) \cup {new}
        /\ old # new /\ j # new => old \notin Operands(d, j)
  BY <1>1, ReplaceOperands
<1> HIDE DEF d
<1>4. Framed(d)
  BY <1>1, <1>2 DEF Sound, Framed
<1>5. \A i \in Ids(d) : IsInstruction(d, i)
  <2> TAKE i \in Ids(d)
  <2>1. IsInstruction(c, i)
    BY <1>2 DEF Sound
  <2>2. TakesAsMany(d.instrs[i])
    BY <1>2, <1>3, <2>1 DEF IsInstruction, TakesAsMany, Alike
  <2> QED
    BY <1>2, <1>3, <2>1, <2>2 DEF IsInstruction, Alike
<1>6. \A j \in R : old \notin Operands(c, j) /\ Operands(c, j) \subseteq R
  BY DEF Closed
<1>7. ASSUME NEW S \in SUBSET Ids(d), S # {}
      PROVE  \E i \in S : Operands(d, i) \cap S = {}
  <2>1. CASE S \cap R # {}
    <3>1. S \cap R \in SUBSET Ids(c)
      BY <1>1
    <3>2. PICK i \in S \cap R : Operands(c, i) \cap (S \cap R) = {}
      BY <2>1, <3>1 DEF Sound, Grounded
    <3>3. Operands(d, i) = Operands(c, i) /\ Operands(c, i) \subseteq R
      BY <1>1, <1>3, <1>6, <3>2
    <3> QED
      BY <3>2, <3>3
  <2>2. CASE S \cap R = {}
    <3>1. PICK i \in S : Operands(c, i) \cap S = {}
      BY <1>2, <1>7 DEF Sound, Grounded
    <3>2. Operands(d, i) \subseteq Operands(c, i) \cup {new}
      BY <1>2, <1>3, <3>1
    <3> QED
      BY <2>2, <3>1, <3>2
  <2> QED
    BY <2>1, <2>2
<1>8. Unread(d, old)
  <2> SUFFICES ASSUME NEW j \in Ids(c)
               PROVE  old \notin Operands(d, j)
    BY <1>2 DEF Unread
  <2>1. CASE j = new
    BY <1>1, <1>3, <1>6, <2>1
  <2> QED
    BY <1>1, <1>3, <2>1
<1>9. d.root # old
  BY <1>1, <1>2
<1>10. \A j \in R : j \in Ids(c) /\ d.instrs[j].in = c.instrs[j].in
  BY <1>1, <1>3, <1>6
<1> QED
  BY <1>4, <1>5, <1>7, <1>8, <1>9, <1>10 DEF Sound, Grounded, d

------------------------------------------------------------------------------
(* RemoveInstructionAndUnusedOperands. *)

\* One round of RemoveInstructionAndUnusedOperands: the operands that lose their last reader.
Dying(c, dead, s) ==
  dead \cup {o \in UNION {ToSet(c.instrs[x].in) : x \in dead} :
               Removable(c, o) /\ ToSet(Users(c, o)) \subseteq dead}

\* What the removal grows to.
Death == INSTANCE Recursion WITH Step <- Dying

\* What goes with an instruction that is removed.
Gone(c, i) == Death!Grown(c, Ids(c), {i})

\* What goes besides an instruction that nothing reads: only what it depends on, and what is
\* read by nothing that stays; nothing of it if each of its operands is read by something else.
LEMMA GoneFacts ==
  ASSUME NEW c, Sound(c), NEW i \in Ids(c)
  PROVE  /\ RemoveWithUnused(c, i) = Without(c, Gone(c, i))
         /\ i \in Gone(c, i) /\ Gone(c, i) \subseteq {i} \cup Ancestors(c, i)
         /\ \A o \in Gone(c, i) : o # i =>
              o # c.root /\ \A u \in Ids(c) : o \in Operands(c, u) => u \in Gone(c, i)
         /\ (\A o \in Operands(c, i) : \E u \in Ids(c) : u # i /\ o \in Operands(c, u))
              => Gone(c, i) = {i}
PROOF
<1> DEFINE more(dead) == {o \in UNION {Operands(c, x) : x \in dead} :
                            Removable(c, o) /\ ToSet(Users(c, o)) \subseteq dead}
<1>0. \A dead, s : Dying(c, dead, s) = dead \cup more(dead)
  BY DEF Dying, Operands
<1>1. Death!Grows(c, Ids(c))
  <2>1. \A s \in SUBSET Ids(c) : s \subseteq s \cup more(s) /\ s \cup more(s) \subseteq Ids(c)
    BY SoundFacts
  <2> HIDE DEF more
  <2>2. \A s \in SUBSET Ids(c) : s \subseteq Dying(c, s, s) /\ Dying(c, s, s) \subseteq Ids(c)
    BY <1>0, <2>1
  <2> QED
    BY <2>2 DEF Death!Grows
<1>2. Death!IsFiniteSet(Ids(c))
  <2>1. IsFiniteSet(Ids(c))
    BY SoundFacts
  <2> QED
    BY <2>1 DEF IsFiniteSet, Death!IsFiniteSet
<1>3. PICK n, ch : Death!GrowsTo(c, Ids(c), {i}, n, ch)
  <2>1. {i} \in SUBSET Ids(c)
    OBVIOUS
  <2> QED
    BY <1>1, <1>2, <2>1, Death!GrowthSteps
<1> HIDE DEF more
<1>4. /\ n \in Nat /\ ch[0] = {i}
      /\ \A k \in 1..n : ch[k] = ch[k - 1] \cup more(ch[k - 1])
      /\ \A k \in 0..n : ch[k] \subseteq Ids(c)
      /\ Gone(c, i) = ch[n]
  BY <1>0, <1>3 DEF Death!GrowsTo, Gone
<1>5. RemoveWithUnused(c, i) = Without(c, Gone(c, i))
  BY DEF RemoveWithUnused, Gone, Death!Grown, Dying
<1>6. \A dead \in SUBSET Ids(c) : \A o \in more(dead) :
        /\ o \in Ids(c) /\ o # c.root
        /\ \A u \in Ids(c) : o \in Operands(c, u) => u \in dead
        /\ \E x \in dead : o \in Operands(c, x)
  <2> TAKE dead \in SUBSET Ids(c)
  <2> TAKE o \in more(dead)
  <2>1. /\ Removable(c, o) /\ ToSet(Users(c, o)) \subseteq dead
        /\ \E x \in dead : o \in Operands(c, x)
    BY DEF more
  <2>2. \A u \in Ids(c) : o \in Operands(c, u) => u \in dead
    BY <2>1, UsersFacts
  <2> QED
    BY <2>1, <2>2, SoundFacts DEF Removable
<1> DEFINE Good(s) == /\ i \in s /\ s \subseteq {i} \cup Ancestors(c, i)
                      /\ \A o \in s : o # i =>
                           o # c.root /\ \A u \in Ids(c) : o \in Operands(c, u) => u \in s
           T == {k \in 0..n : Good(ch[k])}
<1>8. n \in T
  <2>1. 0 \in T
    BY <1>4
  <2>2. ASSUME NEW k \in 1..n, k - 1 \in T
        PROVE  k \in T
    <3>1. /\ ch[k] = ch[k - 1] \cup more(ch[k - 1]) /\ k - 1 \in 0..n /\ k \in 0..n
          /\ ch[k - 1] \in SUBSET Ids(c)
      BY <1>4
    <3>2. /\ i \in ch[k - 1] /\ ch[k - 1] \subseteq {i} \cup Ancestors(c, i)
          /\ \A o \in ch[k - 1] : o # i =>
               o # c.root /\ \A u \in Ids(c) : o \in Operands(c, u) => u \in ch[k - 1]
      BY <2>2
    <3>3. \A x \in {i} \cup Ancestors(c, i) : Operands(c, x) \subseteq Ancestors(c, i)
      BY AncestorsFacts DEF Closed
    <3>4. more(ch[k - 1]) \subseteq Ancestors(c, i)
      BY <1>6, <3>1, <3>2, <3>3
    <3>5. ch[k] \subseteq {i} \cup Ancestors(c, i)
      BY <3>1, <3>2, <3>4
    <3>6. \A o \in ch[k] : o # i =>
            o # c.root /\ \A u \in Ids(c) : o \in Operands(c, u) => u \in ch[k]
      BY <1>6, <3>1, <3>2
    <3> QED
      BY <3>1, <3>2, <3>5, <3>6
  <2> HIDE DEF T
  <2>3. \A k \in 0..n : k \in T
    BY <1>4, <2>1, <2>2, Death!StepByStep
  <2> QED
    BY <1>4, <2>3
<1>9. ASSUME \A o \in Operands(c, i) : \E u \in Ids(c) : u # i /\ o \in Operands(c, u)
      PROVE  ch[n] = {i}
  <2> DEFINE U == {k \in 0..n : ch[k] = {i}}
  <2>1. 0 \in U
    BY <1>4
  <2>2. ASSUME NEW k \in 1..n, k - 1 \in U
        PROVE  k \in U
    <3>0. ch[k - 1] = {i}
      BY <2>2
    <3>1. ch[k] = {i} \cup more({i}) /\ k \in 0..n
      <4> HIDE DEF T, U
      <4>1. ch[k] = ch[k - 1] \cup more(ch[k - 1]) /\ k \in 0..n
        BY <1>4
      <4> QED
        BY <3>0, <4>1
    <3>2. {i} \in SUBSET Ids(c)
      OBVIOUS
    <3>3. more({i}) = {}
      <4> SUFFICES ASSUME NEW o \in more({i}) PROVE FALSE
        OBVIOUS
      <4>1. o \in Operands(c, i) /\ \A u \in Ids(c) : o \in Operands(c, u) => u = i
        BY <1>6, <3>2
      <4> QED
        BY <1>9, <4>1
    <3> QED
      BY <3>1, <3>3
  <2> HIDE DEF U
  <2>3. \A k \in 0..n : k \in U
    BY <1>4, <2>1, <2>2, Death!StepByStep
  <2> QED
    BY <1>4, <2>3 DEF U
<1>10. Good(ch[n])
  <2> HIDE DEF Good
  <2> QED
    BY <1>8
<1> QED
  BY <1>4, <1>5, <1>9, <1>10

------------------------------------------------------------------------------
(* ReplaceInstruction. *)

\* ReplaceInstruction keeps a computation sound when the new instruction does not depend on the
\* old one. The old one goes, and of the others only what it depends on; and nothing but the
\* old one when its operands have other readers.
LEMMA ReplaceInstructionFacts ==
  ASSUME NEW c, Sound(c), NEW R, Closed(c, R), NEW old \in Ids(c), old \notin R, NEW new \in R
  PROVE  /\ Sound(ReplaceInstruction(c, old, new))
         /\ ReplaceInstruction(c, old, new).next = c.next
         /\ Ids(ReplaceInstruction(c, old, new)) \subseteq Ids(c) \ {old}
         /\ Ids(c) \ Ids(ReplaceInstruction(c, old, new)) \subseteq {old} \cup Ancestors(c, old)
         /\ \A j \in Ids(ReplaceInstruction(c, old, new)) :
              /\ Alike(c, ReplaceInstruction(c, old, new), j)
              /\ Operands(ReplaceInstruction(c, old, new), j) \subseteq Operands(c, j) \cup {new}
              /\ old \notin Operands(c, j) =>
                   ReplaceInstruction(c, old, new).instrs[j].in = c.instrs[j].in
         /\ (\A o \in Operands(c, old) : \E u \in Ids(c) : u # old /\ o \in Operands(c, u))
              => Ids(ReplaceInstruction(c, old, new)) = Ids(c) \ {old}
PROOF
<1> DEFINE b == ReplaceAllUses(c, old, new)
           G == Gone(b, old)
           d == Without(b, G)
<1>1. new \in Ids(c) /\ new # old
  BY DEF Closed
<1>2. Sound(b) /\ Unread(b, old) /\ b.root # old
  BY ReplaceSound
<1>3. Ids(b) = Ids(c) /\ b.next = c.next /\ \A j \in Ids(c) : Alike(c, b, j)
  BY <1>1, ReplaceFacts
<1>4. \A j \in Ids(c) :
        /\ old \notin Operands(c, j) => b.instrs[j].in = c.instrs[j].in
        /\ Operands(b, j) \subseteq Operands(c, j) \cup {new}
        /\ \A o \in Operands(c, j) : o # old => o \in Operands(b, j)
  BY <1>1, ReplaceOperands
<1>5. /\ RemoveWithUnused(b, old) = d
      /\ old \in G /\ G \subseteq {old} \cup Ancestors(b, old)
      /\ \A o \in G : o # old =>
           o # b.root /\ \A u \in Ids(b) : o \in Operands(b, u) => u \in G
      /\ (\A o \in Operands(b, old) : \E u \in Ids(b) : u # old /\ o \in Operands(b, u))
           => G = {old}
  BY <1>2, <1>3, GoneFacts
<1>6. ReplaceInstruction(c, old, new) = d
  BY <1>5 DEF ReplaceInstruction
<1> HIDE DEF b, G
<1>7. b.root \notin G /\ \A j \in Ids(b) \ G : Operands(b, j) \cap G = {}
  BY <1>2, <1>5 DEF Unread
<1>8. Sound(d)
  BY <1>2, <1>7, WithoutSound
<1>9. /\ Ids(d) = Ids(c) \ G /\ d.next = c.next
      /\ \A j \in Ids(c) \ G : d.instrs[j] = b.instrs[j]
  BY <1>2, <1>3, WithoutFacts DEF Sound
<1>10. Closed(c, Ancestors(c, old)) /\ Operands(c, old) \subseteq Ancestors(c, old)
       /\ old \notin Ancestors(c, old)
  BY AncestorsFacts
<1>11. Ancestors(b, old) \subseteq Ancestors(c, old) /\ Operands(b, old) = Operands(c, old)
  <2>1. \A x \in {old} \cup Ancestors(c, old) : /\ x \in Ids(c) /\ old \notin Operands(c, x)
                                                /\ Operands(b, x) = Operands(c, x)
    BY <1>4, <1>10 DEF Closed, Operands
  <2>2. Closed(b, Ancestors(c, old))
    BY <1>3, <1>10, <2>1 DEF Closed
  <2> QED
    BY <1>2, <1>3, <1>10, <2>1, <2>2, AncestorsFacts
<1>12. ASSUME NEW j \in Ids(d)
       PROVE  /\ Alike(c, d, j)
              /\ Operands(d, j) \subseteq Operands(c, j) \cup {new}
              /\ old \notin Operands(c, j) => d.instrs[j].in = c.instrs[j].in
  <2>1. j \in Ids(c) /\ d.instrs[j] = b.instrs[j] /\ Operands(d, j) = Operands(b, j)
    BY <1>9 DEF Operands
  <2> QED
    BY <1>3, <1>4, <2>1 DEF Alike
<1>13. (\A o \in Operands(c, old) : \E u \in Ids(c) : u # old /\ o \in Operands(c, u)) => G = {old}
  <2> SUFFICES ASSUME \A o \in Operands(c, old) :
                        \E u \in Ids(c) : u # old /\ o \in Operands(c, u)
               PROVE  G = {old}
    OBVIOUS
  <2>1. \A o \in Operands(c, old) : o # old
    BY <1>10
  <2> QED
    BY <1>3, <1>4, <1>5, <1>11, <2>1
<1>14. Ids(d) \subseteq Ids(c) \ {old} /\ Ids(c) \ Ids(d) \subseteq {old} \cup Ancestors(c, old)
  BY <1>5, <1>9, <1>11
<1> HIDE DEF d
<1> QED
  BY <1>6, <1>8, <1>9, <1>12, <1>13, <1>14

------------------------------------------------------------------------------
(* CreateFusionInstruction. *)

\* One step of BroughtIn.
WithOperand(p, s, o) == IF Contains(s, o) THEN s ELSE Append(s, o)

\* What BroughtIn collects.
Union == INSTANCE Recursion WITH Step <- WithOperand

\* What a fusion brings in: what it has, and what is not among that yet.
BroughtIn(s, in) == FoldLeft(LAMBDA x, o : IF Contains(x, o) THEN x ELSE Append(x, o), s, in)

\* The operands of an instruction that a fusion takes in are all among those of the fusion.
LEMMA BroughtInFacts ==
  ASSUME NEW S, NEW s \in Seq(S), NEW in \in Seq(S)
  PROVE  /\ BroughtIn(s, in) \in Seq(S)
         /\ \A o \in ToSet(in) : o \in ToSet(BroughtIn(s, in))
PROOF
<1> DEFINE n == Len(in)
<1>1. n \in Nat /\ DOMAIN in = 1..n /\ \A k \in 1..n : in[k] \in S
  BY LenProperties, ElementOfSeq
<1>2. BroughtIn(s, in) = Union!Folded(n, s, in)
  BY DEF BroughtIn, FoldLeft, MapThenFoldSet, Union!Folded, Union!Greatest, Max, WithOperand
<1> HIDE DEF n
<1>3. PICK acc : Union!FoldsTo(n, s, in, n, acc)
  BY <1>1, Union!FoldSteps
<1>4. /\ acc[0] = s /\ BroughtIn(s, in) = acc[n]
      /\ \A k \in 1..n : acc[k] = WithOperand(n, acc[k - 1], in[k])
  BY <1>2, <1>3 DEF Union!FoldsTo
<1> DEFINE Good(k) == acc[k] \in Seq(S) /\ \A x \in 1..n : x <= k => in[x] \in ToSet(acc[k])
           T == {k \in 0..n : Good(k)}
<1>5. 0 \in T
  BY <1>1, <1>4
<1>6. ASSUME NEW k \in 1..n, k - 1 \in T
      PROVE  k \in T
  <2>0. k \in Nat /\ k - 1 \in Nat /\ Good(k - 1) /\ k \in 0..n /\ in[k] \in S
    <3> HIDE DEF Good
    <3> QED
      BY <1>1, <1>6
  <2> DEFINE t == acc[k - 1]
             m == Len(t)
  <2>1. t \in Seq(S) /\ m \in Nat /\ DOMAIN t = 1..m
    BY <2>0, LenProperties
  <2>2. \A x \in 1..n : x <= k => x <= k - 1 \/ x = k
    BY <1>1, <2>0
  <2>3. CASE Contains(t, in[k])
    <3>1. acc[k] = t
      BY <1>4, <2>3 DEF WithOperand
    <3>2. in[k] \in ToSet(t)
      BY <2>1, <2>3 DEF Contains, ToSet
    <3>3. Good(k)
      BY <2>0, <2>1, <2>2, <3>1, <3>2
    <3> HIDE DEF Good
    <3> QED
      BY <2>0, <3>3
  <2>4. CASE ~Contains(t, in[k])
    <3>1. acc[k] = Append(t, in[k])
      BY <1>4, <2>4 DEF WithOperand
    <3>2. /\ acc[k] \in Seq(S) /\ Len(acc[k]) = m + 1 /\ acc[k][m + 1] = in[k]
          /\ DOMAIN acc[k] = 1..m + 1 /\ \A j \in 1..m : acc[k][j] = t[j]
      BY <2>0, <2>1, <3>1, AppendProperties, LenProperties
    <3>3. in[k] \in ToSet(acc[k])
      <4>1. m + 1 \in 1..m + 1
        BY <2>1
      <4> QED
        BY <3>2, <4>1 DEF ToSet
    <3>4. \A o \in ToSet(t) : o \in ToSet(acc[k])
      <4>1. \A j \in 1..m : j \in 1..m + 1
        BY <2>1
      <4> QED
        BY <2>1, <3>2, <4>1 DEF ToSet
    <3>5. Good(k)
      BY <2>0, <2>2, <3>2, <3>3, <3>4
    <3> HIDE DEF Good
    <3> QED
      BY <2>0, <3>5
  <2> QED
    BY <2>3, <2>4
<1> HIDE DEF T
<1>7. n \in T
  <2>1. \A k \in 0..n : k \in T
    BY <1>1, <1>5, <1>6, Union!StepByStep
  <2> QED
    BY <1>1, <2>1
<1>8. acc[n] \in Seq(S) /\ \A x \in 1..n : in[x] \in ToSet(acc[n])
  BY <1>1, <1>7 DEF T
<1>9. \A o \in ToSet(in) : \E x \in 1..n : o = in[x]
  BY <1>1 DEF ToSet
<1> QED
  BY <1>4, <1>8, <1>9

\* One step of FusionOperands: an operand that is taken in is replaced by those it reads.
IntoFusion(c, operands, i) ==
  BroughtIn(AtPositions(operands, {k \in DOMAIN operands : operands[k] # i}), c.instrs[i].in)

\* What FusionOperands collects.
Fusing == INSTANCE Recursion WITH Step <- IntoFusion

\* The operands of a fusion are operands of what is fused; of one instruction, all of them.
LEMMA FusionOperandsFacts ==
  ASSUME NEW c, Sound(c), NEW A, NEW n \in Nat, NEW fused, DOMAIN fused = 1..n,
         \A k \in 1..n : fused[k] \in Ids(c) /\ Operands(c, fused[k]) \subseteq A
  PROVE  /\ FusionOperands(c, fused) \in Seq(A)
         /\ n = 1 => Operands(c, fused[1]) \subseteq ToSet(FusionOperands(c, fused))
PROOF
<1> DEFINE none == <<>>
<1>1. FusionOperands(c, fused) = Fusing!Folded(c, none, fused)
  BY DEF FusionOperands, Selected, FoldLeft, MapThenFoldSet, Fusing!Folded, Fusing!Greatest, Max,
         IntoFusion, BroughtIn
<1>0. none \in Seq(A)
  OBVIOUS
<1> HIDE DEF none
<1>2. PICK acc : Fusing!FoldsTo(c, none, fused, n, acc)
  BY Fusing!FoldSteps
<1>3. /\ acc[0] = none /\ FusionOperands(c, fused) = acc[n]
      /\ \A k \in 1..n : acc[k] = IntoFusion(c, acc[k - 1], fused[k])
  BY <1>1, <1>2 DEF Fusing!FoldsTo
<1>4. ASSUME NEW k \in 1..n, acc[k - 1] \in Seq(A)
      PROVE  /\ acc[k] \in Seq(A)
             /\ Operands(c, fused[k]) \subseteq ToSet(acc[k])
  <2> DEFINE K == {x \in DOMAIN acc[k - 1] : acc[k - 1][x] # fused[k]}
             kept == AtPositions(acc[k - 1], K)
             in == c.instrs[fused[k]].in
  <2>1. K \in SUBSET (1..Len(acc[k - 1]))
    BY <1>4, LenProperties
  <2>2. acc[k] = BroughtIn(kept, in)
    BY <1>3 DEF IntoFusion
  <2> HIDE DEF K
  <2>3. kept \in Seq(A)
    BY <1>4, <2>1, AtPositionsFacts
  <2>4. in \in Seq(A)
    <3>1. in \in Seq(Ids(c)) /\ DOMAIN in = 1..Len(in) /\ Len(in) \in Nat
      BY SoundFacts, LenProperties
    <3>2. \A x \in 1..Len(in) : in[x] \in A
      BY <3>1 DEF Operands, ToSet
    <3> QED
      BY <3>1, <3>2
  <2> HIDE DEF kept
  <2> QED
    BY <2>2, <2>3, <2>4, BroughtInFacts DEF Operands
<1> DEFINE T == {k \in 0..n : acc[k] \in Seq(A)}
<1>5. n \in T
  <2>1. 0 \in T
    BY <1>0, <1>3
  <2>2. ASSUME NEW k \in 1..n, k - 1 \in T
        PROVE  k \in T
    BY <1>4, <2>2
  <2> HIDE DEF T
  <2>3. \A k \in 0..n : k \in T
    BY <2>1, <2>2, Fusing!StepByStep
  <2> QED
    BY <2>3
<1>6. n = 1 => Operands(c, fused[1]) \subseteq ToSet(acc[n])
  <2> SUFFICES ASSUME n = 1 PROVE Operands(c, fused[1]) \subseteq ToSet(acc[n])
    OBVIOUS
  <2>1. 1 \in 1..n /\ acc[1 - 1] \in Seq(A)
    BY <1>0, <1>3
  <2> QED
    BY <1>4, <2>1
<1> QED
  BY <1>3, <1>5, <1>6

\* One step of the removal at the end of CreateFusion.
RemoveDead(p, d, i) == IF UserCount(d, i) = 0 /\ i # d.root THEN Without(d, {i}) ELSE d

\* What that removal leaves.
Removing == INSTANCE Recursion WITH Step <- RemoveDead

\* d is what is left of c without some instructions that nothing reads.
LeftOf(c, d, gone) ==
  /\ Sound(d) /\ d.next = c.next
  /\ Ids(d) \subseteq Ids(c) /\ Ids(c) \ Ids(d) \subseteq gone
  /\ \A j \in Ids(d) : d.instrs[j] = c.instrs[j]

\* What CreateFusion removes: those of the fused instructions nobody reads any more.
WithoutDead(c, maybe) ==
  FoldLeft(LAMBDA d, i : IF UserCount(d, i) = 0 /\ i # d.root THEN Without(d, {i}) ELSE d,
           c, maybe)

\* Of the instructions that may be dead those go that nothing reads at their turn.
LEMMA RemovingFacts ==
  ASSUME NEW c, Sound(c), NEW n \in Nat, NEW maybe, DOMAIN maybe = 1..n
  PROVE  LeftOf(c, WithoutDead(c, maybe), {maybe[k] : k \in 1..n})
PROOF
<1> DEFINE d == WithoutDead(c, maybe)
           all == {maybe[k] : k \in 1..n}
<1>1. d = Removing!Folded(n, c, maybe)
  BY DEF WithoutDead, FoldLeft, MapThenFoldSet, Removing!Folded, Removing!Greatest, Max, RemoveDead
<1> HIDE DEF d
<1>2. PICK acc : Removing!FoldsTo(n, c, maybe, n, acc)
  BY Removing!FoldSteps
<1>3. /\ acc[0] = c /\ d = acc[n]
      /\ \A k \in 1..n : acc[k] = RemoveDead(n, acc[k - 1], maybe[k])
  BY <1>1, <1>2 DEF Removing!FoldsTo
<1> DEFINE T == {k \in 0..n : LeftOf(c, acc[k], all)}
<1>4. 0 \in T
  BY <1>3 DEF LeftOf
<1>5. ASSUME NEW k \in 1..n, k - 1 \in T
      PROVE  k \in T
  <2> DEFINE x == acc[k - 1]
             i == maybe[k]
  <2>1. LeftOf(c, x, all) /\ k \in 0..n /\ i \in all /\ acc[k] = RemoveDead(n, x, i)
    BY <1>3, <1>5
  <2> HIDE DEF x, i, all
  <2>2. CASE UserCount(x, i) = 0 /\ i # x.root
    <3>1. acc[k] = Without(x, {i})
      BY <2>1, <2>2 DEF RemoveDead
    <3>2. \A u \in Ids(x) : i \notin Operands(x, u)
      <4> DEFINE U == {u \in Ids(x) : Uses(x, u, i)}
      <4>1. IsFiniteSet(U)
        <5>1. IsFiniteSet(Ids(x)) /\ U \subseteq Ids(x)
          BY <2>1, SoundFacts DEF LeftOf
        <5> QED
          BY <5>1, FS_Subset
      <4>2. Cardinality(U) = 0
        BY <2>2 DEF UserCount
      <4> HIDE DEF U
      <4>3. U = {}
        BY <4>1, <4>2, FS_EmptySet
      <4> QED
        BY <4>3 DEF U, Uses, Operands, ToSet
    <3>3. Sound(x) /\ Framed(x)
      BY <2>1 DEF LeftOf, Sound
    <3>4. Sound(acc[k])
      BY <2>2, <3>1, <3>2, <3>3, WithoutSound
    <3>5. /\ Ids(acc[k]) = Ids(x) \ {i} /\ acc[k].next = x.next
          /\ \A j \in Ids(x) \ {i} : acc[k].instrs[j] = x.instrs[j]
      BY <3>1, <3>3, WithoutFacts
    <3>6. LeftOf(c, acc[k], all)
      BY <2>1, <3>4, <3>5 DEF LeftOf
    <3> QED
      BY <2>1, <3>6 DEF all
  <2>3. CASE ~(UserCount(x, i) = 0 /\ i # x.root)
    <3>1. acc[k] = x
      BY <2>1, <2>3 DEF RemoveDead
    <3> QED
      BY <2>1, <3>1 DEF all
  <2> QED
    BY <2>2, <2>3
<1> HIDE DEF T
<1>6. n \in T
  <2>1. \A k \in 0..n : k \in T
    BY <1>4, <1>5, Removing!StepByStep
  <2> QED
    BY <2>1
<1> QED
  BY <1>3, <1>6 DEF T, d

\* What is fused becomes one instruction, the last one, that reads what the fused ones read;
\* only fused ones go.
LEMMA CreateFusionFacts ==
  ASSUME NEW c, Sound(c), NEW n \in Nat, n >= 1, NEW fused, DOMAIN fused = 1..n,
         NEW A, Closed(c, A), fused[1] \in Ids(c) \ A, Operands(c, fused[1]) \subseteq A,
         \A k \in 2..n : fused[k] \in A
  PROVE  /\ Sound(CreateFusion(c, fused))
         /\ CreateFusion(c, fused).next = c.next + 1
         /\ c.next \in Ids(CreateFusion(c, fused)) /\ c.next \notin Ids(c)
         /\ Ids(CreateFusion(c, fused)) \subseteq Ids(c) \cup {c.next}
         /\ Ids(c) \ Ids(CreateFusion(c, fused)) \subseteq {fused[k] : k \in 1..n}
         /\ \A j \in Ids(CreateFusion(c, fused)) \ {c.next} : Alike(c, CreateFusion(c, fused), j)
         /\ CreateFusion(c, fused).instrs[c.next].in = FusionOperands(c, fused)
         /\ FusionOperands(c, fused) \in Seq(A)
         /\ \A j \in Ids(CreateFusion(c, fused)) \cap A :
              Operands(CreateFusion(c, fused), j) \subseteq A
PROOF
<1> DEFINE root == fused[1]
           operands == FusionOperands(c, fused)
           fusion == Instr("Fusion", operands, Type(c, root), Shape(c, root),
                           [body |-> [i \in ToSet(fused) |-> c.instrs[i]],
                            root |-> root, params |-> operands])
           a == Add(c, <<fusion>>)
           b == ReplaceAllUses(a, root, c.next)
           d == CreateFusion(c, fused)
<1>1. \A k \in 1..n : fused[k] \in Ids(c) /\ Operands(c, fused[k]) \subseteq A
  <2>1. \A k \in 1..n : k = 1 \/ k \in 2..n
    OBVIOUS
  <2> QED
    BY <2>1 DEF Closed
<1>2. operands \in Seq(A) /\ A \subseteq Ids(c)
  BY <1>1, FusionOperandsFacts DEF Closed
<1>3. DOMAIN fusion = Fields /\ fusion.in = operands /\ fusion.op = "Fusion"
  BY DEF Instr, Fields
<1>4. d = WithoutDead(b, fused)
  BY DEF CreateFusion, WithoutDead
<1> HIDE DEF operands, fusion
<1>5. c.next \in Nat /\ \A i \in Ids(c) : i \in Nat /\ i < c.next
  BY SoundFacts
<1>6. Sound(a)
  <2> DEFINE added == <<fusion>>
  <2>1. Len(added) = 1 /\ 1 \in Nat /\ \A k \in 1..1 : added[k] = fusion
    OBVIOUS
  <2>2. TakesAsMany(fusion)
    BY <1>3 DEF TakesAsMany, Unary, Binary
  <2>3. \A k \in 1..1 : fusion.in \in Seq(Ids(c) \cup c.next..c.next + k - 2)
    <3> TAKE k \in 1..1
    <3> DEFINE S == Ids(c) \cup c.next..c.next + k - 2
    <3>1. A \subseteq S
      BY <1>2
    <3> HIDE DEF S
    <3>2. fusion.in \in Seq(S)
      BY <1>2, <1>3, <3>1
    <3> QED
      BY <3>2 DEF S
  <2> HIDE DEF added
  <2>4. PICK m \in Nat : m = 1
    OBVIOUS
  <2> QED
    BY <1>3, <2>1, <2>2, <2>3, <2>4, AddSound DEF added
<1>7. /\ Ids(a) = Ids(c) \cup {c.next} /\ a.next = c.next + 1
      /\ \A j \in Ids(c) : a.instrs[j] = c.instrs[j]
      /\ a.instrs[c.next] = fusion
  <2> DEFINE added == <<fusion>>
  <2>1. PICK m \in Nat : m = 1
    OBVIOUS
  <2>2. Len(added) = m /\ added[1] = fusion /\ a = Add(c, added)
    BY <2>1
  <2> HIDE DEF added, a
  <2>3. /\ Ids(a) = Ids(c) \cup c.next..c.next + m - 1 /\ a.next = c.next + m
        /\ \A j \in Ids(c) : a.instrs[j] = c.instrs[j]
        /\ \A k \in 1..m : a.instrs[c.next + k - 1] = added[k]
    BY <2>2, AddFacts DEF Sound
  <2>4. c.next..c.next + m - 1 = {c.next} /\ 1 \in 1..m /\ c.next + 1 - 1 = c.next
    BY <1>5, <2>1
  <2>5. a.instrs[c.next] = added[1]
    BY <2>3, <2>4
  <2> QED
    BY <2>1, <2>2, <2>3, <2>4, <2>5
<1> HIDE DEF a
<1> DEFINE R == A \cup {c.next}
<1>8. /\ \A j \in Ids(c) : Operands(a, j) = Operands(c, j)
      /\ Operands(a, c.next) \subseteq A
  <2>1. Operands(a, c.next) = ToSet(operands)
    BY <1>3, <1>7 DEF Operands
  <2>2. ToSet(operands) \subseteq A
    BY <1>2 DEF ToSet
  <2>3. \A j \in Ids(c) : Operands(a, j) = Operands(c, j)
    BY <1>7 DEF Operands
  <2> QED
    BY <2>1, <2>2, <2>3
<1>9. /\ Closed(a, R) /\ root \in Ids(a) /\ root \notin R /\ c.next \in R /\ c.next \notin Ids(c)
      /\ root \in Ids(c) /\ c.next \in Ids(a)
  <2>1. c.next \notin Ids(c)
    BY <1>5
  <2> QED
    BY <1>2, <1>7, <1>8, <2>1 DEF Closed
<1>10. /\ Sound(b)
       /\ \A j \in R : b.instrs[j].in = a.instrs[j].in
  BY <1>6, <1>9, ReplaceSound
<1>11. /\ Ids(b) = Ids(a) /\ b.next = a.next /\ \A j \in Ids(a) : Alike(a, b, j)
  BY <1>6, <1>9, ReplaceFacts
<1> HIDE DEF b
<1>12. LeftOf(b, d, {fused[k] : k \in 1..n})
  BY <1>4, <1>10, RemovingFacts
<1> HIDE DEF d
<1>13. c.next \in Ids(d)
  <2>1. c.next \notin {fused[k] : k \in 1..n}
    BY <1>1, <1>9
  <2> QED
    BY <1>9, <1>11, <1>12, <2>1 DEF LeftOf
<1>14. d.instrs[c.next].in = operands
  BY <1>3, <1>7, <1>9, <1>10, <1>12, <1>13 DEF LeftOf
<1>15. \A j \in Ids(d) \ {c.next} : Alike(c, d, j)
  BY <1>7, <1>11, <1>12 DEF LeftOf, Alike
<1>16. \A j \in Ids(d) \cap A : Operands(d, j) \subseteq A
  <2> TAKE j \in Ids(d) \cap A
  <2>1. d.instrs[j] = b.instrs[j] /\ b.instrs[j].in = a.instrs[j].in /\ j \in Ids(c)
    BY <1>2, <1>10, <1>12 DEF LeftOf
  <2>2. Operands(d, j) = Operands(c, j)
    BY <1>8, <2>1 DEF Operands
  <2> QED
    BY <2>2 DEF Closed
<1> QED
  BY <1>2, <1>7, <1>9, <1>11, <1>12, <1>13, <1>14, <1>15, <1>16 DEF LeftOf, d, operands

------------------------------------------------------------------------------
(* The way over operands. *)

\* One step along a path of operands; positions count from 0 in the code.
Follow1(c, at, k) == c.instrs[at].in[k + 1]

\* Where a path leads.
Path == INSTANCE Recursion WITH Step <- Follow1

\* A path of operands is followed one operand at a time.
LEMMA OperandSteps ==
  ASSUME NEW c, NEW i, NEW n \in Nat, NEW path, DOMAIN path = 1..n
  PROVE  \E acc : Path!FoldsTo(c, i, path, n, acc) /\ Operand(c, i, path) = acc[n]
PROOF
<1>1. \E acc : Path!FoldsTo(c, i, path, n, acc)
  BY Path!FoldSteps
<1>2. Operand(c, i, path) = Path!Folded(c, i, path)
  BY DEF Operand, FoldLeft, MapThenFoldSet, Path!Folded, Path!Greatest, Max, Follow1
<1> QED
  BY <1>1, <1>2 DEF Path!FoldsTo

\* Step by step, for the lengths the passes use.
LEMMA Operand1 ==
  ASSUME NEW c, NEW i, NEW k1
  PROVE  Operand(c, i, <<k1>>) = Follow1(c, i, k1)
PROOF
<1> DEFINE path == <<k1>>
<1>1. DOMAIN path = 1..1 /\ path[1] = k1
  OBVIOUS
<1> HIDE DEF path
<1>2. PICK n \in Nat : n = 1
  OBVIOUS
<1>3. PICK acc : Path!FoldsTo(c, i, path, n, acc) /\ Operand(c, i, path) = acc[n]
  <2>1. DOMAIN path = 1..n
    BY <1>1, <1>2
  <2> QED
    BY <2>1, OperandSteps
<1>4. acc[0] = i /\ \A k \in 1..n : acc[k] = Follow1(c, acc[k - 1], path[k])
  BY <1>3 DEF Path!FoldsTo
<1>5. acc[1] = Follow1(c, acc[0], k1)
  BY <1>1, <1>2, <1>4
<1> QED
  BY <1>2, <1>3, <1>4, <1>5 DEF path

\* The operand at the end of a path of two steps, and of three, four and five below.
LEMMA Operand2 ==
  ASSUME NEW c, NEW i, NEW k1, NEW k2
  PROVE  Operand(c, i, <<k1, k2>>) = Follow1(c, Follow1(c, i, k1), k2)
PROOF
<1> DEFINE path == <<k1, k2>>
<1>1. DOMAIN path = 1..2 /\ path[1] = k1 /\ path[2] = k2
  OBVIOUS
<1> HIDE DEF path
<1>2. PICK n \in Nat : n = 2
  OBVIOUS
<1>3. PICK acc : Path!FoldsTo(c, i, path, n, acc) /\ Operand(c, i, path) = acc[n]
  <2>1. DOMAIN path = 1..n
    BY <1>1, <1>2
  <2> QED
    BY <2>1, OperandSteps
<1>4. acc[0] = i /\ \A k \in 1..n : acc[k] = Follow1(c, acc[k - 1], path[k])
  BY <1>3 DEF Path!FoldsTo
<1>5. acc[1] = Follow1(c, acc[0], k1)
  BY <1>1, <1>2, <1>4
<1>6. acc[2] = Follow1(c, acc[1], k2)
  BY <1>1, <1>2, <1>4
<1> QED
  BY <1>2, <1>3, <1>4, <1>5, <1>6 DEF path

\* A path of three steps.
LEMMA Operand3 ==
  ASSUME NEW c, NEW i, NEW k1, NEW k2, NEW k3
  PROVE  Operand(c, i, <<k1, k2, k3>>) = Follow1(c, Follow1(c, Follow1(c, i, k1), k2), k3)
PROOF
<1> DEFINE path == <<k1, k2, k3>>
<1>1. DOMAIN path = 1..3 /\ path[1] = k1 /\ path[2] = k2 /\ path[3] = k3
  OBVIOUS
<1> HIDE DEF path
<1>2. PICK n \in Nat : n = 3
  OBVIOUS
<1>3. PICK acc : Path!FoldsTo(c, i, path, n, acc) /\ Operand(c, i, path) = acc[n]
  <2>1. DOMAIN path = 1..n
    BY <1>1, <1>2
  <2> QED
    BY <2>1, OperandSteps
<1>4. acc[0] = i /\ \A k \in 1..n : acc[k] = Follow1(c, acc[k - 1], path[k])
  BY <1>3 DEF Path!FoldsTo
<1>5. acc[1] = Follow1(c, acc[0], k1)
  BY <1>1, <1>2, <1>4
<1>6. acc[2] = Follow1(c, acc[1], k2)
  BY <1>1, <1>2, <1>4
<1>7. acc[3] = Follow1(c, acc[2], k3)
  BY <1>1, <1>2, <1>4
<1> QED
  BY <1>2, <1>3, <1>4, <1>5, <1>6, <1>7 DEF path

\* A path of four steps.
LEMMA Operand4 ==
  ASSUME NEW c, NEW i, NEW k1, NEW k2, NEW k3, NEW k4
  PROVE  Operand(c, i, <<k1, k2, k3, k4>>) =
           Follow1(c, Follow1(c, Follow1(c, Follow1(c, i, k1), k2), k3), k4)
PROOF
<1> DEFINE path == <<k1, k2, k3, k4>>
<1>1. DOMAIN path = 1..4 /\ path[1] = k1 /\ path[2] = k2 /\ path[3] = k3 /\ path[4] = k4
  OBVIOUS
<1> HIDE DEF path
<1>2. PICK n \in Nat : n = 4
  OBVIOUS
<1>3. PICK acc : Path!FoldsTo(c, i, path, n, acc) /\ Operand(c, i, path) = acc[n]
  <2>1. DOMAIN path = 1..n
    BY <1>1, <1>2
  <2> QED
    BY <2>1, OperandSteps
<1>4. acc[0] = i /\ \A k \in 1..n : acc[k] = Follow1(c, acc[k - 1], path[k])
  BY <1>3 DEF Path!FoldsTo
<1>5. acc[1] = Follow1(c, acc[0], k1)
  BY <1>1, <1>2, <1>4
<1>6. acc[2] = Follow1(c, acc[1], k2)
  BY <1>1, <1>2, <1>4
<1>7. acc[3] = Follow1(c, acc[2], k3)
  BY <1>1, <1>2, <1>4
<1>8. acc[4] = Follow1(c, acc[3], k4)
  BY <1>1, <1>2, <1>4
<1> QED
  BY <1>2, <1>3, <1>4, <1>5, <1>6, <1>7, <1>8 DEF path

\* A path of five steps.
LEMMA Operand5 ==
  ASSUME NEW c, NEW i, NEW k1, NEW k2, NEW k3, NEW k4, NEW k5
  PROVE  Operand(c, i, <<k1, k2, k3, k4, k5>>) =
           Follow1(c, Follow1(c, Follow1(c, Follow1(c, Follow1(c, i, k1), k2), k3), k4), k5)
PROOF
<1> DEFINE path == <<k1, k2, k3, k4, k5>>
<1>1. /\ DOMAIN path = 1..5 /\ path[1] = k1 /\ path[2] = k2
      /\ path[3] = k3 /\ path[4] = k4 /\ path[5] = k5
  OBVIOUS
<1> HIDE DEF path
<1>2. PICK n \in Nat : n = 5
  OBVIOUS
<1>3. PICK acc : Path!FoldsTo(c, i, path, n, acc) /\ Operand(c, i, path) = acc[n]
  <2>1. DOMAIN path = 1..n
    BY <1>1, <1>2
  <2> QED
    BY <2>1, OperandSteps
<1>4. acc[0] = i /\ \A k \in 1..n : acc[k] = Follow1(c, acc[k - 1], path[k])
  BY <1>3 DEF Path!FoldsTo
<1>5. acc[1] = Follow1(c, acc[0], k1)
  BY <1>1, <1>2, <1>4
<1>6. acc[2] = Follow1(c, acc[1], k2)
  BY <1>1, <1>2, <1>4
<1>7. acc[3] = Follow1(c, acc[2], k3)
  BY <1>1, <1>2, <1>4
<1>8. acc[4] = Follow1(c, acc[3], k4)
  BY <1>1, <1>2, <1>4
<1>9. acc[5] = Follow1(c, acc[4], k5)
  BY <1>1, <1>2, <1>4
<1> QED
  BY <1>2, <1>3, <1>4, <1>5, <1>6, <1>7, <1>8, <1>9 DEF path

\* An instruction has the operands that its operation takes.
LEMMA TakenFacts ==
  ASSUME NEW c, Sound(c), NEW j \in Ids(c)
  PROVE  /\ \A k \in Nat : k < Len(c.instrs[j].in) => Follow1(c, j, k) \in Operands(c, j)
         /\ Op(c, j) \in Unary => Follow1(c, j, 0) \in Operands(c, j)
         /\ Op(c, j) \in Binary \cup {"Select"} =>
              Follow1(c, j, 0) \in Operands(c, j) /\ Follow1(c, j, 1) \in Operands(c, j)
         /\ Op(c, j) = "Select" => Follow1(c, j, 2) \in Operands(c, j)
         /\ Op(c, j) = "Parameter" => Operands(c, j) = {}
PROOF
<1>1. c.instrs[j].in \in Seq(Ids(c)) /\ TakesAsMany(c.instrs[j])
  BY DEF Sound, IsInstruction
<1>2. \A k \in Nat : k < Len(c.instrs[j].in) => Follow1(c, j, k) \in Operands(c, j)
  <2> DEFINE in == c.instrs[j].in
  <2>1. \A k \in Nat : k < Len(in) => in[k + 1] \in ToSet(in)
    <3>1. in \in Seq(Ids(c)) /\ DOMAIN in = 1..Len(in) /\ Len(in) \in Nat
      BY <1>1, LenProperties
    <3> HIDE DEF in
    <3> QED
      BY <3>1 DEF ToSet
  <2> QED
    BY <2>1 DEF Follow1, Operands
<1>3. /\ Op(c, j) \in Unary => Len(c.instrs[j].in) = 1
      /\ Op(c, j) \in Binary => Len(c.instrs[j].in) = 2
      /\ Op(c, j) = "Select" => Len(c.instrs[j].in) = 3
      /\ Op(c, j) = "Parameter" => Len(c.instrs[j].in) = 0
  BY <1>1 DEF TakesAsMany, Op
<1>4. Len(c.instrs[j].in) = 0 => Operands(c, j) = {}
  <2> DEFINE in == c.instrs[j].in
  <2>1. Len(in) = 0 => ToSet(in) = {}
    <3>1. in \in Seq(Ids(c)) /\ DOMAIN in = 1..Len(in) /\ Len(in) \in Nat
      BY <1>1, LenProperties
    <3> HIDE DEF in
    <3> QED
      BY <3>1 DEF ToSet
  <2> QED
    BY <2>1 DEF Operands
<1> DEFINE n == Len(c.instrs[j].in)
<1>5. /\ n = 1 => 0 < n
      /\ n = 2 => 0 < n /\ 1 < n
      /\ n = 3 => 0 < n /\ 1 < n /\ 2 < n
  <2> HIDE DEF n
  <2> QED
    OBVIOUS
<1>6. \A k \in Nat : k < n => Follow1(c, j, k) \in Operands(c, j)
  BY <1>2
<1>7. /\ 0 < n => Follow1(c, j, 0) \in Operands(c, j)
      /\ 1 < n => Follow1(c, j, 1) \in Operands(c, j)
      /\ 2 < n => Follow1(c, j, 2) \in Operands(c, j)
  BY <1>6
<1> HIDE DEF n
<1> QED
  BY <1>2, <1>3, <1>4, <1>5, <1>7 DEF n

\* The opcodes of all operands say how many there are.
LEMMA OperandOpsFacts ==
  ASSUME NEW c, Sound(c), NEW j \in Ids(c), NEW op0, NEW op1, NEW op2
  PROVE  /\ OperandOps(c, j) = <<op0, op1>> =>
              /\ Follow1(c, j, 0) \in Operands(c, j) /\ Follow1(c, j, 1) \in Operands(c, j)
              /\ Op(c, Follow1(c, j, 0)) = op0 /\ Op(c, Follow1(c, j, 1)) = op1
         /\ OperandOps(c, j) = <<op0, op1, op2>> =>
              /\ Follow1(c, j, 0) \in Operands(c, j) /\ Follow1(c, j, 1) \in Operands(c, j)
              /\ Follow1(c, j, 2) \in Operands(c, j)
              /\ Op(c, Follow1(c, j, 0)) = op0 /\ Op(c, Follow1(c, j, 1)) = op1
              /\ Op(c, Follow1(c, j, 2)) = op2
PROOF
<1> DEFINE in == c.instrs[j].in
<1>2. DOMAIN OperandOps(c, j) = DOMAIN in
  BY DEF OperandOps
<1>3. \A k \in DOMAIN in : OperandOps(c, j)[k] = Op(c, in[k])
  BY DEF OperandOps
<1>4. \A k \in Nat : Follow1(c, j, k) = in[k + 1]
  BY DEF Follow1
<1>5. \A k \in DOMAIN in : in[k] \in Operands(c, j)
  BY DEF Operands, ToSet
<1> HIDE DEF in
<1>6. CASE OperandOps(c, j) = <<op0, op1>>
  <2>1. DOMAIN in = 1..2 /\ OperandOps(c, j)[1] = op0 /\ OperandOps(c, j)[2] = op1
    BY <1>2, <1>6
  <2>2. Follow1(c, j, 0) = in[1] /\ Follow1(c, j, 1) = in[2]
    BY <1>4
  <2>3. OperandOps(c, j) # <<op0, op1, op2>>
    BY <1>6
  <2> QED
    BY <1>3, <1>5, <2>1, <2>2, <2>3
<1>7. CASE OperandOps(c, j) = <<op0, op1, op2>>
  <2>1. /\ DOMAIN in = 1..3 /\ OperandOps(c, j)[1] = op0 /\ OperandOps(c, j)[2] = op1
        /\ OperandOps(c, j)[3] = op2
    BY <1>2, <1>7
  <2>2. Follow1(c, j, 0) = in[1] /\ Follow1(c, j, 1) = in[2] /\ Follow1(c, j, 2) = in[3]
    BY <1>4
  <2>3. OperandOps(c, j) # <<op0, op1>>
    BY <1>7
  <2> QED
    BY <1>3, <1>5, <2>1, <2>2, <2>3
<1> QED
  BY <1>6, <1>7

------------------------------------------------------------------------------
(* The order in which instructions come to have all their operands before them. *)

\* One step of Acyclic: those whose operands are all ordered.
Ordering(c, ordered, s) == ordered \cup {i \in Ids(c) : Operands(c, i) \subseteq ordered}

\* What Acyclic grows to, which is everything if nothing depends on itself.
Layer == INSTANCE Recursion WITH Step <- Ordering

\* All of them do just if none depends on itself.
LEMMA AcyclicGrounded ==
  ASSUME NEW c, IsFiniteSet(Ids(c)), \A i \in Ids(c) : Operands(c, i) \subseteq Ids(c)
  PROVE  Acyclic(c) <=> Grounded(c)
PROOF
<1>1. Layer!Grows(c, Ids(c))
  BY DEF Ordering, Layer!Grows
<1>2. Layer!IsFiniteSet(Ids(c))
  BY DEF IsFiniteSet, Layer!IsFiniteSet
<1>3. PICK n, ch : Layer!GrowsTo(c, Ids(c), {}, n, ch)
  BY <1>1, <1>2, Layer!GrowthSteps
<1>4. /\ n \in Nat /\ ch[0] = {}
      /\ \A k \in 1..n : ch[k] = Ordering(c, ch[k - 1], ch[k - 1])
      /\ \A k \in 0..n : ch[k] \subseteq Ids(c)
      /\ Layer!Grown(c, Ids(c), {}) = ch[n]
      /\ Ordering(c, ch[n], ch[n]) = ch[n]
  BY <1>3 DEF Layer!GrowsTo
<1>5. Acyclic(c) <=> ch[n] = Ids(c)
  <2>1. Acyclic(c) <=> Layer!Grown(c, Ids(c), {}) = Ids(c)
    BY DEF Acyclic, Layer!Grown, Ordering, Operands
  <2> QED
    BY <1>4, <2>1
<1>6. ASSUME Grounded(c), ch[n] # Ids(c)
      PROVE  FALSE
  <2> DEFINE S == Ids(c) \ ch[n]
  <2>1. ch[n] \subseteq Ids(c)
    BY <1>4
  <2>2. S \in SUBSET Ids(c) /\ S # {}
    BY <1>6, <2>1
  <2>3. PICK i \in S : Operands(c, i) \cap S = {}
    BY <1>6, <2>2 DEF Grounded
  <2>4. i \in Ids(c) /\ Operands(c, i) \subseteq ch[n]
    BY <2>3
  <2>5. i \in ch[n]
    BY <1>4, <2>4 DEF Ordering
  <2> QED
    BY <2>3, <2>5
<1>7. ASSUME NEW S \in SUBSET Ids(c), ch[n] = Ids(c), S # {},
             \A i \in S : Operands(c, i) \cap S # {}
      PROVE  FALSE
  <2> DEFINE T == {k \in 0..n : ch[k] \cap S = {}}
  <2>1. n \in Nat /\ 0 \in T
    BY <1>4
  <2>2. ASSUME NEW k \in 1..n, k - 1 \in T
        PROVE  k \in T
    BY <1>4, <1>7, <2>2 DEF Ordering
  <2> HIDE DEF T
  <2>3. \A k \in 0..n : k \in T
    BY <2>1, <2>2, Layer!StepByStep
  <2>4. n \in T
    BY <2>1, <2>3
  <2> QED
    BY <1>7, <2>4 DEF T
<1>8. ch[n] = Ids(c) => Grounded(c)
  BY <1>7 DEF Grounded
<1> QED
  BY <1>5, <1>6, <1>8

\* What is called sound here is what the verifier asks for.
LEMMA SoundComputations ==
  ASSUME NEW c
  PROVE  Sound(c) <=> IsComputation(c)
PROOF
<1>1. Framed(c) <=> /\ DOMAIN c = {"instrs", "root", "next"}
                    /\ c.next \in Nat /\ Ids(c) \subseteq 1..c.next - 1
                    /\ c.root \in Ids(c)
  BY DEF Framed
<1>2. ASSUME Framed(c), \A i \in Ids(c) : IsInstruction(c, i)
      PROVE  Acyclic(c) <=> Grounded(c)
  <2>1. IsFiniteSet(Ids(c))
    <3>1. c.next \in Nat /\ Ids(c) \subseteq 1..c.next - 1 /\ 1 \in Int /\ c.next - 1 \in Int
      BY <1>2 DEF Framed
    <3>2. IsFiniteSet(1..c.next - 1)
      BY <3>1, FS_Interval
    <3> QED
      BY <3>1, <3>2, FS_Subset
  <2>2. \A i \in Ids(c) : Operands(c, i) \subseteq Ids(c)
    <3> TAKE i \in Ids(c)
    <3> DEFINE in == c.instrs[i].in
    <3>1. in \in Seq(Ids(c))
      BY <1>2 DEF IsInstruction
    <3> HIDE DEF in
    <3>2. ToSet(in) \subseteq Ids(c)
      BY <3>1 DEF ToSet
    <3> QED
      BY <3>2 DEF Operands, in
  <2> QED
    BY <2>1, <2>2, AcyclicGrounded
<1> QED
  BY <1>1, <1>2 DEF Sound, IsComputation

------------------------------------------------------------------------------
(* What a rewriter makes of a computation. *)

\* What every rewriter does to a computation: it leaves it sound, gives new instructions new
\* numbers, removes none outside gone, and does not change what an old one does.
Turned(c, d, gone) ==
  /\ Sound(d) /\ c.next <= d.next
  /\ \A j \in Ids(d) : j \in Ids(c) \/ j >= c.next
  /\ Ids(c) \ Ids(d) \subseteq gone
  /\ \A j \in Ids(c) \cap Ids(d) : Alike(c, d, j)

\* A rewriter that finds no match has turned a computation into itself.
LEMMA Unturned ==
  ASSUME NEW c, Sound(c), NEW gone
  PROVE  Turned(c, c, gone)
PROOF
<1>1. c.next \in Nat /\ c.next <= c.next
  BY SoundFacts
<1> QED
  BY <1>1 DEF Turned, Alike

\* Two rewrites in a row are one rewrite, which takes away what either does.
LEMMA TurnedTwice ==
  ASSUME NEW c, Sound(c), NEW d, NEW e, NEW gone, NEW more, Turned(c, d, gone), Turned(d, e, more)
  PROVE  Turned(c, e, gone \cup (more \cap Ids(c)))
PROOF
<1>1. c.next \in Nat /\ d.next \in Nat /\ e.next \in Nat
  BY SoundFacts DEF Turned
<1>2. c.next <= e.next
  BY <1>1 DEF Turned
<1>3. \A j \in Ids(c) \cup Ids(d) \cup Ids(e) : j \in Nat
  BY SoundFacts DEF Turned
<1>4. \A j \in Ids(e) : j \in Ids(c) \/ j >= c.next
  BY <1>1, <1>3 DEF Turned
<1>5. \A j \in Ids(c) \cap Ids(e) : j \in Ids(d)
  <2>1. \A j \in Ids(c) : j < c.next
    BY SoundFacts
  <2> QED
    BY <1>1, <1>3, <2>1 DEF Turned
<1>6. \A j \in Ids(c) \cap Ids(e) : Alike(c, e, j)
  BY <1>5 DEF Turned, Alike
<1> QED
  BY <1>2, <1>4, <1>6 DEF Turned

\* New instructions that read old ones of a closed set and those before them.
Addable(c, A, added, n) ==
  /\ Len(added) = n
  /\ \A k \in 1..n : /\ DOMAIN added[k] = Fields /\ TakesAsMany(added[k])
                     /\ added[k].in \in Seq(A \cup c.next..c.next + k - 2)

\* a is c and n instructions more; neither A nor A with all that is new reads anything outside
\* itself.
Enlarged(c, a, A, added, n) ==
  /\ Sound(a) /\ a.next = c.next + n
  /\ Ids(a) = Ids(c) \cup c.next..c.next + n - 1
  /\ \A j \in Ids(c) : /\ j < c.next /\ a.instrs[j] = c.instrs[j]
                       /\ Operands(a, j) = Operands(c, j)
  /\ \A k \in 1..n : a.instrs[c.next + k - 1] = added[k]
  /\ Closed(a, A) /\ Closed(a, A \cup c.next..c.next + n - 1)

\* Instructions that read what is there, or what was added before them, leave a computation
\* sound.
LEMMA AddedFacts ==
  ASSUME NEW c, Sound(c), NEW A, Closed(c, A), NEW n \in Nat, NEW added,
         Addable(c, A, added, n)
  PROVE  Enlarged(c, Add(c, added), A, added, n)
PROOF
<1> DEFINE a == Add(c, added)
<1>1. c.next \in Nat /\ \A j \in Ids(c) : j \in Nat /\ j < c.next
  BY SoundFacts
<1>2. A \subseteq Ids(c) /\ \A j \in A : Operands(c, j) \subseteq A
  BY DEF Closed
<1>3. \A k \in 1..n : added[k].in \in Seq(Ids(c) \cup c.next..c.next + k - 2)
  <2> TAKE k \in 1..n
  <2> DEFINE N == c.next..c.next + k - 2
  <2>1. added[k].in \in Seq(A \cup N)
    BY DEF Addable
  <2>2. A \cup N \subseteq Ids(c) \cup N
    BY <1>2
  <2> HIDE DEF N
  <2>3. added[k].in \in Seq(Ids(c) \cup N)
    BY <2>1, <2>2
  <2> QED
    BY <2>3 DEF N
<1>4. Sound(a)
  BY <1>3, AddSound DEF Addable
<1>5. /\ Ids(a) = Ids(c) \cup c.next..c.next + n - 1
      /\ a.next = c.next + n
      /\ \A j \in Ids(c) : a.instrs[j] = c.instrs[j]
      /\ \A k \in 1..n : a.instrs[c.next + k - 1] = added[k]
  BY AddFacts DEF Sound, Addable
<1> HIDE DEF a
<1>6. \A j \in Ids(c) : Operands(a, j) = Operands(c, j)
  BY <1>5 DEF Operands
<1> DEFINE N == c.next..c.next + n - 1
<1>7. \A j \in N : Operands(a, j) \subseteq A \cup N
  <2> TAKE j \in N
  <2>1. j - c.next + 1 \in 1..n /\ c.next + (j - c.next + 1) - 1 = j
    BY <1>1
  <2>2. PICK k \in 1..n : a.instrs[j] = added[k]
    BY <1>5, <2>1
  <2> DEFINE M == c.next..c.next + k - 2
             in == added[k].in
  <2>3. in \in Seq(A \cup M)
    BY DEF Addable
  <2>4. M \subseteq N
    BY <1>1
  <2> HIDE DEF M, N, in
  <2>5. ToSet(in) \subseteq A \cup M
    BY <2>3 DEF ToSet
  <2>6. Operands(a, j) = ToSet(in)
    BY <2>2 DEF Operands, in
  <2> QED
    BY <2>4, <2>5, <2>6
<1>8. Closed(a, A)
  BY <1>2, <1>5, <1>6 DEF Closed
<1>9. Closed(a, A \cup N)
  <2>1. Ids(a) = Ids(c) \cup N
    BY <1>5
  <2> HIDE DEF N
  <2> QED
    BY <1>2, <1>6, <1>7, <2>1 DEF Closed
<1> QED
  BY <1>1, <1>4, <1>5, <1>6, <1>8, <1>9 DEF a, Enlarged

\* Replacing an instruction by a new one that comes with others.
LEMMA TurnedByReplacing ==
  ASSUME NEW c, Sound(c), NEW a, Sound(a), c.next <= a.next, Ids(c) \subseteq Ids(a),
         \A j \in Ids(a) : j \in Ids(c) \/ j >= c.next,
         \A j \in Ids(c) : a.instrs[j] = c.instrs[j],
         NEW R, Closed(a, R), NEW old \in Ids(c), old \notin R, NEW new \in R
  PROVE  Turned(c, ReplaceInstruction(a, old, new), {old} \cup Ancestors(c, old))
PROOF
<1> DEFINE e == ReplaceInstruction(a, old, new)
<1>1. old \in Ids(a)
  OBVIOUS
<1>2. /\ Sound(e) /\ e.next = a.next
      /\ Ids(e) \subseteq Ids(a) \ {old}
      /\ Ids(a) \ Ids(e) \subseteq {old} \cup Ancestors(a, old)
      /\ \A j \in Ids(e) : Alike(a, e, j)
  BY <1>1, ReplaceInstructionFacts
<1> HIDE DEF e
<1>3. Ancestors(a, old) \subseteq Ancestors(c, old)
  <2>1. Closed(c, Ancestors(c, old)) /\ Operands(c, old) \subseteq Ancestors(c, old)
    BY AncestorsFacts
  <2>2. \A j \in Ids(c) : Operands(a, j) = Operands(c, j)
    BY DEF Operands
  <2>3. Closed(a, Ancestors(c, old)) /\ Operands(a, old) \subseteq Ancestors(c, old)
    BY <2>1, <2>2 DEF Closed
  <2> QED
    BY <1>1, <2>3, AncestorsFacts
<1>4. \A j \in Ids(c) \cap Ids(e) : Alike(c, e, j)
  BY <1>2 DEF Alike
<1> QED
  BY <1>2, <1>3, <1>4 DEF Turned, e

\* Replacing one of them by the last new one.
LEMMA TurnedByAdding ==
  ASSUME NEW c, Sound(c), NEW A, Closed(c, A), NEW n \in Nat, n >= 1, NEW added,
         Addable(c, A, added, n), NEW old \in Ids(c), old \notin A
  PROVE  Turned(c, ReplaceInstruction(Add(c, added), old, c.next + n - 1),
                {old} \cup Ancestors(c, old))
PROOF
<1> DEFINE a == Add(c, added)
           R == A \cup c.next..c.next + n - 1
<1>1. c.next \in Nat /\ \A j \in Ids(c) : j \in Nat /\ j < c.next
  BY SoundFacts
<1>2. /\ Sound(a) /\ Ids(a) = Ids(c) \cup c.next..c.next + n - 1 /\ a.next = c.next + n
      /\ \A j \in Ids(c) : a.instrs[j] = c.instrs[j]
      /\ Closed(a, R)
  <2>1. Enlarged(c, a, A, added, n)
    BY AddedFacts
  <2> HIDE DEF a
  <2> QED
    BY <2>1 DEF Enlarged
<1> HIDE DEF a
<1>3. /\ c.next <= a.next /\ Ids(c) \subseteq Ids(a)
      /\ \A j \in Ids(a) : j \in Ids(c) \/ j >= c.next
  BY <1>1, <1>2
<1>4. old \notin R /\ c.next + n - 1 \in R
  BY <1>1
<1> HIDE DEF R
<1> QED
  BY <1>2, <1>3, <1>4, TurnedByReplacing DEF a

\* An instruction that is made has its operation and its operands.
LEMMA InstrFacts ==
  ASSUME NEW op, NEW in, NEW type, NEW shape, NEW attr
  PROVE  /\ DOMAIN Instr(op, in, type, shape, attr) = Fields
         /\ Instr(op, in, type, shape, attr).op = op
         /\ Instr(op, in, type, shape, attr).in = in
  BY DEF Instr, Fields

\* A clone has the operation of the original and the operands it is given.
LEMMA CloneFacts ==
  ASSUME NEW c, Sound(c), NEW j \in Ids(c), NEW shape, NEW in
  PROVE  /\ DOMAIN Clone(c, j, shape, in) = Fields
         /\ Clone(c, j, shape, in).op = Op(c, j) /\ Clone(c, j, shape, in).in = in
PROOF
<1>1. DOMAIN c.instrs[j] = Fields
  BY DEF Sound, IsInstruction
<1> QED
  BY <1>1 DEF Clone, Fields, Op

\* Adding only.
LEMMA TurnedByEnlarging ==
  ASSUME NEW c, Sound(c), NEW a, NEW A, NEW added, NEW n \in Nat, Enlarged(c, a, A, added, n),
         NEW gone
  PROVE  Turned(c, a, gone)
PROOF
<1>1. c.next \in Nat /\ \A j \in Ids(c) : j \in Nat
  BY SoundFacts
<1>2. /\ Sound(a) /\ a.next = c.next + n
      /\ Ids(a) = Ids(c) \cup c.next..c.next + n - 1
      /\ \A j \in Ids(c) : a.instrs[j] = c.instrs[j]
  BY DEF Enlarged
<1>3. c.next <= a.next /\ \A j \in Ids(a) : j \in Ids(c) \/ j >= c.next
  BY <1>1, <1>2
<1> QED
  BY <1>2, <1>3 DEF Turned, Alike

\* What nothing that stays reads goes; a parameter reads nothing.
LEMMA HloDCEFacts ==
  ASSUME NEW c, Sound(c)
  PROVE  Sound(HloDCE(c)) /\ \A j \in Ids(HloDCE(c)) : j \in Ids(c) /\ Alike(c, HloDCE(c), j)
PROOF
<1> DEFINE live == Reached(c, {c.root})
           gone == {i \in Ids(c) \ live : Op(c, i) # "Parameter"}
           d == Without(c, gone)
<1>1. Closed(c, live) /\ c.root \in live
  <2>1. {c.root} \in SUBSET Ids(c)
    BY DEF Sound, Framed
  <2> QED
    BY <2>1, ReachedFacts
<1> HIDE DEF live
<1>2. \A j \in Ids(c) \ gone : Operands(c, j) \cap gone = {}
  BY <1>1, TakenFacts DEF Closed
<1>3. c.root \notin gone
  BY <1>1
<1>4. HloDCE(c) = d
  BY DEF HloDCE, live
<1> HIDE DEF gone
<1>5. Sound(d)
  BY <1>2, <1>3, WithoutSound
<1>6. Ids(d) = Ids(c) \ gone /\ \A j \in Ids(c) \ gone : d.instrs[j] = c.instrs[j]
  BY WithoutFacts DEF Sound
<1> QED
  BY <1>4, <1>5, <1>6 DEF Alike

\* An instruction whose operands are of a set.
Reads(instr, S) == DOMAIN instr = Fields /\ TakesAsMany(instr) /\ instr.in \in Seq(S)

\* What reads some of a set reads some of a larger one.
LEMMA ReadsMore ==
  ASSUME NEW instr, NEW S, NEW T, Reads(instr, S), S \subseteq T PROVE Reads(instr, T)
  BY DEF Reads

\* A sequence of instructions can be added when each reads those before it only.
LEMMA AddableFacts ==
  ASSUME NEW c, NEW A, NEW added, NEW n \in Nat, Len(added) = n,
         \A k \in 1..n : Reads(added[k], A \cup c.next..c.next + k - 2)
  PROVE  Addable(c, A, added, n)
  BY DEF Addable, Reads

\* One instruction.
LEMMA AddableOne ==
  ASSUME NEW c, NEW A, NEW x, Reads(x, A), NEW n \in Nat, n = 1
  PROVE  Addable(c, A, <<x>>, n)
PROOF
<1>1. \A k \in 1..1 : k = 1
  OBVIOUS
<1>2. \A N : Reads(x, A \cup N)
  BY ReadsMore
<1>3. Len(<<x>>) = 1 /\ <<x>>[1] = x
  OBVIOUS
<1> QED
  BY <1>1, <1>2, <1>3, AddableFacts

\* Two instructions, of which the second may read the first.
LEMMA AddableTwo ==
  ASSUME NEW c, c.next \in Nat, NEW A, NEW x, Reads(x, A), NEW y, Reads(y, A \cup {c.next}),
         NEW n \in Nat, n = 2
  PROVE  Addable(c, A, <<x, y>>, n)
PROOF
<1> DEFINE added == <<x, y>>
<1>1. \A k \in 1..2 : k = 1 \/ k = 2
  OBVIOUS
<1>2. \A N : Reads(x, A \cup N)
  BY ReadsMore
<1>3. c.next..c.next + 2 - 2 = {c.next}
  OBVIOUS
<1>4. Len(added) = 2 /\ added[1] = x /\ added[2] = y
  OBVIOUS
<1> HIDE DEF added
<1>5. \A k \in 1..2 : Reads(added[k], A \cup c.next..c.next + k - 2)
  BY <1>1, <1>2, <1>3, <1>4
<1>6. Addable(c, A, added, n)
  BY <1>4, <1>5, AddableFacts
<1> QED
  BY <1>6 DEF added

\* Three instructions, each of which may read those before it.
LEMMA AddableThree ==
  ASSUME NEW c, c.next \in Nat, NEW A, NEW x, Reads(x, A), NEW y, Reads(y, A \cup {c.next}),
         NEW z, Reads(z, A \cup {c.next, c.next + 1}), NEW n \in Nat, n = 3
  PROVE  Addable(c, A, <<x, y, z>>, n)
PROOF
<1> DEFINE added == <<x, y, z>>
<1>1. \A k \in 1..3 : k = 1 \/ k = 2 \/ k = 3
  OBVIOUS
<1>2. \A N : Reads(x, A \cup N)
  BY ReadsMore
<1>3. c.next..c.next + 2 - 2 = {c.next} /\ c.next..c.next + 3 - 2 = {c.next, c.next + 1}
  OBVIOUS
<1>4. Len(added) = 3 /\ added[1] = x /\ added[2] = y /\ added[3] = z
  OBVIOUS
<1> HIDE DEF added
<1>5. \A k \in 1..3 : Reads(added[k], A \cup c.next..c.next + k - 2)
  BY <1>1, <1>2, <1>3, <1>4
<1>6. Addable(c, A, added, n)
  BY <1>4, <1>5, AddableFacts
<1> QED
  BY <1>6 DEF added

\* A new instruction reads the operands it was made with.
LEMMA ReadsInstr ==
  ASSUME NEW op, NEW in, NEW type, NEW shape, NEW attr, NEW S, in \in Seq(S),
         TakesAsMany([op |-> op, in |-> in])
  PROVE  Reads(Instr(op, in, type, shape, attr), S)
PROOF
<1>1. TakesAsMany(Instr(op, in, type, shape, attr))
  BY DEF TakesAsMany, Instr
<1> QED
  BY <1>1, InstrFacts DEF Reads

\* So does a clone.
LEMMA ReadsClone ==
  ASSUME NEW c, Sound(c), NEW j \in Ids(c), NEW shape, NEW in, NEW S, in \in Seq(S),
         TakesAsMany([op |-> Op(c, j), in |-> in])
  PROVE  Reads(Clone(c, j, shape, in), S)
PROOF
<1>1. TakesAsMany(Clone(c, j, shape, in))
  BY CloneFacts DEF TakesAsMany
<1> QED
  BY <1>1, CloneFacts DEF Reads

\* How many operands the operations of the passes take.
LEMMA TakesFacts ==
  /\ \A x, op : op \in Unary => TakesAsMany([op |-> op, in |-> <<x>>])
  /\ \A x, y, op : op \in Binary => TakesAsMany([op |-> op, in |-> <<x, y>>])
  /\ \A x, y, z : TakesAsMany([op |-> "Select", in |-> <<x, y, z>>])
  /\ \A in : TakesAsMany([op |-> "Concatenate", in |-> in])
  /\ TakesAsMany([op |-> "Constant", in |-> <<>>])
  /\ "Broadcast" \in Unary /\ "Convert" \in Unary /\ "Slice" \in Unary
  /\ "Compare" \in Binary /\ "And" \in Binary /\ "Gather" \in Binary /\ "Multiply" \in Binary
PROOF
<1>1. Unary \cap Binary = {} /\ "Parameter" \notin Unary \cup Binary
      /\ "Select" \notin Unary \cup Binary
      /\ "Concatenate" \notin Unary \cup Binary /\ "Constant" \notin Unary \cup Binary
  BY DEF Unary, Binary
<1>2. /\ "Broadcast" \in Unary /\ "Convert" \in Unary /\ "Slice" \in Unary
      /\ "Compare" \in Binary /\ "And" \in Binary /\ "Gather" \in Binary /\ "Multiply" \in Binary
  BY DEF Unary, Binary
<1> QED
  BY <1>1, <1>2 DEF TakesAsMany

------------------------------------------------------------------------------
(* KDnnRewriters. *)

\* An instruction that a rewriter makes to hand numbers to a kernel; it reads nothing.
IsConstant(instr) == DOMAIN instr = Fields /\ instr.op = "Constant" /\ instr.in = <<>>

\* Those the rewriters make are of this kind.
LEMMA ConstantFacts ==
  /\ \A data : IsConstant(Vector(data))
  /\ \A instr : IsConstant(ParamInfo(instr))
PROOF
<1>1. \A data : IsConstant(Vector(data))
  BY DEF Vector, Instr, IsConstant, Fields
<1> QED
  BY <1>1 DEF ParamInfo

\* As many constants as a call takes.
AreConstants(constants, m) ==
  /\ constants \in Seq({constants[k] : k \in 1..m}) /\ Len(constants) = m
  /\ \A k \in 1..m : IsConstant(constants[k])

\* The call that takes the place of f reads some of its operands: none of them goes with it when
\* these are all.
Called(c, d, f, operands) ==
  /\ Turned(c, d, {f} \cup Ancestors(c, f))
  /\ Operands(c, f) \subseteq ToSet(operands) => Ids(c) \ Ids(d) \subseteq {f}

\* The call reads operands of the fusion and constants, and takes the place of the fusion: the
\* computation stays sound and only the fusion and what it alone depends on go.
LEMMA ReplaceByCallFacts ==
  ASSUME NEW c, Sound(c), NEW f \in Ids(c), f = c.next - 1, NEW target,
         NEW operands \in Seq(Operands(c, f)), NEW m \in Nat, NEW constants,
         AreConstants(constants, m)
  PROVE  Called(c, ReplaceByCall(c, target, operands, constants), f, operands)
PROOF
<1> DEFINE numbers == [k \in DOMAIN constants |-> c.next + k - 1]
           in == operands \o numbers
           call == Instr("CustomCall", in, Type(c, f), Shape(c, f), [target |-> target])
           added == Append(constants, call)
           a == Add(c, added)
           new == c.next + m
           e == ReplaceInstruction(a, f, new)
           N == c.next..c.next + m - 1
           A == Ancestors(c, f)
           C == {constants[k] : k \in 1..m}
<1>0. constants \in Seq(C) /\ Len(constants) = m /\ \A k \in 1..m : IsConstant(constants[k])
  BY DEF AreConstants
<1> HIDE DEF C
<1>1. c.next \in Nat /\ \A j \in Ids(c) : j \in Nat /\ j < c.next
  BY SoundFacts
<1>2. Closed(c, A) /\ Operands(c, f) \subseteq A /\ f \notin A /\ A \subseteq Ids(c)
  BY AncestorsFacts DEF Closed
<1>3. ReplaceByCall(c, target, operands, constants) = e
  BY <1>0 DEF ReplaceByCall
<1>4. numbers \in Seq(N) /\ DOMAIN constants = 1..m
  <2>1. DOMAIN constants = 1..m
    BY <1>0, LenProperties
  <2>2. \A k \in 1..m : c.next + k - 1 \in N
    BY <1>1
  <2>3. numbers = [k \in 1..m |-> c.next + k - 1]
    BY <2>1, Zenon
  <2> HIDE DEF N, numbers
  <2> QED
    BY <2>1, <2>2, <2>3
<1> HIDE DEF numbers, A
<1>5. /\ in \in Seq(A \cup N)
      /\ \A o \in ToSet(operands) : o \in ToSet(in)
  <2>1. operands \in Seq(A \cup N) /\ numbers \in Seq(A \cup N)
    <3> HIDE DEF N
    <3> QED
      BY <1>2, <1>4
  <2>2. in \in Seq(A \cup N)
    BY <2>1, ConcatProperties
  <2>3. /\ Len(operands) \in Nat /\ Len(numbers) \in Nat
        /\ Len(in) = Len(operands) + Len(numbers)
        /\ \A k \in 1..Len(operands) : in[k] = operands[k]
        /\ DOMAIN operands = 1..Len(operands) /\ DOMAIN in = 1..Len(in)
    <3> HIDE DEF N
    <3>1. Len(operands) \in Nat /\ Len(numbers) \in Nat
      BY <2>1, LenProperties
    <3>2. Len(in) = Len(operands) + Len(numbers)
      BY <2>1, ConcatProperties
    <3>3. \A k \in 1..Len(operands) : in[k] = operands[k]
      BY <2>1, <3>1, <3>2, ConcatProperties
    <3> HIDE DEF in
    <3> QED
      BY <2>1, <2>2, <3>1, <3>2, <3>3, LenProperties
  <2>4. \A k \in 1..Len(operands) : k \in 1..Len(in)
    BY <2>3
  <2> HIDE DEF in
  <2> QED
    BY <2>2, <2>3, <2>4 DEF ToSet
<1> HIDE DEF in
<1>6. DOMAIN call = Fields /\ call.op = "CustomCall" /\ call.in = in
  BY DEF Instr, Fields
<1> HIDE DEF call
<1>7. /\ Len(added) = m + 1 /\ added[m + 1] = call
      /\ \A k \in 1..m : added[k] = constants[k]
  <2>1. constants \in Seq(C \cup {call}) /\ call \in C \cup {call}
    BY <1>0
  <2> QED
    BY <1>0, <2>1, AppendProperties
<1> HIDE DEF added
<1>8. \A k \in 1..m + 1 : k \in 1..m \/ k = m + 1
  OBVIOUS
<1> HIDE DEF N
<1>9. Addable(c, A, added, m + 1)
  <2> SUFFICES \A k \in 1..m + 1 : /\ DOMAIN added[k] = Fields /\ TakesAsMany(added[k])
                                   /\ added[k].in \in Seq(A \cup c.next..c.next + k - 2)
    BY <1>7 DEF Addable
  <2> TAKE k \in 1..m + 1
  <2>1. CASE k \in 1..m
    <3>1. added[k] = constants[k] /\ IsConstant(constants[k])
      BY <1>0, <1>7, <2>1
    <3> QED
      BY <3>1 DEF IsConstant, TakesAsMany, Unary, Binary
  <2>2. CASE k = m + 1
    <3>1. added[k] = call
      BY <1>7, <2>2
    <3>2. TakesAsMany(call)
      BY <1>6 DEF TakesAsMany, Unary, Binary
    <3>3. N = c.next..c.next + k - 2
      <4>1. c.next + k - 2 = c.next + m - 1
        BY <1>1, <2>2
      <4> QED
        BY <4>1 DEF N
    <3>4. added[k].in \in Seq(A \cup N)
      BY <1>5, <1>6, <3>1
    <3> QED
      BY <1>6, <3>1, <3>2, <3>3, <3>4
  <2> QED
    BY <1>8, <2>1, <2>2
<1>10. m + 1 \in Nat /\ m + 1 >= 1 /\ c.next + (m + 1) - 1 = new
  BY <1>1
<1>11. Turned(c, e, {f} \cup A)
  <2>1. Turned(c, ReplaceInstruction(Add(c, added), f, c.next + (m + 1) - 1),
               {f} \cup Ancestors(c, f))
    BY <1>2, <1>9, <1>10, TurnedByAdding
  <2> QED
    BY <1>10, <2>1 DEF A
<1>12. ASSUME Operands(c, f) \subseteq ToSet(operands)
       PROVE  Ids(c) \ Ids(e) \subseteq {f}
  <2> DEFINE R == A \cup c.next..c.next + (m + 1) - 1
  <2>1. /\ Sound(a) /\ Closed(a, R)
        /\ Ids(a) = Ids(c) \cup c.next..c.next + (m + 1) - 1
        /\ \A j \in Ids(c) : Operands(a, j) = Operands(c, j)
        /\ \A k \in 1..m + 1 : a.instrs[c.next + k - 1] = added[k]
    <3>1. Enlarged(c, a, A, added, m + 1)
      BY <1>2, <1>9, <1>10, AddedFacts
    <3> HIDE DEF a
    <3> QED
      BY <3>1 DEF Enlarged
  <2> HIDE DEF a
  <2>2. a.instrs[new] = call
    <3>1. m + 1 \in 1..m + 1
      OBVIOUS
    <3> QED
      BY <1>7, <1>10, <2>1, <3>1
  <2>3. Operands(a, new) = ToSet(in)
    BY <1>6, <2>2 DEF Operands
  <2>4. f \in Ids(a) /\ new \in Ids(a) /\ new # f /\ f \notin R /\ new \in R
    BY <1>1, <1>2, <2>1
  <2> HIDE DEF R, new
  <2>5. \A o \in Operands(a, f) : \E u \in Ids(a) : u # f /\ o \in Operands(a, u)
    BY <1>5, <1>12, <2>1, <2>3, <2>4
  <2>6. Sound(a) /\ Closed(a, R) /\ f \in Ids(a) /\ f \notin R /\ new \in R
    BY <2>1, <2>4
  <2>7. Ids(e) = Ids(a) \ {f}
    BY <2>5, <2>6, ReplaceInstructionFacts
  <2> QED
    BY <2>1, <2>7
<1> QED
  BY <1>3, <1>11, <1>12 DEF A, Called

\* Up from an instruction, operand by operand.
LEMMA Upwards ==
  ASSUME NEW c, Sound(c), NEW i \in Ids(c), NEW j \in {i} \cup Ancestors(c, i)
  PROVE  /\ j \in Ids(c) /\ Operands(c, j) \subseteq Ancestors(c, i)
         /\ Op(c, j) \in Unary => Follow1(c, j, 0) \in Ancestors(c, i)
         /\ Op(c, j) \in Binary \cup {"Select"} =>
              Follow1(c, j, 0) \in Ancestors(c, i) /\ Follow1(c, j, 1) \in Ancestors(c, i)
         /\ Op(c, j) = "Select" => Follow1(c, j, 2) \in Ancestors(c, i)
PROOF
<1>1. j \in Ids(c) /\ Operands(c, j) \subseteq Ancestors(c, i)
  BY AncestorsFacts DEF Closed
<1> QED
  BY <1>1, TakenFacts

\* HandleDivide: the call of the softmax reads what the quotient depends on, so that only the
\* quotient and what it depends on can go.
LEMMA DivideFacts ==
  ASSUME NEW c, Sound(c), NEW i \in Ids(c)
  PROVE  Turned(c, HandleDivide(c, i), {i} \cup Ancestors(c, i))
PROOF
<1> DEFINE A == Ancestors(c, i)
           call == Instr("CustomCall", <<Producer(c, i)>>, Type(c, i), Shape(c, i),
                         [target |-> "__xnnpack$softmax"])
           added == <<call>>
<1>1. CASE HandleDivide(c, i) = c
  BY <1>1, Unturned
<1>2. CASE MatchesSoftmax(c, i) /\ HandleDivide(c, i) = ReplaceInstruction(Add(c, added), i, c.next)
  <2>1. /\ Op(c, i) = "Divide"
        /\ Op(c, Follow1(c, i, 0)) = "Exp"
        /\ Op(c, Follow1(c, Follow1(c, i, 0), 0)) = "Subtract"
    <3>1. MatchesLower(c, i) /\ Op(c, Operand(c, i, <<0, 0>>)) = "Subtract"
      BY <1>2 DEF MatchesSoftmax
    <3>2. Op(c, i) = "Divide" /\ Op(c, Operand(c, i, <<0>>)) = "Exp"
      BY <3>1 DEF MatchesLower
    <3> QED
      BY <3>1, <3>2, Operand1, Operand2
  <2>2. Follow1(c, i, 0) \in A
    BY <2>1, Upwards DEF Binary
  <2>3. Follow1(c, Follow1(c, i, 0), 0) \in A
    BY <2>1, <2>2, Upwards DEF Unary
  <2>4. Producer(c, i) \in A
    <3>1. Producer(c, i) = Follow1(c, Follow1(c, Follow1(c, i, 0), 0), 0)
      BY Operand3 DEF Producer
    <3> QED
      BY <2>1, <2>3, <3>1, Upwards DEF Binary
  <2>5. Closed(c, A) /\ i \notin A /\ c.next \in Nat
    BY AncestorsFacts, SoundFacts
  <2>6. Addable(c, A, added, 1)
    <3>1. Len(added) = 1 /\ added[1] = call
      OBVIOUS
    <3>2. DOMAIN call = Fields /\ call.op = "CustomCall" /\ call.in = <<Producer(c, i)>>
      BY InstrFacts
    <3>5. \A k \in 1..1 : k = 1
      OBVIOUS
    <3> HIDE DEF added, call
    <3>3. TakesAsMany(call)
      BY <3>2 DEF TakesAsMany, Unary, Binary
    <3>4. call.in \in Seq(A \cup c.next..c.next + 1 - 2)
      <4> DEFINE N == c.next..c.next + 1 - 2
      <4> HIDE DEF N, A
      <4> QED
        BY <2>4, <3>2
    <3> QED
      BY <3>1, <3>2, <3>3, <3>4, <3>5 DEF Addable
  <2>7. Turned(c, ReplaceInstruction(Add(c, added), i, c.next + 1 - 1), {i} \cup A)
    <3> HIDE DEF added
    <3>1. PICK n \in Nat : n = 1
      OBVIOUS
    <3>2. n >= 1 /\ Addable(c, A, added, n)
      BY <2>6, <3>1
    <3>3. Turned(c, ReplaceInstruction(Add(c, added), i, c.next + n - 1), {i} \cup A)
      BY <2>5, <3>2, TurnedByAdding
    <3> QED
      BY <3>1, <3>3
  <2> QED
    BY <1>2, <2>5, <2>7
<1> QED
  BY <1>1, <1>2 DEF HandleDivide

\* An element put before a sequence.
LEMMA InFront ==
  ASSUME NEW S, NEW x \in S, NEW s \in Seq(S)
  PROVE  /\ <<x>> \o s \in Seq(S) /\ Len(<<x>> \o s) = Len(s) + 1
         /\ (<<x>> \o s)[1] = x
         /\ \A k \in 1..Len(s) : (<<x>> \o s)[k + 1] = s[k]
PROOF
<1>1. Len(s) \in Nat
  BY LenProperties
<1> DEFINE one == <<x>>
<1>2. one \in Seq(S) /\ Len(one) = 1 /\ one[1] = x
  OBVIOUS
<1> HIDE DEF one
<1>3. /\ one \o s \in Seq(S) /\ Len(one \o s) = 1 + Len(s)
      /\ \A k \in 1..1 + Len(s) : (one \o s)[k] = IF k <= 1 THEN one[k] ELSE s[k - 1]
  <2>1. /\ one \o s \in Seq(S) /\ Len(one \o s) = Len(one) + Len(s)
        /\ \A k \in 1..Len(one) + Len(s) :
             (one \o s)[k] = IF k <= Len(one) THEN one[k] ELSE s[k - Len(one)]
    BY <1>2, ConcatProperties
  <2> DEFINE t == one \o s
  <2> HIDE DEF t
  <2> QED
    BY <1>2, <2>1 DEF t
<1>4. \A k \in 1..Len(s) : (one \o s)[k + 1] = s[k]
  BY <1>1, <1>3
<1>5. (one \o s)[1] = x
  BY <1>1, <1>2, <1>3
<1> QED
  BY <1>1, <1>2, <1>3, <1>4, <1>5 DEF one

\* A match: each instruction reads the next one, down to i.
ChainTo(c, i, s, n, Later) ==
  /\ s \in Seq(Ids(c)) /\ Len(s) = n /\ s[n] = i
  /\ \A k \in 1..n - 1 : s[k + 1] \in Operands(c, s[k]) /\ Op(c, s[k]) \in Later

\* One step of Matched.
Following(p, found, k) == Follow(p.c, p.i, p.links, found, k)

\* How far Matched gets.
Chain == INSTANCE Recursion WITH Step <- Following

\* A pattern is matched as a chain: each instruction is read by the next, and all but the first
\* are of the operations the pattern goes on with.
LEMMA MatchedFacts ==
  ASSUME NEW c, Sound(c), NEW i \in Ids(c), NEW links, NEW m \in Nat, Len(links) = m,
         NEW Later, \A k \in 2..m : links[k].op \in Later
  PROVE  \/ Matched(c, i, links) = <<>>
         \/ \E n \in Nat : n >= 1 /\ ChainTo(c, i, Matched(c, i, links), n, Later)
PROOF
<1> DEFINE p == [c |-> c, i |-> i, links |-> links]
<1>1. Matched(c, i, links) = Chain!Counted(p, <<>>, m)
  BY DEF Matched, Chain!Counted, Following
<1>2. \A found, k : Following(p, found, k) = Follow(c, i, links, found, k)
  BY DEF Following
<1> HIDE DEF p
<1>3. PICK acc : Chain!CountsTo(p, <<>>, m, acc)
  BY Chain!CountSteps
<1>4. /\ acc[0] = <<>> /\ Matched(c, i, links) = acc[m]
      /\ \A k \in 1..m : acc[k] = Follow(c, i, links, acc[k - 1], k)
  BY <1>1, <1>2, <1>3 DEF Chain!CountsTo
<1> DEFINE Good(s) == s = <<>> \/ \E n \in Nat : n >= 1 /\ ChainTo(c, i, s, n, Later)
           T == {k \in 0..m : Good(acc[k])}
<1>5. 0 \in T
  BY <1>4
<1>6. ASSUME NEW k \in 1..m, k - 1 \in T
      PROVE  k \in T
  <2> DEFINE found == acc[k - 1]
             at == IF k = 1 THEN <<i>> ELSE IF found = <<>> THEN <<>> ELSE Users(c, found[1])
  <2>1. acc[k] = IF at # <<>> /\ FitsLink(c, at[1], links[k]) THEN <<at[1]>> \o found ELSE <<>>
    BY <1>4 DEF Follow
  <2>2. Good(found)
    BY <1>6
  <2>3. CASE k = 1
    <3>1. found = <<>> /\ at = <<i>>
      BY <1>4, <2>3
    <3>2. at[1] = i /\ at # <<>>
      BY <3>1
    <3>3. acc[k] = <<>> \/ acc[k] = <<i>> \o <<>>
      BY <2>1, <3>1, <3>2
    <3> DEFINE none == <<>>
    <3>4. none \in Seq(Ids(c)) /\ Len(none) = 0
      OBVIOUS
    <3> HIDE DEF none
    <3>5. /\ <<i>> \o none \in Seq(Ids(c)) /\ Len(<<i>> \o none) = 1 /\ (<<i>> \o none)[1] = i
      BY <3>4, InFront
    <3>6. ChainTo(c, i, <<i>> \o none, 1, Later)
      BY <3>5 DEF ChainTo
    <3> HIDE DEF found, at
    <3> QED
      BY <3>3, <3>6 DEF none
  <2>4. CASE k # 1 /\ found = <<>>
    <3>1. at = <<>>
      BY <2>4
    <3> HIDE DEF at, found
    <3> QED
      BY <2>1, <3>1
  <2>5. CASE k # 1 /\ found # <<>> /\ acc[k] # <<>>
    <3> DEFINE u == Users(c, found[1])[1]
    <3>1. at = Users(c, found[1])
      BY <2>5
    <3> HIDE DEF found
    <3>2. PICK n \in Nat : n >= 1 /\ ChainTo(c, i, found, n, Later)
      BY <2>2, <2>5
    <3>3. at # <<>> /\ FitsLink(c, u, links[k]) /\ acc[k] = <<u>> \o found
      <4> HIDE DEF at
      <4> QED
        BY <2>1, <2>5, <3>1
    <3>4. u \in Ids(c) /\ found[1] \in Operands(c, u)
      <4> DEFINE users == Users(c, found[1])
      <4>1. /\ users \in Seq(Ids(c)) /\ users # <<>>
            /\ \A j \in 1..Len(users) : users[j] \in Ids(c) /\ found[1] \in Operands(c, users[j])
        BY <3>1, <3>3, UsersFacts
      <4> HIDE DEF users
      <4>2. 1 \in 1..Len(users)
        BY <4>1, LenProperties, EmptySeq
      <4> QED
        BY <4>1, <4>2 DEF users
    <3>5. Op(c, u) \in Later
      <4>1. k \in 2..m
        BY <2>5
      <4>2. Op(c, u) = links[k].op
        BY <3>3 DEF FitsLink
      <4> QED
        BY <4>1, <4>2
    <3> HIDE DEF u, at
    <3>6. /\ found \in Seq(Ids(c)) /\ Len(found) = n /\ found[n] = i
          /\ \A j \in 1..n - 1 : found[j + 1] \in Operands(c, found[j]) /\ Op(c, found[j]) \in Later
      BY <3>2 DEF ChainTo
    <3> DEFINE s == <<u>> \o found
    <3>7. /\ s \in Seq(Ids(c)) /\ Len(s) = n + 1 /\ s[1] = u
          /\ \A j \in 1..n : s[j + 1] = found[j]
      BY <3>4, <3>6, InFront
    <3> HIDE DEF s
    <3>8. s[n + 1] = i
      BY <3>2, <3>6, <3>7
    <3>9. ASSUME NEW j \in 1..n
          PROVE  s[j + 1] \in Operands(c, s[j]) /\ Op(c, s[j]) \in Later
      <4>1. CASE j = 1
        BY <3>4, <3>5, <3>7, <4>1
      <4>2. CASE j # 1
        <5>1. j - 1 \in 1..n - 1 /\ (j - 1) + 1 = j
          BY <4>2
        <5>2. s[j + 1] = found[j] /\ s[j] = found[j - 1]
          BY <3>7, <5>1
        <5> QED
          BY <3>6, <5>1, <5>2
      <4> QED
        BY <4>1, <4>2
    <3>10. ChainTo(c, i, s, n + 1, Later)
      BY <3>7, <3>8, <3>9 DEF ChainTo
    <3>11. n + 1 \in Nat /\ n + 1 >= 1
      BY <3>2
    <3>12. Good(s)
      BY <3>10, <3>11
    <3> HIDE DEF Good
    <3>13. Good(acc[k])
      BY <3>3, <3>12 DEF s
    <3> QED
      BY <3>13
  <2> HIDE DEF Good
  <2>6. Good(acc[k])
    <3>1. CASE acc[k] = <<>>
      BY <3>1 DEF Good
    <3> HIDE DEF found
    <3> QED
      BY <2>3, <2>4, <2>5, <3>1 DEF T
  <2> QED
    BY <2>6
<1> HIDE DEF T
<1>7. \A k \in 0..m : k \in T
  BY <1>5, <1>6, Chain!StepByStep
<1>8. m \in T
  BY <1>7
<1> QED
  BY <1>4, <1>8 DEF T

\* What is fused, from the root up.
Fusible(c, i, fused, n) ==
  /\ n >= 1 /\ DOMAIN fused = 1..n /\ fused[1] = i
  /\ \A k \in 2..n : fused[k] \in Ancestors(c, i)

\* The instructions that are fused.
Parts(fused, n) == {fused[k] : k \in 1..n}

\* CreateFusion leaves a computation sound, in which the fusion depends on nothing that depends
\* on it; of the instructions only fused ones go, which are the visited one and what it depends
\* on.
LEMMA FusedFacts ==
  ASSUME NEW c, Sound(c), NEW i \in Ids(c), NEW n \in Nat, NEW fused, Fusible(c, i, fused, n)
  PROVE  /\ Turned(c, CreateFusion(c, fused), Parts(fused, n))
         /\ Parts(fused, n) \subseteq {i} \cup Ancestors(c, i)
         /\ c.next \in Ids(CreateFusion(c, fused)) /\ c.next \notin Ids(c)
         /\ c.next = CreateFusion(c, fused).next - 1
         /\ CreateFusion(c, fused).instrs[c.next].in = FusionOperands(c, fused)
         /\ Ancestors(CreateFusion(c, fused), c.next) \subseteq Ancestors(c, i)
PROOF
<1> DEFINE A == Ancestors(c, i)
           d == CreateFusion(c, fused)
<1>1. Closed(c, A) /\ Operands(c, i) \subseteq A /\ i \notin A
  BY AncestorsFacts
<1>2. n >= 1 /\ DOMAIN fused = 1..n /\ fused[1] = i /\ \A k \in 2..n : fused[k] \in A
  BY DEF Fusible
<1>3. fused[1] \in Ids(c) \ A /\ Operands(c, fused[1]) \subseteq A
  BY <1>1, <1>2
<1>4. /\ Sound(d) /\ d.next = c.next + 1
      /\ c.next \in Ids(d) /\ c.next \notin Ids(c)
      /\ Ids(d) \subseteq Ids(c) \cup {c.next}
      /\ Ids(c) \ Ids(d) \subseteq {fused[k] : k \in 1..n}
      /\ \A j \in Ids(d) \ {c.next} : Alike(c, d, j)
      /\ d.instrs[c.next].in = FusionOperands(c, fused)
      /\ FusionOperands(c, fused) \in Seq(A)
      /\ \A j \in Ids(d) \cap A : Operands(d, j) \subseteq A
  <2> HIDE DEF A
  <2> QED
    BY <1>1, <1>2, <1>3, CreateFusionFacts
<1> HIDE DEF d
<1>5. c.next \in Nat
  BY SoundFacts
<1>6. Turned(c, d, Parts(fused, n))
  <2>1. c.next <= d.next /\ \A j \in Ids(d) : j \in Ids(c) \/ j >= c.next
    BY <1>4, <1>5
  <2> QED
    BY <1>4, <2>1 DEF Turned, Parts
<1>7. Parts(fused, n) \subseteq {i} \cup A
  <2>1. \A k \in 1..n : k = 1 \/ k \in 2..n
    OBVIOUS
  <2> HIDE DEF A
  <2> QED
    BY <1>2, <2>1 DEF Parts
<1>8. c.next = d.next - 1
  BY <1>4, <1>5
<1>9. Ancestors(d, c.next) \subseteq A
  <2> DEFINE R == A \cap Ids(d)
             operands == FusionOperands(c, fused)
  <2>1. Operands(d, c.next) = ToSet(operands)
    BY <1>4 DEF Operands
  <2>2. ToSet(operands) \subseteq A
    <3>1. operands \in Seq(A)
      BY <1>4
    <3> HIDE DEF operands, A
    <3> QED
      BY <3>1 DEF ToSet
  <2>3. Operands(d, c.next) \subseteq Ids(d) /\ \A j \in Ids(d) : Operands(d, j) \subseteq Ids(d)
    BY <1>4, SoundFacts
  <2>4. Operands(d, c.next) \subseteq R
    BY <2>1, <2>2, <2>3
  <2> HIDE DEF A
  <2>5. Closed(d, R)
    BY <1>4, <2>3 DEF Closed
  <2>6. Ancestors(d, c.next) \subseteq R
    BY <1>4, <2>4, <2>5, AncestorsFacts
  <2> QED
    BY <2>6
<1> QED
  BY <1>4, <1>6, <1>7, <1>8, <1>9 DEF d

\* The same with the call that takes the fusion's place.
LEMMA FusedCallFacts ==
  ASSUME NEW c, Sound(c), NEW i \in Ids(c), NEW n \in Nat, NEW fused, Fusible(c, i, fused, n),
         NEW target, NEW operands \in Seq(Operands(CreateFusion(c, fused), c.next)),
         NEW m \in Nat, NEW constants, AreConstants(constants, m)
  PROVE  /\ Turned(c, ReplaceByCall(CreateFusion(c, fused), target, operands, constants),
                   {i} \cup Ancestors(c, i))
         /\ Operands(CreateFusion(c, fused), c.next) \subseteq ToSet(operands) =>
              Turned(c, ReplaceByCall(CreateFusion(c, fused), target, operands, constants),
                     Parts(fused, n))
PROOF
<1> DEFINE A == Ancestors(c, i)
           d == CreateFusion(c, fused)
           e == ReplaceByCall(d, target, operands, constants)
           f == c.next
<1>1. /\ Turned(c, d, Parts(fused, n)) /\ Parts(fused, n) \subseteq {i} \cup A
      /\ f \in Ids(d) /\ f \notin Ids(c) /\ f = d.next - 1
      /\ Ancestors(d, f) \subseteq A
  BY FusedFacts
<1>2. Sound(d) /\ operands \in Seq(Operands(d, f))
  BY <1>1 DEF Turned
<1> HIDE DEF d, f
<1>3. Called(d, e, f, operands)
  <2>1. f \in Ids(d) /\ f = d.next - 1
    BY <1>1
  <2> QED
    BY <1>2, <2>1, ReplaceByCallFacts
<1> HIDE DEF e
<1>4. Turned(c, e, Parts(fused, n) \cup (({f} \cup Ancestors(d, f)) \cap Ids(c)))
  BY <1>1, <1>3, TurnedTwice DEF Called
<1> HIDE DEF A
<1>5. Turned(c, e, {i} \cup A)
  BY <1>1, <1>4 DEF Turned
<1>6. ASSUME Operands(d, f) \subseteq ToSet(operands)
      PROVE  Turned(c, e, Parts(fused, n))
  <2>1. Turned(d, e, {f})
    BY <1>3, <1>6 DEF Turned, Called
  <2>2. Turned(c, e, Parts(fused, n) \cup ({f} \cap Ids(c)))
    BY <1>1, <2>1, TurnedTwice
  <2>3. {f} \cap Ids(c) = {}
    BY <1>1
  <2> QED
    BY <2>2, <2>3 DEF Turned
<1> QED
  BY <1>5, <1>6 DEF A, d, e, f

------------------------------------------------------------------------------
(* What each of the rewriters of KDnnFusionAfterHloLayoutAssign makes of a computation. *)

\* The instructions that a rewrite may take away besides the one it is about and what that
\* depends on: a pass comes to none of these.
Spent == {"Slice", "Reduce", "Add", "Maximum"}

\* What a rewriter that visits i may remove: i, what it depends on, and instructions no pass
\* visits.
MayGo(c, i) == {i} \cup Ancestors(c, i) \cup {j \in Ids(c) : Op(c, j) \in Spent}

\* To remove less is to stay within what may go.
LEMMA TurnedWithin ==
  ASSUME NEW c, NEW d, NEW i, NEW gone, Turned(c, d, gone),
         gone \cap Ids(c) \subseteq MayGo(c, i)
  PROVE  Turned(c, d, MayGo(c, i))
  BY DEF Turned

\* The shapes of the operands are handed over as constants.
LEMMA InfosAreConstants ==
  ASSUME NEW n \in Nat, NEW operands, DOMAIN operands = 1..n, NEW instrs
  PROVE  AreConstants([k \in DOMAIN operands |-> ParamInfo(instrs[operands[k]])], n)
PROOF
<1> DEFINE constants == [k \in 1..n |-> ParamInfo(instrs[operands[k]])]
           S == {constants[k] : k \in 1..n}
<1>1. \A k \in 1..n : constants[k] \in S /\ IsConstant(constants[k])
  BY ConstantFacts
<1>2. constants = [k \in DOMAIN operands |-> ParamInfo(instrs[operands[k]])]
  OBVIOUS
<1>3. DOMAIN constants = 1..n /\ constants = [k \in 1..n |-> constants[k]]
  OBVIOUS
<1> HIDE DEF constants
<1>4. constants \in Seq(S) /\ Len(constants) = n
  <2> HIDE DEF S
  <2> QED
    BY <1>1, <1>3
<1> QED
  BY <1>1, <1>2, <1>4 DEF AreConstants

\* The rewriters of products whose match is a chain of users.
Patterns == {"__matmul", "__batch_matmul", "__matmul_add", "__matmul_add_relu"}

\* Such a chain starts at the product and goes on with sums and maxima.
LEMMA PatternLinks ==
  ASSUME NEW name \in Patterns
  PROVE  \E m \in Nat : /\ m = Len(Pattern(name))
                        /\ \A k \in 2..m : Pattern(name)[k].op \in {"Add", "Maximum"}
PROOF
<1>1. CASE name \in {"__matmul", "__batch_matmul"}
  <2>1. \E link : Pattern(name) = <<link>>
    BY <1>1 DEF Pattern
  <2>2. Len(Pattern(name)) = 1
    BY <2>1
  <2>3. \A k \in 2..1 : FALSE
    OBVIOUS
  <2> QED
    BY <2>2, <2>3
<1>2. CASE name = "__matmul_add"
  <2>1. \E link : Pattern(name) = <<link, Link("Add", <<>>, <<>>)>>
    BY <1>2 DEF Pattern
  <2>2. Len(Pattern(name)) = 2 /\ Pattern(name)[2] = Link("Add", <<>>, <<>>)
    BY <2>1
  <2>3. \A k \in 2..2 : k = 2
    OBVIOUS
  <2> QED
    BY <2>2, <2>3 DEF Link
<1>3. CASE name = "__matmul_add_relu"
  <2>1. \E link : Pattern(name) = <<link, Link("Add", <<>>, <<>>), Link("Maximum", <<>>, <<>>)>>
    BY <1>3 DEF Pattern
  <2>2. /\ Len(Pattern(name)) = 3 /\ Pattern(name)[2] = Link("Add", <<>>, <<>>)
        /\ Pattern(name)[3] = Link("Maximum", <<>>, <<>>)
    BY <2>1
  <2>3. \A k \in 2..3 : k = 2 \/ k = 3
    OBVIOUS
  <2> QED
    BY <2>2, <2>3 DEF Link
<1> QED
  BY <1>1, <1>2, <1>3 DEF Patterns

\* A match is a chain of readers above a product; the call takes over all that it reads.
LEMMA PatternFacts ==
  ASSUME NEW c, Sound(c), NEW i \in Ids(c), NEW name \in Patterns, MatchesPattern(c, i, name)
  PROVE  Turned(c, FusePattern(c, i, name), MayGo(c, i))
PROOF
<1> DEFINE s == Matched(c, i, Pattern(name))
           Later == {"Add", "Maximum"}
<1>1. PICK n \in Nat : n >= 1 /\ ChainTo(c, i, s, n, Later)
  <2>1. PICK m \in Nat : m = Len(Pattern(name)) /\ \A k \in 2..m : Pattern(name)[k].op \in Later
    BY PatternLinks
  <2>2. s # <<>>
    BY DEF MatchesPattern
  <2> HIDE DEF s, Later
  <2> QED
    BY <2>1, <2>2, MatchedFacts DEF s
<1> DEFINE root == s[1]
           operands == CreateFusion(c, s).instrs[c.next].in
<1>2. FusePattern(c, i, name) =
        ReplaceByCall(CreateFusion(c, s), name, operands,
                      [k \in DOMAIN operands |-> ParamInfo(CreateFusion(c, s).instrs[operands[k]])])
  BY DEF FusePattern
<1> HIDE DEF s, Later
<1>3. /\ s \in Seq(Ids(c)) /\ Len(s) = n /\ DOMAIN s = 1..n /\ s[n] = i
      /\ \A k \in 1..n : s[k] \in Ids(c)
      /\ \A k \in 1..n - 1 : s[k + 1] \in Operands(c, s[k]) /\ Op(c, s[k]) \in Later
  BY <1>1, LenProperties, ElementOfSeq DEF ChainTo
<1>4. root \in Ids(c)
  BY <1>1, <1>3
<1>5. Fusible(c, root, s, n)
  <2> DEFINE A == Ancestors(c, root)
             T == {k \in 0..n - 1 : s[k + 1] \in {root} \cup A /\ (k > 0 => s[k + 1] \in A)}
  <2>1. 0 \in T
    BY <1>1
  <2>2. ASSUME NEW k \in 1..n - 1, k - 1 \in T
        PROVE  k \in T
    <3>1. s[k] \in {root} \cup A /\ s[k + 1] \in Operands(c, s[k])
      BY <1>3, <2>2
    <3>2. Operands(c, s[k]) \subseteq A
      <4> HIDE DEF root
      <4> QED
        BY <1>4, <3>1, Upwards
    <3> QED
      BY <3>1, <3>2
  <2> HIDE DEF T
  <2>3. n - 1 \in Nat
    BY <1>1
  <2>4. \A k \in 0..n - 1 : k \in T
    BY <2>1, <2>2, <2>3, Chain!StepByStep
  <2>5. \A k \in 2..n : s[k] \in A
    <3> TAKE k \in 2..n
    <3>1. k - 1 \in 0..n - 1 /\ k - 1 > 0 /\ (k - 1) + 1 = k
      BY <1>1
    <3>2. k - 1 \in T
      BY <2>4, <3>1
    <3> QED
      BY <3>1, <3>2 DEF T
  <2> QED
    BY <1>1, <1>3, <2>5 DEF Fusible
<1>6. \A k \in 1..n : s[k] = i \/ Op(c, s[k]) \in Later
  <2>1. \A k \in 1..n : k = n \/ k \in 1..n - 1
    OBVIOUS
  <2> QED
    BY <1>3, <2>1
<1>7. Parts(s, n) \subseteq MayGo(c, i)
  BY <1>3, <1>6 DEF Parts, MayGo, Later, Spent
<1> HIDE DEF root
<1>8. /\ operands = FusionOperands(c, s)
      /\ Turned(c, CreateFusion(c, s), Parts(s, n)) /\ c.next \in Ids(CreateFusion(c, s))
  BY <1>4, <1>5, FusedFacts
<1> DEFINE d == CreateFusion(c, s)
<1> HIDE DEF d
<1>9. d.instrs[c.next].in \in Seq(Ids(d)) /\ Operands(d, c.next) = ToSet(d.instrs[c.next].in)
  BY <1>8 DEF Turned, Operands, d, Sound, IsInstruction
<1> DEFINE ops == d.instrs[c.next].in
<1>10. /\ ops = operands
       /\ ops \in Seq(ToSet(ops)) /\ Len(ops) \in Nat /\ DOMAIN ops = 1..Len(ops)
  <2>1. ops \in Seq(Ids(d))
    BY <1>9
  <2>2. ops = operands
    BY DEF d
  <2> HIDE DEF ops, operands
  <2> QED
    BY <2>1, <2>2, LenProperties DEF ToSet
<1>11. PICK m \in Nat : m = Len(ops)
  BY <1>10
<1> DEFINE constants == [k \in DOMAIN ops |-> ParamInfo(d.instrs[ops[k]])]
<1>12. AreConstants(constants, m)
  <2>1. DOMAIN ops = 1..m
    BY <1>10, <1>11
  <2> HIDE DEF ops
  <2> QED
    BY <2>1, InfosAreConstants
<1>13. FusePattern(c, i, name) = ReplaceByCall(d, name, ops, constants)
  BY <1>2, <1>10 DEF d
<1>14. ops \in Seq(Operands(d, c.next)) /\ Operands(d, c.next) \subseteq ToSet(ops)
  BY <1>9, <1>10
<1> HIDE DEF ops, constants
<1>15. Turned(c, ReplaceByCall(d, name, ops, constants), Parts(s, n))
  BY <1>4, <1>5, <1>12, <1>14, FusedCallFacts DEF d
<1> QED
  BY <1>7, <1>13, <1>15 DEF Turned

\* The constants of a product whose weights are packed.
LEMMA TwoConstants ==
  ASSUME NEW x, NEW y, IsConstant(x), IsConstant(y)
  PROVE  AreConstants(<<x, y>>, 2)
PROOF
<1> DEFINE constants == <<x, y>>
           S == {constants[k] : k \in 1..2}
<1>1. \A k \in 1..2 : k = 1 \/ k = 2
  OBVIOUS
<1>2. \A k \in 1..2 : IsConstant(constants[k])
  BY <1>1
<1>3. constants[1] = x /\ constants[2] = y
  OBVIOUS
<1>4. x \in S /\ y \in S
  BY <1>3
<1>5. constants \in Seq(S) /\ Len(constants) = 2
  <2> HIDE DEF S
  <2> QED
    BY <1>4
<1> QED
  BY <1>2, <1>5 DEF AreConstants

\* The rewriter of products whose weights are packed: it replaces the product alone.
LEMMA LayoutMatmulFacts ==
  ASSUME NEW c, Sound(c), NEW i \in Ids(c), MatchesLayoutMatmul(c, i)
  PROVE  Turned(c, FuseLayoutMatmul(c, i), MayGo(c, i))
PROOF
<1> DEFINE fused == <<i>>
           param == Operand(c, i, <<1>>)
           d == CreateFusion(c, fused)
           lhs == d.instrs[c.next].in[1]
           ops == <<lhs, param>>
           constants == <<ParamInfo(c.instrs[lhs]), ParamInfo(c.instrs[param])>>
<1>1. FuseLayoutMatmul(c, i) = ReplaceByCall(d, "__layout_matmul", ops, constants)
  BY DEF FuseLayoutMatmul
<1>2. AreConstants(constants, 2)
  BY ConstantFacts, TwoConstants
<1>3. DOMAIN fused = 1..1 /\ fused[1] = i
  OBVIOUS
<1> HIDE DEF fused, constants
<1>4. PICK n \in Nat : n = 1
  OBVIOUS
<1>5. PICK m \in Nat : m = 2
  OBVIOUS
<1>6. Fusible(c, i, fused, n)
  BY <1>3, <1>4 DEF Fusible
<1>7. /\ Turned(c, d, Parts(fused, n)) /\ c.next \in Ids(d)
      /\ d.instrs[c.next].in = FusionOperands(c, fused)
  BY <1>6, FusedFacts
<1>8. Operands(c, i) \subseteq ToSet(FusionOperands(c, fused))
  <2>1. \A k \in 1..n : fused[k] \in Ids(c) /\ Operands(c, fused[k]) \subseteq Operands(c, i)
    BY <1>3, <1>4
  <2>2. DOMAIN fused = 1..n /\ n = 1 /\ fused[1] = i
    BY <1>3, <1>4
  <2> QED
    BY <2>1, <2>2, FusionOperandsFacts
<1>9. param \in Operands(c, i)
  BY TakenFacts, Operand1 DEF MatchesLayoutMatmul, Binary
<1> HIDE DEF d, param
<1> DEFINE in == d.instrs[c.next].in
<1>10. in \in Seq(Ids(d)) /\ Operands(d, c.next) = ToSet(in) /\ param \in ToSet(in)
  BY <1>7, <1>8, <1>9 DEF Turned, Sound, IsInstruction, Operands
<1>11. in[1] \in ToSet(in)
  <2> HIDE DEF in
  <2>1. Len(in) \in Nat /\ DOMAIN in = 1..Len(in)
    BY <1>10, LenProperties
  <2>2. 1 \in DOMAIN in
    BY <1>10, <2>1 DEF ToSet
  <2> QED
    BY <2>2 DEF ToSet
<1>12. ops \in Seq(Operands(d, c.next))
  BY <1>10, <1>11
<1> HIDE DEF ops
<1>13. Turned(c, ReplaceByCall(d, "__layout_matmul", ops, constants), {i} \cup Ancestors(c, i))
  <2>1. AreConstants(constants, m)
    BY <1>2, <1>5
  <2> QED
    BY <1>6, <1>12, <2>1, FusedCallFacts DEF d
<1> QED
  BY <1>1, <1>13 DEF Turned, MayGo

\* The rewriter of lookups, provided that the first bound it reads has an operand.
LEMMA Embedding2Facts ==
  ASSUME NEW c, Sound(c), NEW i \in Ids(c), MatchesEmbedding2(c, i),
         c.instrs[Operand(c, i, <<0, 0, 0, 0, 1>>)].in # <<>>
  PROVE  Turned(c, FuseEmbedding2(c, i), MayGo(c, i))
PROOF
<1> DEFINE A == Ancestors(c, i)
           left == Follow1(c, i, 0)
           gather == Follow1(c, i, 1)
           convert == Follow1(c, left, 0)
           and == Follow1(c, convert, 0)
           comp0 == Follow1(c, and, 0)
           comp1 == Follow1(c, and, 1)
           bound0 == Follow1(c, comp0, 1)
           bound1 == Follow1(c, comp1, 1)
<1>1. /\ Op(c, i) = "Multiply" /\ OperandOps(c, i) = <<"Broadcast", "Gather">>
      /\ Op(c, convert) = "Convert" /\ Op(c, and) = "And"
      /\ OperandOps(c, and) = <<"Compare", "Compare">>
      /\ OperandOps(c, comp1) = <<"Convert", "Broadcast">>
      /\ c.instrs[bound0].in # <<>>
  <2>1. /\ Operand(c, i, <<0, 0>>) = convert /\ Operand(c, i, <<0, 0, 0>>) = and
        /\ Operand(c, and, <<1>>) = comp1 /\ Operand(c, i, <<0, 0, 0, 0, 1>>) = bound0
    BY Operand1, Operand2, Operand3, Operand5
  <2> HIDE DEF convert, and, comp1, bound0
  <2> QED
    BY <2>1 DEF MatchesEmbedding2
<1>2. left \in A /\ gather \in A /\ Op(c, left) = "Broadcast" /\ Op(c, gather) = "Gather"
  <2>1. /\ left \in Operands(c, i) /\ gather \in Operands(c, i)
        /\ Op(c, left) = "Broadcast" /\ Op(c, gather) = "Gather"
    BY <1>1, OperandOpsFacts
  <2> QED
    BY <2>1, Upwards
<1>3. \A j \in A : j \in Ids(c) /\ Operands(c, j) \subseteq A
  BY Upwards
<1>4. convert \in A
  BY <1>2, Upwards DEF Unary
<1>5. and \in A
  BY <1>1, <1>4, Upwards DEF Unary
<1>6. comp0 \in A /\ comp1 \in A /\ Op(c, comp0) = "Compare" /\ Op(c, comp1) = "Compare"
  <2>1. /\ comp0 \in Operands(c, and) /\ comp1 \in Operands(c, and)
        /\ Op(c, comp0) = "Compare" /\ Op(c, comp1) = "Compare"
    BY <1>1, <1>3, <1>5, OperandOpsFacts
  <2> QED
    BY <1>3, <1>5, <2>1
<1>7. bound0 \in A /\ bound1 \in A
  BY <1>6, Upwards DEF Binary
<1>8. Op(c, bound1) = "Broadcast"
  BY <1>1, <1>3, <1>6, OperandOpsFacts
<1>9. Follow1(c, bound1, 0) \in A
  BY <1>7, <1>8, Upwards DEF Unary
<1>10. Follow1(c, bound0, 0) \in A
  <2> DEFINE in == c.instrs[bound0].in
  <2>1. in \in Seq(Ids(c)) /\ in # <<>>
    BY <1>1, <1>3, <1>7, SoundFacts
  <2>2. 0 < Len(in)
    <3> HIDE DEF in
    <3> QED
      BY <2>1, EmptySeq, LenProperties
  <2> QED
    BY <1>3, <1>7, <2>2, TakenFacts
<1>11. Follow1(c, gather, 1) \in A
  BY <1>2, Upwards DEF Binary
<1> DEFINE parts ==
      <<i, Operand(c, i, <<0>>), Operand(c, i, <<1>>), Operand(c, i, <<1, 1>>),
        Operand(c, i, <<0, 0>>), Operand(c, i, <<0, 0, 0>>),
        Operand(c, Operand(c, i, <<0, 0, 0>>), <<0>>),
        Operand(c, Operand(c, i, <<0, 0, 0>>), <<1>>),
        Operand(c, Operand(c, i, <<0, 0, 0>>), <<1, 1>>),
        Operand(c, Operand(c, i, <<0, 0, 0>>), <<1, 1, 0>>),
        Operand(c, Operand(c, i, <<0, 0, 0>>), <<0, 1>>),
        Operand(c, Operand(c, i, <<0, 0, 0>>), <<0, 1, 0>>)>>
<1>12. FuseEmbedding2(c, i) = CreateFusion(c, parts)
  BY DEF FuseEmbedding2
<1>13. parts = <<i, left, gather, Follow1(c, gather, 1), convert, and, comp0, comp1, bound1,
                 Follow1(c, bound1, 0), bound0, Follow1(c, bound0, 0)>>
  <2>1. /\ Operand(c, i, <<0>>) = left /\ Operand(c, i, <<1>>) = gather
        /\ Operand(c, i, <<1, 1>>) = Follow1(c, gather, 1)
        /\ Operand(c, i, <<0, 0>>) = convert /\ Operand(c, i, <<0, 0, 0>>) = and
    BY Operand1, Operand2, Operand3
  <2>2. /\ Operand(c, and, <<0>>) = comp0 /\ Operand(c, and, <<1>>) = comp1
        /\ Operand(c, and, <<1, 1>>) = bound1
        /\ Operand(c, and, <<1, 1, 0>>) = Follow1(c, bound1, 0)
        /\ Operand(c, and, <<0, 1>>) = bound0
        /\ Operand(c, and, <<0, 1, 0>>) = Follow1(c, bound0, 0)
    BY Operand1, Operand2, Operand3
  <2> HIDE DEF left, gather, convert, and, comp0, comp1, bound0, bound1
  <2> QED
    BY <2>1, <2>2
<1> HIDE DEF parts, A
<1>14. DOMAIN parts = 1..12 /\ parts[1] = i /\ \A k \in 2..12 : parts[k] \in A
  <2> HIDE DEF left, gather, convert, and, comp0, comp1, bound0, bound1
  <2> QED
    BY <1>2, <1>4, <1>5, <1>6, <1>7, <1>9, <1>10, <1>11, <1>13
<1>15. PICK n \in Nat : n = 12
  OBVIOUS
<1>16. Fusible(c, i, parts, n)
  BY <1>14, <1>15 DEF Fusible, A
<1>17. Turned(c, CreateFusion(c, parts), Parts(parts, n)) /\ Parts(parts, n) \subseteq {i} \cup A
  BY <1>16, FusedFacts DEF A
<1> QED
  BY <1>12, <1>17 DEF Turned, MayGo, A

\* The constants of a pooling.
LEMMA FourConstants ==
  ASSUME NEW w, NEW x, NEW y, NEW z, IsConstant(w), IsConstant(x), IsConstant(y), IsConstant(z)
  PROVE  AreConstants(<<w, x, y, z>>, 4)
PROOF
<1> DEFINE constants == <<w, x, y, z>>
           S == {constants[k] : k \in 1..4}
<1>1. \A k \in 1..4 : k = 1 \/ k = 2 \/ k = 3 \/ k = 4
  OBVIOUS
<1>2. \A k \in 1..4 : IsConstant(constants[k])
  BY <1>1
<1>3. constants[1] = w /\ constants[2] = x /\ constants[3] = y /\ constants[4] = z
  OBVIOUS
<1>4. w \in S /\ x \in S /\ y \in S /\ z \in S
  BY <1>3
<1>5. constants \in Seq(S) /\ Len(constants) = 4
  <2> HIDE DEF S
  <2> QED
    BY <1>4
<1> QED
  BY <1>2, <1>5 DEF AreConstants

\* What a pooling is fused of are operands of operands of the select.
LEMMA PoolingPartsFacts ==
  ASSUME NEW c, Sound(c), NEW i \in Ids(c), MatchesPooling(c, i), NEW n \in Nat, n = 13
  PROVE  Fusible(c, i, PoolingParts(c, i), n)
PROOF
<1> DEFINE A == Ancestors(c, i)
           divide == Follow1(c, i, 2)
           reshape == Follow1(c, divide, 0)
           reduce == Follow1(c, reshape, 0)
           select1 == Follow1(c, reduce, 0)
           mask1 == Follow1(c, select1, 0)
           mask == Follow1(c, i, 0)
           compare == Follow1(c, mask, 0)
           count == Follow1(c, compare, 0)
           convert == Follow1(c, count, 0)
<1>1. /\ Op(c, i) = "Select" /\ OperandOps(c, i) = <<"Broadcast", "Broadcast", "Divide">>
      /\ OperandOps(c, divide) = <<"Reshape", "Broadcast">>
      /\ Op(c, reduce) = "Reduce" /\ Op(c, select1) = "Select"
      /\ OperandOps(c, select1) = <<"Broadcast", "Slice", "Broadcast">>
      /\ Op(c, compare) = "Compare" /\ Op(c, count) = "Reduce"
  <2>1. /\ Operand(c, i, <<2>>) = divide /\ Operand(c, i, <<2, 0, 0>>) = reduce
        /\ Operand(c, i, <<2, 0, 0, 0>>) = select1 /\ Operand(c, i, <<0, 0>>) = compare
        /\ Operand(c, i, <<0, 0, 0>>) = count
    BY Operand1, Operand2, Operand3, Operand4
  <2> HIDE DEF divide, reduce, select1, compare, count
  <2> QED
    BY <2>1 DEF MatchesPooling
<1>3. \A j \in A : j \in Ids(c) /\ Operands(c, j) \subseteq A
  BY Upwards
<1>2. /\ mask \in A /\ divide \in A
      /\ Op(c, mask) = "Broadcast" /\ Op(c, divide) = "Divide"
  <2>1. /\ mask \in Operands(c, i) /\ divide \in Operands(c, i)
        /\ Op(c, mask) = "Broadcast" /\ Op(c, divide) = "Divide"
    BY <1>1, OperandOpsFacts
  <2> QED
    BY <2>1, Upwards
<1>4. /\ reshape \in A /\ Follow1(c, divide, 1) \in A /\ Op(c, reshape) = "Reshape"
  <2>1. /\ reshape \in Operands(c, divide) /\ Follow1(c, divide, 1) \in Operands(c, divide)
        /\ Op(c, reshape) = "Reshape"
    BY <1>1, <1>2, <1>3, OperandOpsFacts
  <2> QED
    BY <1>2, <1>3, <2>1
<1>5. reduce \in A
  BY <1>4, Upwards DEF Unary
<1>6. select1 \in A
  BY <1>1, <1>5, Upwards DEF Binary
<1>7. mask1 \in A /\ Follow1(c, select1, 1) \in A /\ Op(c, mask1) = "Broadcast"
  <2>1. /\ mask1 \in Operands(c, select1) /\ Follow1(c, select1, 1) \in Operands(c, select1)
        /\ Op(c, mask1) = "Broadcast"
    BY <1>1, <1>3, <1>6, OperandOpsFacts
  <2> QED
    BY <1>3, <1>6, <2>1
<1>8. Follow1(c, mask1, 0) \in A
  BY <1>7, Upwards DEF Unary
<1>9. compare \in A
  BY <1>2, Upwards DEF Unary
<1>10. count \in A
  BY <1>1, <1>9, Upwards DEF Binary
<1>11. convert \in A
  BY <1>1, <1>10, Upwards DEF Binary
<1> DEFINE parts == PoolingParts(c, i)
<1>12. parts = <<i, divide, Follow1(c, divide, 1), reshape, reduce, select1,
                 Follow1(c, select1, 1), mask1, mask, compare, count, convert,
                 Follow1(c, mask1, 0)>>
  <2>1. /\ Operand(c, i, <<2>>) = divide /\ Operand(c, i, <<2, 1>>) = Follow1(c, divide, 1)
        /\ Operand(c, i, <<2, 0>>) = reshape /\ Operand(c, i, <<2, 0, 0>>) = reduce
        /\ Operand(c, i, <<2, 0, 0, 0>>) = select1 /\ Operand(c, i, <<0>>) = mask
        /\ Operand(c, i, <<0, 0>>) = compare /\ Operand(c, i, <<0, 0, 0>>) = count
        /\ Operand(c, i, <<0, 0, 0, 0>>) = convert
    BY Operand1, Operand2, Operand3, Operand4
  <2>2. /\ Operand(c, select1, <<1>>) = Follow1(c, select1, 1)
        /\ Operand(c, select1, <<0>>) = mask1
        /\ Operand(c, select1, <<0, 0>>) = Follow1(c, mask1, 0)
    BY Operand1, Operand2
  <2> HIDE DEF divide, reshape, reduce, select1, mask1, mask, compare, count, convert
  <2> QED
    BY <2>1, <2>2 DEF PoolingParts
<1> HIDE DEF parts, A
<1>13. DOMAIN parts = 1..13 /\ parts[1] = i /\ \A k \in 2..13 : parts[k] \in A
  <2> HIDE DEF divide, reshape, reduce, select1, mask1, mask, compare, count, convert
  <2> QED
    BY <1>2, <1>4, <1>5, <1>6, <1>7, <1>8, <1>9, <1>10, <1>11, <1>12
<1> QED
  BY <1>13 DEF Fusible, A, parts

\* Two of its operands are those of the call.
LEMMA PoolingFacts ==
  ASSUME NEW c, Sound(c), NEW i \in Ids(c), MatchesPooling(c, i),
         Len(FusionOperands(c, PoolingParts(c, i))) >= 6
  PROVE  Turned(c, FusePooling(c, i), MayGo(c, i))
PROOF
<1> DEFINE parts == PoolingParts(c, i)
           d == CreateFusion(c, parts)
           slice == Operand(c, i, <<2, 0, 0, 0, 1>>)
           arg == Operand(d, c.next, <<5>>)
           mul_out == Operand(d, c.next, <<3>>)
           ops == <<arg, mul_out>>
           constants == <<Vector(Attr(c, slice).starts), Vector(Attr(c, slice).limits),
                          ParamInfo(d.instrs[arg]), ParamInfo(d.instrs[mul_out])>>
<1>1. FusePooling(c, i) = ReplaceByCall(d, "__pooling", ops, constants)
  BY DEF FusePooling
<1>2. AreConstants(constants, 4)
  BY ConstantFacts, FourConstants
<1>3. PICK n \in Nat : n = 13
  OBVIOUS
<1>4. PICK m \in Nat : m = 4
  OBVIOUS
<1>5. Fusible(c, i, parts, n)
  BY <1>3, PoolingPartsFacts
<1>6. /\ Turned(c, d, Parts(parts, n)) /\ c.next \in Ids(d)
      /\ d.instrs[c.next].in = FusionOperands(c, parts)
  <2> HIDE DEF parts
  <2> QED
    BY <1>5, FusedFacts
<1>7. ops \in Seq(Operands(d, c.next))
  <2>1. arg = Follow1(d, c.next, 5) /\ mul_out = Follow1(d, c.next, 3)
    BY Operand1
  <2>2. Len(d.instrs[c.next].in) >= 6
    BY <1>6
  <2> HIDE DEF d, arg, mul_out
  <2>4. Sound(d) /\ c.next \in Ids(d)
    BY <1>6 DEF Turned
  <2>3. arg \in Operands(d, c.next) /\ mul_out \in Operands(d, c.next)
    <3> DEFINE len == Len(d.instrs[c.next].in)
    <3>1. len \in Nat
      BY <2>4, SoundFacts, LenProperties
    <3> HIDE DEF len
    <3>2. 5 < len /\ 3 < len
      BY <2>2, <3>1 DEF len
    <3> QED
      BY <2>1, <2>4, <3>2, TakenFacts DEF len
  <2> QED
    BY <2>3
<1> HIDE DEF constants, ops, parts
<1>8. Turned(c, ReplaceByCall(d, "__pooling", ops, constants), {i} \cup Ancestors(c, i))
  <2>1. AreConstants(constants, m)
    BY <1>2, <1>4
  <2> QED
    BY <1>5, <1>7, <2>1, FusedCallFacts DEF d
<1> QED
  BY <1>1, <1>8 DEF Turned, MayGo

\* The rewriters that are registered.
Names == Patterns \cup {"layout_matmul", "sparse_embedding2", "pooling"}

\* Only registered rewriters are tried, whatever the flags and the operation.
LEMMA RewritersFacts ==
  ASSUME NEW values, NEW op
  PROVE  Rewriters(values, op) \subseteq Names
PROOF
<1>1. GraphOptRewriters(values) \subseteq Names
  BY DEF GraphOptRewriters, Names
<1>2. GemmRewriters(values) \subseteq Names
  BY DEF GemmRewriters, Names, Patterns
<1> QED
  BY <1>1, <1>2 DEF Rewriters

\* What the rewriters take for granted.
Presumes(c, i) ==
  /\ MatchesEmbedding2(c, i) => c.instrs[Operand(c, i, <<0, 0, 0, 0, 1>>)].in # <<>>
  /\ MatchesPooling(c, i) => Len(FusionOperands(c, PoolingParts(c, i))) >= 6
  /\ Op(c, i) = "ReduceWindow" /\ UserCount(c, i) = 1 =>
       LET reduce == Users(c, i)[1]
       IN  Op(c, reduce) = "Reduce" => i # c.root /\ Operand(c, reduce, <<1>>) # i

\* Whichever rewriter matches first.
LEMMA KDnnFacts ==
  ASSUME NEW values, NEW c, Sound(c), NEW i \in Ids(c), Presumes(c, i),
         NEW d \in KDnnHandle(values, c, i)
  PROVE  Turned(c, d, MayGo(c, i))
PROOF
<1>1. d = c \/ \E name \in FirstRewriters(values, c, i) : d = Fuse(c, i, name)
  BY DEF KDnnHandle
<1>2. CASE d = c
  BY <1>2, Unturned
<1>3. CASE \E name \in FirstRewriters(values, c, i) : d = Fuse(c, i, name)
  <2>1. PICK name \in FirstRewriters(values, c, i) : d = Fuse(c, i, name)
    BY <1>3
  <2>2. name \in Names /\ Matches(c, i, name)
    BY RewritersFacts DEF FirstRewriters
  <2>3. CASE name = "layout_matmul"
    BY <2>1, <2>2, <2>3, LayoutMatmulFacts DEF Matches, Fuse
  <2>4. CASE name = "sparse_embedding2"
    BY <2>1, <2>2, <2>4, Embedding2Facts DEF Matches, Fuse, Presumes
  <2>5. CASE name = "pooling"
    BY <2>1, <2>2, <2>5, PoolingFacts DEF Matches, Fuse, Presumes
  <2>6. CASE name \in Patterns
    <3>1. name # "layout_matmul" /\ name # "sparse_embedding2" /\ name # "pooling"
      BY <2>6 DEF Patterns
    <3>2. MatchesPattern(c, i, name) /\ Fuse(c, i, name) = FusePattern(c, i, name)
      BY <2>2, <3>1 DEF Matches, Fuse
    <3> QED
      BY <2>1, <2>6, <3>2, PatternFacts
  <2> QED
    BY <2>2, <2>3, <2>4, <2>5, <2>6 DEF Names
<1> QED
  BY <1>1, <1>2, <1>3

------------------------------------------------------------------------------
(* What the passes of BiSheng make of a computation. *)

\* The only user of an instruction.
LEMMA OneUser ==
  ASSUME NEW c, Sound(c), NEW i \in Ids(c), UserCount(c, i) = 1
  PROVE  /\ Users(c, i)[1] \in Ids(c) /\ i \in Operands(c, Users(c, i)[1])
         /\ \A u \in Ids(c) : i \in Operands(c, u) => u = Users(c, i)[1]
PROOF
<1> DEFINE U == {u \in Ids(c) : Uses(c, u, i)}
           s == Users(c, i)
<1>1. \A u \in Ids(c) : u \in U <=> i \in Operands(c, u)
  BY DEF Uses, Operands, ToSet
<1>2. IsFiniteSet(U)
  <2>1. IsFiniteSet(Ids(c)) /\ U \subseteq Ids(c)
    BY SoundFacts
  <2> QED
    BY <2>1, FS_Subset
<1>3. PICK x : U = {x}
  <2>1. Cardinality(U) = 1
    BY DEF UserCount
  <2> HIDE DEF U
  <2> QED
    BY <1>2, <2>1, FS_Singleton
<1> HIDE DEF U, s
<1>4. /\ x \in ToSet(s) /\ s \in Seq(Ids(c))
      /\ \A j \in 1..Len(s) : s[j] \in Ids(c) /\ i \in Operands(c, s[j])
  <2>1. x \in Ids(c) /\ i \in Operands(c, x)
    <3>1. x \in U
      BY <1>3
    <3>2. x \in Ids(c)
      BY <3>1 DEF U
    <3> QED
      BY <1>1, <3>1, <3>2
  <2> QED
    BY <2>1, UsersFacts DEF s
<1>5. 1 \in 1..Len(s)
  <2>1. Len(s) \in Nat /\ DOMAIN s = 1..Len(s)
    BY <1>4, LenProperties
  <2> QED
    BY <1>4, <2>1 DEF ToSet
<1> QED
  BY <1>1, <1>3, <1>4, <1>5 DEF s

\* A sum of windows: the one sum that takes the place of both.
LEMMA ReduceCombineFacts ==
  ASSUME NEW c, Sound(c), NEW i \in Ids(c), Presumes(c, i)
  PROVE  Turned(c, ReduceCombine(c, i), MayGo(c, i))
PROOF
<1> DEFINE reduce == Users(c, i)[1]
           operand == Operand(c, i, <<0>>)
           init == Operand(c, reduce, <<1>>)
           clone == Clone(c, reduce, Shape(c, reduce), <<operand, init>>)
           added == <<clone>>
           a == Add(c, added)
           b == ReplaceAllUses(a, reduce, c.next)
           gone == {reduce, i}
           e == Without(b, gone)
           A == Ancestors(c, reduce) \ {i}
<1>1. CASE ReduceCombine(c, i) = c
  BY <1>1, Unturned
<1>2. CASE /\ Op(c, i) = "ReduceWindow" /\ UserCount(c, i) = 1 /\ Op(c, reduce) = "Reduce"
           /\ ReduceCombine(c, i) = e
  <2>1. /\ reduce \in Ids(c) /\ i \in Operands(c, reduce)
        /\ \A u \in Ids(c) : i \in Operands(c, u) => u = reduce
    BY <1>2, OneUser
  <2>2. i # c.root /\ init # i
    BY <1>2 DEF Presumes
  <2>3. /\ operand = Follow1(c, i, 0) /\ init = Follow1(c, reduce, 1)
    BY Operand1
  <2> HIDE DEF reduce
  <2>4. /\ Operands(c, reduce) \subseteq Ancestors(c, reduce)
        /\ Closed(c, Ancestors(c, reduce)) /\ reduce \notin Ancestors(c, reduce)
        /\ i \notin Operands(c, i)
    <3>1. Operands(c, i) \subseteq Ancestors(c, i) /\ i \notin Ancestors(c, i)
      BY AncestorsFacts
    <3> QED
      BY <2>1, <3>1, AncestorsFacts
  <2>5. Closed(c, A) /\ reduce \notin A /\ i \notin A
    BY <2>1, <2>4 DEF Closed
  <2>6. operand \in Operands(c, i) /\ init \in Operands(c, reduce)
    BY <1>2, <2>1, <2>3, TakenFacts DEF Binary
  <2>7. operand \in A /\ init \in A
    BY <2>1, <2>2, <2>4, <2>6 DEF Closed
  <2> HIDE DEF operand, init, A
  <2>8. DOMAIN clone = Fields /\ clone.op = "Reduce" /\ clone.in = <<operand, init>>
    <3>1. DOMAIN c.instrs[reduce] = Fields
      BY <2>1 DEF Sound, IsInstruction
    <3> QED
      BY <1>2, <3>1 DEF Clone, Fields, Op
  <2> HIDE DEF clone
  <2>9. PICK one \in Nat : one = 1
    OBVIOUS
  <2>10. Addable(c, A, added, one)
    <3>1. TakesAsMany(clone)
      BY <2>8 DEF TakesAsMany, Unary, Binary
    <3>2. Len(added) = 1 /\ added[1] = clone
      OBVIOUS
    <3>3. \A k \in 1..1 : k = 1
      OBVIOUS
    <3> HIDE DEF added
    <3>4. \A N : clone.in \in Seq(A \cup N)
      BY <2>7, <2>8
    <3> QED
      BY <2>8, <2>9, <3>1, <3>2, <3>3, <3>4 DEF Addable
  <2> HIDE DEF added
  <2>11. Enlarged(c, a, A, added, one)
    BY <2>5, <2>10, AddedFacts
  <2> HIDE DEF a
  <2> DEFINE R == A \cup {c.next}
  <2>12. c.next \in Nat /\ \A j \in Ids(c) : j \in Nat /\ j < c.next
    BY SoundFacts
  <2>13. /\ Sound(a) /\ Closed(a, R) /\ a.next = c.next + 1
         /\ Ids(a) = Ids(c) \cup {c.next}
         /\ \A j \in Ids(c) : a.instrs[j] = c.instrs[j] /\ Operands(a, j) = Operands(c, j)
         /\ a.instrs[c.next] = clone
    <3>1. c.next..c.next + one - 1 = {c.next} /\ 1 \in 1..one /\ c.next + 1 - 1 = c.next
      BY <2>9, <2>12
    <3>2. added[1] = clone
      BY DEF added
    <3> QED
      BY <2>9, <2>11, <3>1, <3>2 DEF Enlarged
  <2>14. reduce \notin R /\ reduce \in Ids(a) /\ c.next \in R /\ i \in Ids(a) /\ i # c.next
    BY <2>1, <2>5, <2>12, <2>13
  <2>15. /\ Sound(b) /\ Unread(b, reduce) /\ b.root # reduce
         /\ b.instrs[c.next].in = a.instrs[c.next].in
    BY <2>13, <2>14, ReplaceSound
  <2>16. /\ Ids(b) = Ids(a) /\ b.next = a.next
         /\ b.root = IF a.root = reduce THEN c.next ELSE a.root
         /\ \A j \in Ids(a) : Alike(a, b, j)
    BY <2>13, <2>14, ReplaceFacts
  <2>17. a.root = c.root
    BY AddFacts, <2>9, <2>10 DEF a, Addable, Sound
  <2>18. \A j \in Ids(a) : Operands(b, j) \subseteq Operands(a, j) \cup {c.next}
    BY <2>13, <2>14, ReplaceOperands
  <2> HIDE DEF b, R
  <2>19. b.root \notin gone
    BY <2>1, <2>2, <2>14, <2>15, <2>16, <2>17
  <2>20. \A j \in Ids(b) \ gone : Operands(b, j) \cap gone = {}
    <3> SUFFICES ASSUME NEW j \in Ids(b) \ gone PROVE i \notin Operands(b, j)
      BY <2>15 DEF Unread
    <3>1. CASE j = c.next
      <4>1. Operands(b, j) = {operand, init}
        <5>1. b.instrs[j].in = <<operand, init>>
          BY <2>8, <2>13, <2>15, <3>1
        <5> QED
          BY <5>1 DEF Operands, ToSet
      <4> QED
        BY <2>5, <2>7, <4>1
    <3>2. CASE j # c.next
      <4>1. j \in Ids(c) /\ j # reduce
        BY <2>13, <2>16, <3>2
      <4>2. i \notin Operands(a, j)
        BY <2>1, <2>13, <4>1
      <4> QED
        BY <2>13, <2>14, <2>16, <2>18, <4>1, <4>2
    <3> QED
      BY <3>1, <3>2
  <2>21. Sound(e)
    BY <2>15, <2>19, <2>20, WithoutSound
  <2>22. /\ Ids(e) = Ids(b) \ gone /\ e.next = b.next
         /\ \A j \in Ids(b) \ gone : e.instrs[j] = b.instrs[j]
    BY <2>15, WithoutFacts DEF Sound
  <2> HIDE DEF e
  <2>23. \A j \in Ids(c) \cap Ids(e) : Alike(c, e, j)
    BY <2>13, <2>16, <2>22 DEF Alike
  <2>24. \A j \in Ids(e) : j \in Ids(c) \/ j >= c.next
    BY <2>12, <2>13, <2>16, <2>22
  <2>25. c.next <= e.next
    BY <2>12, <2>13, <2>16, <2>22
  <2>26. Turned(c, e, gone)
    BY <2>13, <2>16, <2>21, <2>22, <2>23, <2>24, <2>25 DEF Turned
  <2>27. gone \subseteq MayGo(c, i)
    BY <1>2, <2>1 DEF MayGo, Spent
  <2> QED
    BY <1>2, <2>26, <2>27 DEF Turned
<1>3. \/ ReduceCombine(c, i) = c
      \/ /\ Op(c, i) = "ReduceWindow" /\ UserCount(c, i) = 1 /\ Op(c, reduce) = "Reduce"
         /\ ReduceCombine(c, i) = e
  BY DEF ReduceCombine
<1> QED
  BY <1>1, <1>2, <1>3

\* The parts of a lookup are operands of operands of the multiply.
LEMMA EmbeddingParts ==
  ASSUME NEW c, Sound(c), NEW i \in Ids(c), IsEmbedding(c, i), NEW A, A = Ancestors(c, i),
         NEW gather, gather = Operand(c, i, << 1 >>), NEW select, select = Operand(c, gather, << 1 >>),
         NEW table, table = Operand(c, gather, << 0 >>),
         NEW default, default = Operand(c, select, << 2 >>)
  PROVE  /\ gather \in A /\ select \in A /\ table \in A /\ default \in A
         /\ Op(c, i) = "Multiply" /\ Op(c, gather) = "Gather" /\ Op(c, select) = "Select"
         /\ Op(c, default) = "Broadcast"
         /\ Operand(c, default, <<0>>) \in A /\ Operand(c, select, <<0>>) \in A
         /\ Operand(c, select, <<1>>) \in A
         /\ IsMask(c, Operand(c, select, <<0>>))
         /\ Operand(c, i, <<0>>) \in A /\ Op(c, Operand(c, i, <<0>>)) = "Broadcast"
         /\ Operand(c, i, <<0, 0>>) \in A /\ Op(c, Operand(c, i, <<0, 0>>)) = "Convert"
         /\ Operand(c, i, <<0, 0, 0>>) \in A
         /\ default \in Operands(c, select)
PROOF
<1> DEFINE left == Follow1(c, i, 0)
           convert == Follow1(c, left, 0)
<1>0. \A j \in A : j \in Ids(c) /\ Operands(c, j) \subseteq A
  BY Upwards
<1>1. /\ gather = Follow1(c, i, 1) /\ select = Follow1(c, gather, 1)
      /\ table = Follow1(c, gather, 0) /\ default = Follow1(c, select, 2)
      /\ Operand(c, default, <<0>>) = Follow1(c, default, 0)
      /\ Operand(c, select, <<0>>) = Follow1(c, select, 0)
      /\ Operand(c, select, <<1>>) = Follow1(c, select, 1)
      /\ Operand(c, i, <<0>>) = left /\ Operand(c, i, <<0, 0>>) = convert
      /\ Operand(c, i, <<0, 0, 0>>) = Follow1(c, convert, 0)
      /\ Operand(c, i, <<1, 1>>) = select
  BY Operand1, Operand2, Operand3
<1> HIDE DEF left, convert
<1>2. /\ Op(c, i) = "Multiply" /\ OperandOps(c, i) = <<"Broadcast", "Gather">>
      /\ OperandOps(c, gather) = <<"Parameter", "Select">>
      /\ Op(c, convert) = "Convert"
      /\ IsMask(c, Operand(c, select, <<0>>)) /\ Op(c, default) = "Broadcast"
  BY <1>1 DEF IsEmbedding
<1>3. left \in A /\ gather \in A /\ Op(c, left) = "Broadcast" /\ Op(c, gather) = "Gather"
  <2>1. /\ left \in Operands(c, i) /\ gather \in Operands(c, i)
        /\ Op(c, left) = "Broadcast" /\ Op(c, gather) = "Gather"
    BY <1>1, <1>2, OperandOpsFacts DEF left
  <2> QED
    BY <2>1, Upwards
<1>4. table \in A /\ select \in A /\ Op(c, select) = "Select"
  <2>1. /\ table \in Operands(c, gather) /\ select \in Operands(c, gather)
        /\ Op(c, select) = "Select"
    BY <1>0, <1>1, <1>2, <1>3, OperandOpsFacts
  <2> QED
    BY <1>0, <1>3, <2>1
<1>5. default \in A /\ Follow1(c, select, 0) \in A /\ Follow1(c, select, 1) \in A
  BY <1>1, <1>4, Upwards
<1>6. default \in Operands(c, select)
  BY <1>0, <1>1, <1>4, TakenFacts
<1>7. Follow1(c, default, 0) \in A
  BY <1>2, <1>5, Upwards DEF Unary
<1>8. convert \in A
  BY <1>3, Upwards DEF convert, Unary
<1>9. Follow1(c, convert, 0) \in A
  BY <1>2, <1>8, Upwards DEF Unary
<1> QED
  BY <1>1, <1>2, <1>3, <1>4, <1>5, <1>6, <1>7, <1>8, <1>9

\* A table with one more row, and the lookup in it.
LEMMA EmbeddingSimplifyFacts ==
  ASSUME NEW c, Sound(c), NEW i \in Ids(c)
  PROVE  Turned(c, EmbeddingSimplify(c, i), MayGo(c, i))
PROOF
<1> DEFINE n == c.next
           gather == Operand(c, i, <<1>>)
           select == Operand(c, gather, <<1>>)
           table == Operand(c, gather, <<0>>)
           shape == Shape(c, table)
           default == Operand(c, select, <<2>>)
           constant == Operand(c, default, <<0>>)
           zero == Instr("Constant", <<>>, "F32", <<>>, [data |-> <<0>>])
           zeros == Instr("Broadcast", <<n>>, Type(c, table), <<1, shape[2]>>, [dims |-> <<>>])
           larger == Instr("Concatenate", <<table, n + 1>>, Type(c, table),
                           <<shape[1] + 1, shape[2]>>, [dim |-> 1])
           added1 == <<zero, zeros, larger>>
           grown == Add(c, added1)
           rows == Instr("Constant", <<>>, "S32", Shape(c, constant), [data |-> <<shape[1]>>])
           spread == Clone(c, default, Shape(c, default), <<n + 3>>)
           added2 == <<rows, spread>>
           led == Add(grown, added2)
           redirected == ReplaceInstruction(led, default, n + 4)
           lookup == Clone(c, gather, Shape(c, gather), <<n + 2, select>>)
           added3 == <<lookup>>
           e == ReplaceInstruction(Add(redirected, added3), i, n + 5)
           A == Ancestors(c, i)
           d == EmbeddingSimplify(c, i)
<1>1. \/ d = c
      \/ MatchesEmbedding(c, i) /\ (d = grown \/ d = e)
  BY DEF EmbeddingSimplify
<1>2. CASE d = c
  BY <1>2, Unturned
<1>3. CASE MatchesEmbedding(c, i) /\ (d = grown \/ d = e)
  <2>1. /\ gather \in A /\ select \in A /\ table \in A /\ default \in A
        /\ Op(c, gather) = "Gather" /\ Op(c, default) = "Broadcast"
        /\ default \in Operands(c, select)
    BY <1>3, EmbeddingParts DEF MatchesEmbedding
  <2> HIDE DEF gather, select, table, default, constant, shape, d, A
  <2>2. /\ Closed(c, A) /\ i \notin A /\ Operands(c, i) \subseteq A
        /\ \A j \in A : j \in Ids(c) /\ Operands(c, j) \subseteq A
    BY AncestorsFacts DEF A, Closed
  <2>3. n \in Nat /\ \A j \in Ids(c) : j \in Nat /\ j < n
    BY SoundFacts
  <2>4. PICK one, two, three \in Nat : one = 1 /\ two = 2 /\ three = 3
    OBVIOUS
  <2>5. Addable(c, A, added1, three)
    <3>1. Reads(zero, A)
      <4>1. <<>> \in Seq(A)
        OBVIOUS
      <4> QED
        BY <4>1, TakesFacts, ReadsInstr
    <3>2. Reads(zeros, A \cup {n})
      <4>1. <<n>> \in Seq(A \cup {n})
        OBVIOUS
      <4> QED
        BY <4>1, TakesFacts, ReadsInstr
    <3>3. Reads(larger, A \cup {n, n + 1})
      <4>1. <<table, n + 1>> \in Seq(A \cup {n, n + 1})
        BY <2>1
      <4> QED
        BY <4>1, TakesFacts, ReadsInstr
    <3> HIDE DEF zero, zeros, larger
    <3> QED
      BY <2>3, <2>4, <3>1, <3>2, <3>3, AddableThree
  <2> HIDE DEF zero, zeros, larger, added1
  <2>6. Enlarged(c, grown, A, added1, three)
    BY <2>2, <2>5, AddedFacts
  <2> HIDE DEF grown
  <2> DEFINE W == A \cup n..n + 2
  <2>7. /\ Sound(grown) /\ grown.next = n + 3 /\ Closed(grown, W) /\ Closed(grown, {})
        /\ Ids(grown) = Ids(c) \cup n..n + 2
        /\ \A j \in Ids(c) : grown.instrs[j] = c.instrs[j] /\ Operands(grown, j) = Operands(c, j)
    <3>1. n..n + three - 1 = n..n + 2
      BY <2>3, <2>4
    <3> QED
      BY <2>4, <2>6, <3>1 DEF Enlarged, Closed
  <2> HIDE DEF W
  <2>8. ASSUME NEW S
        PROVE  Addable(grown, S, added2, two)
    <3>1. Reads(rows, S)
      <4>1. <<>> \in Seq(S)
        OBVIOUS
      <4> QED
        BY <4>1, TakesFacts, ReadsInstr
    <3>2. Reads(spread, S \cup {grown.next})
      <4>1. default \in Ids(c) /\ <<n + 3>> \in Seq(S \cup {grown.next})
        BY <2>1, <2>2, <2>7
      <4> QED
        BY <2>1, <4>1, TakesFacts, ReadsClone
    <3> HIDE DEF rows, spread
    <3>3. grown.next \in Nat
      BY <2>3, <2>7
    <3> QED
      BY <2>4, <3>1, <3>2, <3>3, AddableTwo
  <2> HIDE DEF rows, spread, added2
  <2> DEFINE R == {n + 3, n + 4}
             V == W \cup R
  <2>9. /\ Sound(led) /\ led.next = n + 5 /\ Closed(led, R) /\ Closed(led, V)
        /\ Ids(led) = Ids(grown) \cup R
        /\ \A j \in Ids(grown) : led.instrs[j] = grown.instrs[j]
    <3>1. Enlarged(grown, led, {}, added2, two) /\ Enlarged(grown, led, W, added2, two)
      BY <2>4, <2>7, <2>8, AddedFacts
    <3> HIDE DEF led
    <3>2. grown.next..grown.next + two - 1 = R /\ grown.next + two = n + 5
      BY <2>3, <2>4, <2>7
    <3>3. {} \cup R = R
      OBVIOUS
    <3> HIDE DEF R
    <3> QED
      BY <3>1, <3>2, <3>3 DEF Enlarged
  <2> HIDE DEF led
  <2>10. /\ \A j \in Ids(c) : led.instrs[j] = c.instrs[j] /\ Operands(led, j) = Operands(c, j)
         /\ Ids(led) = Ids(c) \cup n..n + 2 \cup R
    <3>1. \A j \in Ids(c) : led.instrs[j] = c.instrs[j]
      BY <2>7, <2>9
    <3> QED
      BY <2>7, <2>9, <3>1 DEF Operands
  <2>11. default \in Ids(c) /\ default \in Ids(led) /\ default \notin R /\ n + 4 \in R
    BY <2>1, <2>2, <2>3, <2>10
  <2>12. /\ Ancestors(led, default) \subseteq A /\ select \notin Ancestors(led, default)
         /\ select # default
    <3>1. /\ Closed(c, Ancestors(c, default))
          /\ Operands(c, default) \subseteq Ancestors(c, default)
          /\ \A S : Closed(c, S) /\ Operands(c, default) \subseteq S =>
               Ancestors(c, default) \subseteq S
      BY <2>11, AncestorsFacts
    <3>2. /\ Closed(c, Ancestors(c, select)) /\ Operands(c, select) \subseteq Ancestors(c, select)
          /\ select \notin Ancestors(c, select)
      BY <2>1, <2>2, AncestorsFacts
    <3>3. /\ Ancestors(c, default) \subseteq A
          /\ Ancestors(c, default) \subseteq Ancestors(c, select)
          /\ default \in Ancestors(c, select)
      BY <2>1, <2>2, <3>1, <3>2 DEF Closed
    <3>4. /\ Closed(led, Ancestors(c, default))
          /\ Operands(led, default) \subseteq Ancestors(c, default)
      BY <2>10, <2>11, <3>1 DEF Closed
    <3>5. Ancestors(led, default) \subseteq Ancestors(c, default)
      BY <2>9, <2>11, <3>4, AncestorsFacts
    <3> QED
      BY <3>2, <3>3, <3>5
  <2>13. /\ Sound(redirected) /\ redirected.next = n + 5
         /\ Ids(redirected) \subseteq Ids(led)
         /\ Ids(led) \ Ids(redirected) \subseteq {default} \cup Ancestors(led, default)
         /\ \A j \in Ids(redirected) :
              /\ Alike(led, redirected, j)
              /\ Operands(redirected, j) \subseteq Operands(led, j) \cup {n + 4}
    <3> HIDE DEF R
    <3> QED
      BY <2>9, <2>11, ReplaceInstructionFacts
  <2> HIDE DEF redirected
  <2>14. /\ Ids(led) \ Ids(redirected) \subseteq A
         /\ i \in Ids(redirected) /\ select \in Ids(redirected) /\ n + 2 \in Ids(redirected)
    <3>1. Ids(led) \ Ids(redirected) \subseteq A
      BY <2>1, <2>12, <2>13
    <3>2. i \in Ids(led) /\ select \in Ids(led) /\ n + 2 \in Ids(led) /\ n + 2 \notin A
      BY <2>1, <2>2, <2>3, <2>10
    <3> QED
      BY <2>2, <2>12, <2>13, <3>1, <3>2
  <2> DEFINE Q == V \cap Ids(redirected)
  <2>15. Closed(redirected, Q) /\ Operands(redirected, i) \subseteq Q
    <3>1. \A j \in Ids(redirected) : Operands(redirected, j) \subseteq Ids(redirected)
      BY <2>13, SoundFacts
    <3>2. n + 4 \in V /\ A \subseteq V
      BY DEF W
    <3> HIDE DEF V
    <3> QED
      BY <2>2, <2>9, <2>10, <2>13, <2>14, <3>1, <3>2 DEF Closed
  <2>16. i \notin Q /\ select \in Q /\ n + 2 \in Q
    <3>1. i \notin V /\ select \in V /\ n + 2 \in V
      BY <2>1, <2>2, <2>3 DEF W
    <3> QED
      BY <2>14, <3>1
  <2>17. V \cap Ids(c) \subseteq A
    BY <2>3 DEF W
  <2> HIDE DEF Q, V, R
  <2>18. Addable(redirected, Q, added3, one)
    <3>1. Reads(lookup, Q)
      <4>1. gather \in Ids(c) /\ <<n + 2, select>> \in Seq(Q)
        BY <2>1, <2>2, <2>16
      <4> QED
        BY <2>1, <4>1, TakesFacts, ReadsClone
    <3> HIDE DEF lookup
    <3> QED
      BY <2>4, <3>1, AddableOne
  <2> HIDE DEF lookup, added3
  <2>19. Turned(redirected, e, {i} \cup Ancestors(redirected, i))
    <3>1. redirected.next + one - 1 = n + 5 /\ one >= 1
      BY <2>3, <2>4, <2>13
    <3> QED
      BY <2>13, <2>14, <2>15, <2>16, <2>18, <3>1, TurnedByAdding
  <2>20. Turned(c, redirected, A)
    <3>1. n <= redirected.next /\ \A j \in Ids(redirected) : j \in Ids(c) \/ j >= n
      BY <2>3, <2>10, <2>13 DEF R
    <3>2. Ids(c) \ Ids(redirected) \subseteq A
      BY <2>10, <2>14
    <3>3. \A j \in Ids(c) \cap Ids(redirected) : Alike(c, redirected, j)
      BY <2>10, <2>13 DEF Alike
    <3> QED
      BY <2>13, <3>1, <3>2, <3>3 DEF Turned
  <2>21. Ancestors(redirected, i) \subseteq Q
    BY <2>13, <2>14, <2>15, AncestorsFacts
  <2> HIDE DEF e
  <2>22. Turned(c, e, A \cup (({i} \cup Ancestors(redirected, i)) \cap Ids(c)))
    BY <2>19, <2>20, TurnedTwice
  <2>23. A \cup (({i} \cup Ancestors(redirected, i)) \cap Ids(c)) \subseteq MayGo(c, i)
    BY <2>17, <2>21 DEF MayGo, Q, A
  <2>24. Turned(c, e, MayGo(c, i))
    BY <2>22, <2>23 DEF Turned
  <2>25. Turned(c, grown, MayGo(c, i))
    BY <2>4, <2>6, TurnedByEnlarging
  <2> QED
    BY <1>3, <2>24, <2>25 DEF d
<1> QED
  BY <1>1, <1>2, <1>3

------------------------------------------------------------------------------
(* ConcatPartition. *)

\* The readers of a lookup.
SlicesBehind(c, mul) == {s \in Ids(c) : mul \in Operands(c, s)}

\* A product whose readers are slices, which read nothing else.
InSlices(c, mul) == \A s \in SlicesBehind(c, mul) : Op(c, s) = "Slice" /\ Operands(c, s) = {mul}

\* ConcatPartition goes on only with such products.
LEMMA InSlicesFacts ==
  ASSUME NEW c, Sound(c), NEW mul \in Ids(c), ReadInSlices(c, mul)
  PROVE  InSlices(c, mul)
PROOF
<1> DEFINE back == Users(c, mul)
<1>1. \A k \in DOMAIN back : Op(c, back[k]) = "Slice"
  BY DEF ReadInSlices
<1> HIDE DEF back
<1>2. ASSUME NEW s \in SlicesBehind(c, mul)
      PROVE  Op(c, s) = "Slice" /\ Operands(c, s) = {mul}
  <2>1. s \in Ids(c) /\ mul \in Operands(c, s)
    BY DEF SlicesBehind
  <2>2. s \in ToSet(back)
    BY <2>1, UsersFacts DEF back
  <2>3. Op(c, s) = "Slice"
    BY <1>1, <2>2 DEF ToSet
  <2>4. /\ c.instrs[s].in \in Seq(Ids(c)) /\ Len(c.instrs[s].in) = 1
    BY <2>1, <2>3 DEF Sound, IsInstruction, TakesAsMany, Unary, Op
  <2>5. DOMAIN c.instrs[s].in = 1..1
    BY <2>4, LenProperties
  <2> QED
    BY <2>1, <2>3, <2>5 DEF Operands, ToSet
<1> QED
  BY <1>2 DEF InSlices

\* A column of the concatenation and the slice that is its result.
IsPair(c, mul, p) ==
  p.column \in Operands(c, Concat(c, mul)) /\ p.slice \in SlicesBehind(c, mul)

\* The pairs at some of the positions; no two of them have the same slice.
PairsAt(c, mul, s, K, pos, n) ==
  /\ DOMAIN s = 1..n /\ n = Len(s) /\ (n = 0 => s = <<>>)
  /\ \A k \in 1..n : /\ IsPair(c, mul, s[k]) /\ pos[k] \in K
                     /\ s[k].slice = Users(c, mul)[pos[k]]
  /\ \A a, b \in 1..n : a < b => pos[a] < pos[b]

\* Picking columns picks the slices behind them.
LEMMA PairsAtPositions ==
  ASSUME NEW c, Sound(c), NEW mul \in Ids(c), Concat(c, mul) \in Ids(c), ReadInSlices(c, mul),
         NEW pairs, pairs = [k \in DOMAIN c.instrs[Concat(c, mul)].in |->
                               [column |-> c.instrs[Concat(c, mul)].in[k],
                                slice |-> Users(c, mul)[k]]],
         NEW K \in SUBSET (DOMAIN pairs)
  PROVE  /\ \E n \in Nat : \E pos : PairsAt(c, mul, AtPositions(pairs, K), K, pos, n)
         /\ DOMAIN pairs = 1..Len(Users(c, mul))
PROOF
<1> DEFINE front == c.instrs[Concat(c, mul)].in
           back == Users(c, mul)
           N == Len(front)
           S == {pairs[k] : k \in 1..N}
           s == AtPositions(pairs, K)
<1>1. front \in Seq(Ids(c)) /\ N \in Nat /\ DOMAIN front = 1..N
  BY SoundFacts, LenProperties
<1>2. N = Len(back) /\ back \in Seq(Ids(c))
      /\ \A j \in 1..Len(back) : back[j] \in Ids(c) /\ mul \in Operands(c, back[j])
  BY UsersFacts DEF ReadInSlices
<1>3. pairs = [k \in 1..N |-> [column |-> front[k], slice |-> back[k]]]
  BY <1>1
<1>4. \A k \in 1..N : front[k] \in Operands(c, Concat(c, mul))
  BY <1>1 DEF Operands, ToSet
<1> HIDE DEF front, back, N
<1>5. /\ \A k \in 1..N : /\ IsPair(c, mul, pairs[k]) /\ pairs[k].slice = back[k]
                         /\ pairs[k] \in S
      /\ DOMAIN pairs = 1..N
  BY <1>2, <1>3, <1>4 DEF IsPair, SlicesBehind
<1>6. pairs \in Seq(S) /\ Len(pairs) = N
  <2>1. pairs = [k \in 1..N |-> pairs[k]] /\ \A k \in 1..N : pairs[k] \in S
    BY <1>3, <1>5
  <2> HIDE DEF S
  <2>2. \A t : t = [k \in 1..N |-> t[k]] /\ (\A k \in 1..N : t[k] \in S)
               => t \in Seq(S) /\ Len(t) = N
    BY <1>1
  <2> QED
    BY <2>1, <2>2
<1>7. K \subseteq 1..N
  BY <1>5
<1> HIDE DEF s
<1>8. s \in Seq(S) /\ \E pos : ComesFrom(s, pairs, K, pos)
  <2>1. K \in SUBSET (1..Len(pairs))
    BY <1>6, <1>7
  <2> HIDE DEF S
  <2> QED
    BY <1>6, <2>1, AtPositionsFacts DEF s
<1>9. PICK pos : ComesFrom(s, pairs, K, pos)
  BY <1>8
<1>10. PICK n \in Nat : n = Len(s)
  BY <1>8, LenProperties
<1>11. DOMAIN s = 1..n /\ (n = 0 => s = <<>>)
  BY <1>8, <1>10, LenProperties, EmptySeq
<1>12. PairsAt(c, mul, s, K, pos, n)
  <2>1. \A k \in 1..n : pos[k] \in K /\ s[k] = pairs[pos[k]]
    BY <1>9, <1>10 DEF ComesFrom
  <2>2. \A a, b \in 1..n : a < b => pos[a] < pos[b]
    BY <1>9, <1>10 DEF ComesFrom
  <2>3. \A k \in 1..n : IsPair(c, mul, s[k]) /\ s[k].slice = back[pos[k]]
    BY <1>5, <1>7, <2>1
  <2> QED
    BY <1>10, <1>11, <2>1, <2>2, <2>3 DEF PairsAt, back
<1> QED
  BY <1>2, <1>5, <1>12 DEF s, back

\* The narrow columns s and the wide ones t with their slices, all of them different.
Sorted(c, mul, s, n, t, m) ==
  /\ DOMAIN s = 1..n /\ n = Len(s) /\ DOMAIN t = 1..m /\ m = Len(t) /\ (m = 0 => t = <<>>)
  /\ \A k \in 1..n : IsPair(c, mul, s[k])
  /\ \A k \in 1..m : IsPair(c, mul, t[k])
  /\ \A a, b \in 1..n : a < b => s[a].slice # s[b].slice
  /\ \A a, b \in 1..m : a < b => t[a].slice # t[b].slice
  /\ \A a \in 1..n, b \in 1..m : s[a].slice # t[b].slice

\* ConcatPartition pairs columns with slices, and sorts the pairs into narrow and wide ones: a
\* slice is in one of them, and once.
LEMMA ColumnsFacts ==
  ASSUME NEW c, Sound(c), NEW mul \in Ids(c), Concat(c, mul) \in Ids(c), ReadInSlices(c, mul)
  PROVE  \E n, m \in Nat : Sorted(c, mul, Columns(c, mul, FALSE), n, Columns(c, mul, TRUE), m)
PROOF
<1> DEFINE pairs == [k \in DOMAIN c.instrs[Concat(c, mul)].in |->
                       [column |-> c.instrs[Concat(c, mul)].in[k], slice |-> Users(c, mul)[k]]]
           back == Users(c, mul)
           Wide(p) == (Shape(c, p.column)[2] # 1) = TRUE
           Narrow(p) == (Shape(c, p.column)[2] # 1) = FALSE
           Same(p) == CheckShapeConsistent(Shape(c, p.column), Shape(c, p.slice))
           K == {k \in DOMAIN pairs : Same(pairs[k]) /\ Narrow(pairs[k])}
           L == {k \in DOMAIN pairs : Same(pairs[k]) /\ Wide(pairs[k])}
           s == AtPositions(pairs, K)
           t == AtPositions(pairs, L)
<1>1. Columns(c, mul, FALSE) = s /\ Columns(c, mul, TRUE) = t
  BY DEF Columns, Selected
<1>2. \A p : ~(Narrow(p) /\ Wide(p))
  OBVIOUS
<1> HIDE DEF Narrow, Wide, Same
<1>3. K \subseteq DOMAIN pairs /\ L \subseteq DOMAIN pairs /\ K \cap L = {}
  BY <1>2
<1> HIDE DEF K, L
<1>4. PICK q : q = pairs
  OBVIOUS
<1>5. /\ \E n \in Nat : \E pos : PairsAt(c, mul, AtPositions(q, K), K, pos, n)
      /\ \E m \in Nat : \E pos : PairsAt(c, mul, AtPositions(q, L), L, pos, m)
      /\ DOMAIN q = 1..Len(back)
  <2>1. K \in SUBSET (DOMAIN q) /\ L \in SUBSET (DOMAIN q)
    BY <1>3, <1>4
  <2> QED
    BY <1>4, <2>1, PairsAtPositions
<1>6. PICK n \in Nat : \E pos : PairsAt(c, mul, s, K, pos, n)
  BY <1>4, <1>5
<1>6a. PICK pos : PairsAt(c, mul, s, K, pos, n)
  BY <1>6
<1>7. PICK m \in Nat : \E at : PairsAt(c, mul, t, L, at, m)
  BY <1>4, <1>5
<1>7a. PICK at : PairsAt(c, mul, t, L, at, m)
  BY <1>7
<1>8. \A a, b \in DOMAIN q : a # b => back[a] # back[b]
  <2> SUFFICES ASSUME NEW a \in 1..Len(back), NEW b \in 1..Len(back), a # b
               PROVE  back[a] # back[b]
    BY <1>5
  <2>1. Len(back) \in Nat
    BY UsersFacts, LenProperties
  <2>2. a < b \/ b < a
    BY <2>1
  <2>3. \A x, y \in 1..Len(back) : x < y => back[x] # back[y]
    BY UsersFacts
  <2> QED
    BY <2>2, <2>3
<1> HIDE DEF s, t, pairs, back
<1>9. /\ DOMAIN s = 1..n /\ n = Len(s)
      /\ \A k \in 1..n : IsPair(c, mul, s[k]) /\ pos[k] \in K /\ s[k].slice = back[pos[k]]
      /\ \A a, b \in 1..n : a < b => pos[a] < pos[b]
  BY <1>6a DEF PairsAt, back
<1>10. /\ DOMAIN t = 1..m /\ m = Len(t) /\ (m = 0 => t = <<>>)
       /\ \A k \in 1..m : IsPair(c, mul, t[k]) /\ at[k] \in L /\ t[k].slice = back[at[k]]
       /\ \A a, b \in 1..m : a < b => at[a] < at[b]
  BY <1>7a DEF PairsAt, back
<1>11. DOMAIN q \subseteq Int /\ K \subseteq DOMAIN q /\ L \subseteq DOMAIN q
  BY <1>3, <1>4, <1>5
<1>12. \A a, b \in 1..n : a < b => s[a].slice # s[b].slice
  <2> SUFFICES ASSUME NEW a \in 1..n, NEW b \in 1..n, a < b PROVE s[a].slice # s[b].slice
    OBVIOUS
  <2>1. pos[a] \in DOMAIN q /\ pos[b] \in DOMAIN q /\ pos[a] < pos[b]
    BY <1>9, <1>11
  <2>2. pos[a] # pos[b]
    BY <1>11, <2>1
  <2> QED
    BY <1>8, <1>9, <2>1, <2>2
<1>13. \A a, b \in 1..m : a < b => t[a].slice # t[b].slice
  <2> SUFFICES ASSUME NEW a \in 1..m, NEW b \in 1..m, a < b PROVE t[a].slice # t[b].slice
    OBVIOUS
  <2>1. at[a] \in DOMAIN q /\ at[b] \in DOMAIN q /\ at[a] < at[b]
    BY <1>10, <1>11
  <2>2. at[a] # at[b]
    BY <1>11, <2>1
  <2> QED
    BY <1>8, <1>10, <2>1, <2>2
<1>14. \A a \in 1..n, b \in 1..m : s[a].slice # t[b].slice
  <2> SUFFICES ASSUME NEW a \in 1..n, NEW b \in 1..m PROVE s[a].slice # t[b].slice
    OBVIOUS
  <2>1. pos[a] \in DOMAIN q /\ at[b] \in DOMAIN q /\ pos[a] # at[b]
    BY <1>3, <1>9, <1>10, <1>11
  <2> QED
    BY <1>8, <1>9, <1>10, <2>1
<1>15. Sorted(c, mul, s, n, t, m)
  BY <1>9, <1>10, <1>12, <1>13, <1>14 DEF Sorted
<1> QED
  BY <1>1, <1>15

\* The parts of a lookup; all but the multiply itself are in A.
IsLookup(c, mul, A, p) ==
  /\ Op(c, mul) = "Multiply"
  /\ p.left = Follow1(c, mul, 0) /\ p.left \in A /\ Op(c, p.left) = "Broadcast"
  /\ p.gather = Follow1(c, mul, 1) /\ p.gather \in A /\ Op(c, p.gather) = "Gather"
  /\ p.convert = Follow1(c, p.left, 0) /\ p.convert \in A /\ Op(c, p.convert) = "Convert"
  /\ p.table = Follow1(c, p.gather, 0) /\ p.table \in A
  /\ p.select = Follow1(c, p.gather, 1) /\ p.select \in A /\ Op(c, p.select) = "Select"
  /\ p.mask = Follow1(c, p.select, 0) /\ p.mask \in A /\ Op(c, p.mask) = "And"
  /\ p.index = Follow1(c, p.select, 1) /\ p.index \in A /\ Op(c, p.index) = "Convert"
  /\ p.default = Follow1(c, p.select, 2) /\ p.default \in A /\ Op(c, p.default) = "Broadcast"
  /\ p.none = Follow1(c, p.default, 0) /\ p.none \in A
  /\ p.above = Follow1(c, p.mask, 0) /\ p.above \in A /\ Op(c, p.above) = "Compare"
  /\ p.below = Follow1(c, p.mask, 1) /\ p.below \in A /\ Op(c, p.below) = "Compare"
  /\ p.lower = Follow1(c, p.above, 1) /\ p.lower \in A /\ Op(c, p.lower) = "Broadcast"
  /\ p.upper = Follow1(c, p.below, 1) /\ p.upper \in A /\ Op(c, p.upper) = "Broadcast"
  /\ p.least = Follow1(c, p.lower, 0) /\ p.least \in A
  /\ p.most = Follow1(c, p.upper, 0) /\ p.most \in A

\* What ConcatPartition walks down to from a product is a lookup, and lies within what the
\* product depends on.
LEMMA LookupExists ==
  ASSUME NEW c, Sound(c), NEW mul \in Ids(c), MatchesConcat(c, mul)
  PROVE  /\ \E p : IsLookup(c, mul, Ancestors(c, mul), p)
         /\ Concat(c, mul) \in Ancestors(c, mul) /\ Op(c, Concat(c, mul)) = "Concatenate"
PROOF
<1> DEFINE A == Ancestors(c, mul)
           gather == Operand(c, mul, <<1>>)
           select == Operand(c, gather, <<1>>)
           table == Operand(c, gather, <<0>>)
           default == Operand(c, select, <<2>>)
           mask == Operand(c, select, <<0>>)
           index == Operand(c, select, <<1>>)
<1>0. \A j \in A : j \in Ids(c) /\ Operands(c, j) \subseteq A
  BY Upwards
<1>1. /\ gather \in A /\ select \in A /\ table \in A /\ default \in A
      /\ Op(c, mul) = "Multiply" /\ Op(c, gather) = "Gather" /\ Op(c, select) = "Select"
      /\ Op(c, default) = "Broadcast"
      /\ Operand(c, default, <<0>>) \in A /\ mask \in A /\ index \in A
      /\ IsMask(c, mask)
      /\ Operand(c, mul, <<0>>) \in A /\ Op(c, Operand(c, mul, <<0>>)) = "Broadcast"
      /\ Operand(c, mul, <<0, 0>>) \in A /\ Op(c, Operand(c, mul, <<0, 0>>)) = "Convert"
  BY EmbeddingParts DEF MatchesConcat
<1>2. /\ Operand(c, mul, <<1, 1>>) = select
      /\ Operand(c, select, <<1, 0>>) = Follow1(c, index, 0)
      /\ Concat(c, mul) = Follow1(c, index, 0)
      /\ Operand(c, mul, <<0, 0>>) = Follow1(c, Operand(c, mul, <<0>>), 0)
      /\ Operand(c, mul, <<0>>) = Follow1(c, mul, 0) /\ gather = Follow1(c, mul, 1)
      /\ select = Follow1(c, gather, 1) /\ table = Follow1(c, gather, 0)
      /\ mask = Follow1(c, select, 0) /\ index = Follow1(c, select, 1)
      /\ default = Follow1(c, select, 2)
      /\ Operand(c, default, <<0>>) = Follow1(c, default, 0)
  BY Operand1, Operand2, Operand4 DEF Concat
<1> DEFINE above == Follow1(c, mask, 0)
           below == Follow1(c, mask, 1)
           lower == Follow1(c, above, 1)
           upper == Follow1(c, below, 1)
<1>3. Op(c, index) = "Convert" /\ Op(c, Operand(c, select, <<1, 0>>)) = "Concatenate"
  <2> HIDE DEF select
  <2> QED
    BY <1>2 DEF MatchesConcat
<1> HIDE DEF gather, select, table, default, mask, index
<1>4. Follow1(c, index, 0) \in A
  BY <1>1, <1>3, Upwards DEF Unary
<1>5. /\ Op(c, mask) = "And" /\ OperandOps(c, mask) = <<"Compare", "Compare">>
      /\ Op(c, lower) = "Broadcast" /\ Op(c, upper) = "Broadcast"
  <2>1. /\ Op(c, mask) = "And" /\ OperandOps(c, mask) = <<"Compare", "Compare">>
        /\ \A k \in 0..1 : Op(c, Operand(c, mask, <<k, 1>>)) = "Broadcast"
    BY <1>1 DEF IsMask
  <2>2. Operand(c, mask, <<0, 1>>) = lower /\ Operand(c, mask, <<1, 1>>) = upper
    BY Operand2
  <2>3. 0 \in 0..1 /\ 1 \in 0..1
    OBVIOUS
  <2> HIDE DEF lower, upper
  <2> QED
    BY <2>1, <2>2, <2>3
<1>6. above \in A /\ below \in A /\ Op(c, above) = "Compare" /\ Op(c, below) = "Compare"
  <2>1. /\ above \in Operands(c, mask) /\ below \in Operands(c, mask)
        /\ Op(c, above) = "Compare" /\ Op(c, below) = "Compare"
    BY <1>0, <1>1, <1>5, OperandOpsFacts
  <2> QED
    BY <1>0, <1>1, <2>1
<1>7. lower \in A /\ upper \in A
  BY <1>6, Upwards DEF Binary
<1>8. Follow1(c, lower, 0) \in A /\ Follow1(c, upper, 0) \in A
  BY <1>5, <1>7, Upwards DEF Unary
<1> DEFINE p == [left |-> Operand(c, mul, <<0>>), gather |-> gather,
                 convert |-> Operand(c, mul, <<0, 0>>), table |-> table, select |-> select,
                 mask |-> mask, index |-> index, default |-> default,
                 none |-> Operand(c, default, <<0>>), above |-> above, below |-> below,
                 lower |-> lower, upper |-> upper, least |-> Follow1(c, lower, 0),
                 most |-> Follow1(c, upper, 0)]
<1> HIDE DEF A
<1>9. IsLookup(c, mul, A, p)
  BY <1>1, <1>2, <1>3, <1>5, <1>6, <1>7, <1>8 DEF IsLookup
<1> HIDE DEF p
<1> QED
  BY <1>2, <1>3, <1>4, <1>9 DEF A

\* The same parts, as long as nobody has touched them.
LEMMA LookupStays ==
  ASSUME NEW c, NEW mul, NEW A, NEW p, IsLookup(c, mul, A, p), NEW d,
         \A j \in A \cup {mul} : Op(d, j) = Op(c, j) /\ d.instrs[j].in = c.instrs[j].in
  PROVE  IsLookup(d, mul, A, p)
PROOF
<1>1. \A j \in A \cup {mul} : \A k : Follow1(d, j, k) = Follow1(c, j, k)
  BY DEF Follow1
<1>2. \A j \in A : Op(d, j) = Op(c, j) /\ \A k : Follow1(d, j, k) = Follow1(c, j, k)
  BY <1>1
<1>3. Op(d, mul) = Op(c, mul) /\ \A k : Follow1(d, mul, k) = Follow1(c, mul, k)
  BY <1>1
<1>4. /\ p.left \in A /\ p.gather \in A /\ p.select \in A /\ p.mask \in A /\ p.index \in A
      /\ p.convert \in A /\ p.default \in A /\ p.above \in A /\ p.below \in A
      /\ p.lower \in A /\ p.upper \in A
  BY DEF IsLookup
<1>5. \A j \in {p.left, p.gather, p.select, p.mask, p.index, p.convert, p.default, p.above,
                 p.below, p.lower, p.upper, mul} :
        Op(d, j) = Op(c, j) /\ \A k : Follow1(d, j, k) = Follow1(c, j, k)
  BY <1>2, <1>3, <1>4
<1>6. /\ Follow1(d, mul, 0) = Follow1(c, mul, 0) /\ Follow1(d, mul, 1) = Follow1(c, mul, 1)
      /\ Follow1(d, p.left, 0) = Follow1(c, p.left, 0)
      /\ Follow1(d, p.gather, 0) = Follow1(c, p.gather, 0)
      /\ Follow1(d, p.gather, 1) = Follow1(c, p.gather, 1)
      /\ Follow1(d, p.select, 0) = Follow1(c, p.select, 0)
      /\ Follow1(d, p.select, 1) = Follow1(c, p.select, 1)
      /\ Follow1(d, p.select, 2) = Follow1(c, p.select, 2)
  BY <1>5
<1>7. /\ Follow1(d, p.default, 0) = Follow1(c, p.default, 0)
      /\ Follow1(d, p.mask, 0) = Follow1(c, p.mask, 0)
      /\ Follow1(d, p.mask, 1) = Follow1(c, p.mask, 1)
      /\ Follow1(d, p.above, 1) = Follow1(c, p.above, 1)
      /\ Follow1(d, p.below, 1) = Follow1(c, p.below, 1)
      /\ Follow1(d, p.lower, 0) = Follow1(c, p.lower, 0)
      /\ Follow1(d, p.upper, 0) = Follow1(c, p.upper, 0)
  BY <1>5
<1>8. /\ Op(d, mul) = Op(c, mul) /\ Op(d, p.left) = Op(c, p.left)
      /\ Op(d, p.gather) = Op(c, p.gather) /\ Op(d, p.select) = Op(c, p.select)
      /\ Op(d, p.convert) = Op(c, p.convert) /\ Op(d, p.mask) = Op(c, p.mask)
      /\ Op(d, p.index) = Op(c, p.index) /\ Op(d, p.default) = Op(c, p.default)
      /\ Op(d, p.above) = Op(c, p.above) /\ Op(d, p.below) = Op(c, p.below)
      /\ Op(d, p.lower) = Op(c, p.lower) /\ Op(d, p.upper) = Op(c, p.upper)
  BY <1>5
<1> QED
  BY <1>6, <1>7, <1>8, Zenon DEF IsLookup

\* The lookup once more: twelve instructions.
LEMMA CreateEmbeddingFacts ==
  ASSUME NEW d, Sound(d), NEW mul \in Ids(d), NEW S, Closed(d, S), NEW A \in SUBSET S, NEW p,
         IsLookup(d, mul, A, p), NEW input \in S, NEW dim, NEW size, NEW n \in Nat, n = 12
  PROVE  \E added : CreateEmbedding(d, mul, input, dim, size) = Add(d, added)
                    /\ Addable(d, S, added, n)
PROOF
<1> DEFINE f == d.next
           Resized(i, in) == Clone(d, i, ReplaceDim(Shape(d, i), dim, size), in)
           x1 == Resized(p.index, <<input>>)
           x2 == Resized(p.lower, <<p.least>>)
           x3 == Resized(p.upper, <<p.most>>)
           x4 == Resized(p.above, <<f, f + 1>>)
           x5 == Resized(p.below, <<f, f + 2>>)
           x6 == Resized(p.mask, <<f + 3, f + 4>>)
           x7 == Resized(p.convert, <<f + 5>>)
           x8 == Resized(p.left, <<f + 6>>)
           x9 == Resized(p.default, <<p.none>>)
           x10 == Resized(p.select, <<f + 5, f, f + 8>>)
           x11 == Resized(p.gather, <<p.table, f + 9>>)
           x12 == Resized(mul, <<f + 7, f + 10>>)
           added == <<x1, x2, x3, x4, x5, x6, x7, x8, x9, x10, x11, x12>>
<1>1. CreateEmbedding(d, mul, input, dim, size) = Add(d, added)
  <2>1. /\ Operand(d, mul, <<1>>) = p.gather /\ Operand(d, p.gather, <<1>>) = p.select
        /\ Operand(d, p.select, <<0>>) = p.mask /\ Convert1(d, mul) = p.index
        /\ Operand(d, p.mask, <<0, 1>>) = p.lower /\ Operand(d, p.mask, <<0, 1, 0>>) = p.least
        /\ Operand(d, p.mask, <<1, 1>>) = p.upper /\ Operand(d, p.mask, <<1, 1, 0>>) = p.most
        /\ Operand(d, p.mask, <<0>>) = p.above /\ Operand(d, p.mask, <<1>>) = p.below
        /\ Operand(d, mul, <<0, 0>>) = p.convert /\ Operand(d, mul, <<0>>) = p.left
        /\ Operand(d, p.select, <<2>>) = p.default /\ Operand(d, p.select, <<2, 0>>) = p.none
        /\ Operand(d, p.gather, <<0>>) = p.table
    BY Operand1, Operand2, Operand3 DEF IsLookup, Convert1
  <2> QED
    BY <2>1 DEF CreateEmbedding
<1>2. f \in Nat
  BY SoundFacts
<1>3. S \subseteq Ids(d)
  BY DEF Closed
<1>4. ASSUME NEW j \in Ids(d), NEW in, NEW T, in \in Seq(T),
             TakesAsMany([op |-> Op(d, j), in |-> in])
      PROVE  Reads(Resized(j, in), T)
  BY <1>4, ReadsClone
<1> HIDE DEF Resized
<1>5. /\ p.left \in S /\ p.gather \in S /\ p.select \in S /\ p.mask \in S /\ p.index \in S
      /\ p.convert \in S /\ p.default \in S /\ p.above \in S /\ p.below \in S
      /\ p.lower \in S /\ p.upper \in S /\ p.least \in S /\ p.most \in S /\ p.none \in S
      /\ p.table \in S
  BY DEF IsLookup
<1>6. /\ Op(d, mul) \in Binary /\ Op(d, p.gather) \in Binary /\ Op(d, p.mask) \in Binary
      /\ Op(d, p.above) \in Binary /\ Op(d, p.below) \in Binary /\ Op(d, p.select) = "Select"
      /\ Op(d, p.left) \in Unary /\ Op(d, p.convert) \in Unary /\ Op(d, p.index) \in Unary
      /\ Op(d, p.default) \in Unary /\ Op(d, p.lower) \in Unary /\ Op(d, p.upper) \in Unary
  BY TakesFacts DEF IsLookup
<1> DEFINE T(k) == S \cup f..f + k - 2
<1>7. \A k \in Nat : S \subseteq T(k)
  OBVIOUS
<1>8. /\ f \in T(4) /\ f + 1 \in T(4) /\ f \in T(5) /\ f + 2 \in T(5)
      /\ f + 3 \in T(6) /\ f + 4 \in T(6) /\ f + 5 \in T(7) /\ f + 6 \in T(8)
      /\ f + 5 \in T(10) /\ f \in T(10) /\ f + 8 \in T(10) /\ f + 9 \in T(11)
      /\ f + 7 \in T(12) /\ f + 10 \in T(12)
  BY <1>2
<1> HIDE DEF T
<1>9. ASSUME NEW R, NEW x, NEW y, NEW z, x \in R, y \in R, z \in R
       PROVE  <<x>> \in Seq(R) /\ <<x, y>> \in Seq(R) /\ <<x, y, z>> \in Seq(R)
  BY <1>9
<1>10. /\ Reads(x1, T(1)) /\ Reads(x2, T(2)) /\ Reads(x3, T(3))
  <2>1. /\ p.index \in Ids(d) /\ p.lower \in Ids(d) /\ p.upper \in Ids(d)
        /\ input \in T(1) /\ p.least \in T(2) /\ p.most \in T(3)
    BY <1>3, <1>5, <1>7
  <2>2. <<input>> \in Seq(T(1)) /\ <<p.least>> \in Seq(T(2)) /\ <<p.most>> \in Seq(T(3))
    BY <1>9, <2>1
  <2> QED
    BY <1>4, <1>6, <2>1, <2>2, TakesFacts
<1>11. Reads(x4, T(4)) /\ Reads(x5, T(5)) /\ Reads(x6, T(6))
  <2>1. p.above \in Ids(d) /\ p.below \in Ids(d) /\ p.mask \in Ids(d)
    BY <1>3, <1>5
  <2>2. <<f, f + 1>> \in Seq(T(4)) /\ <<f, f + 2>> \in Seq(T(5)) /\ <<f + 3, f + 4>> \in Seq(T(6))
    BY <1>8, <1>9
  <2> QED
    BY <1>4, <1>6, <2>1, <2>2, TakesFacts
<1>12. Reads(x7, T(7)) /\ Reads(x8, T(8)) /\ Reads(x9, T(9))
  <2>1. p.convert \in Ids(d) /\ p.left \in Ids(d) /\ p.default \in Ids(d) /\ p.none \in T(9)
    BY <1>3, <1>5, <1>7
  <2>2. <<f + 5>> \in Seq(T(7)) /\ <<f + 6>> \in Seq(T(8)) /\ <<p.none>> \in Seq(T(9))
    BY <1>8, <1>9, <2>1
  <2> QED
    BY <1>4, <1>6, <2>1, <2>2, TakesFacts
<1>13. Reads(x10, T(10)) /\ Reads(x11, T(11)) /\ Reads(x12, T(12))
  <2>1. p.select \in Ids(d) /\ p.gather \in Ids(d) /\ p.table \in T(11)
    BY <1>3, <1>5, <1>7
  <2>2. /\ <<f + 5, f, f + 8>> \in Seq(T(10)) /\ <<p.table, f + 9>> \in Seq(T(11))
        /\ <<f + 7, f + 10>> \in Seq(T(12))
    BY <1>8, <1>9, <2>1
  <2>3. /\ TakesAsMany([op |-> Op(d, p.select), in |-> <<f + 5, f, f + 8>>])
        /\ TakesAsMany([op |-> Op(d, p.gather), in |-> <<p.table, f + 9>>])
        /\ TakesAsMany([op |-> Op(d, mul), in |-> <<f + 7, f + 10>>])
    BY <1>6, TakesFacts
  <2> QED
    BY <1>4, <2>1, <2>2, <2>3
<1> HIDE DEF x1, x2, x3, x4, x5, x6, x7, x8, x9, x10, x11, x12
<1>14. /\ Len(added) = 12
       /\ added[1] = x1 /\ added[2] = x2 /\ added[3] = x3 /\ added[4] = x4 /\ added[5] = x5
       /\ added[6] = x6 /\ added[7] = x7 /\ added[8] = x8 /\ added[9] = x9 /\ added[10] = x10
       /\ added[11] = x11 /\ added[12] = x12
  OBVIOUS
<1> HIDE DEF added
<1>15. \A k \in 1..12 : \/ k = 1 \/ k = 2 \/ k = 3 \/ k = 4 \/ k = 5 \/ k = 6 \/ k = 7 \/ k = 8
                        \/ k = 9 \/ k = 10 \/ k = 11 \/ k = 12
  OBVIOUS
<1>16. \A k \in 1..12 : Reads(added[k], T(k))
  BY <1>10, <1>11, <1>12, <1>13, <1>14, <1>15
<1>17. Addable(d, S, added, n)
  BY <1>14, <1>16, AddableFacts DEF T
<1> QED
  BY <1>1, <1>17

\* What is left while the slices of P have been replaced: the lookup with all it depends on, and
\* the other slices.
Partly(c, mul, d, W, P) ==
  /\ Turned(c, d, P) /\ Closed(d, W)
  /\ \A j \in {mul} \cup Ancestors(c, mul) \cup (SlicesBehind(c, mul) \ P) :
       d.instrs[j].in = c.instrs[j].in

\* The lookup, whose operands come from A, and the slices but those of P are as they were.
StillThere(c, mul, d, A, P) ==
  /\ Sound(d) /\ c.next \in Nat /\ d.next \in Nat /\ c.next <= d.next
  /\ \A j \in Ids(c) : j \in Nat /\ j < c.next
  /\ A \subseteq Ids(c) /\ mul \notin A /\ A \cap SlicesBehind(c, mul) = {}
  /\ mul \notin SlicesBehind(c, mul)
  /\ {mul} \cup A \cup (SlicesBehind(c, mul) \ P) \subseteq Ids(d)
  /\ \A j \in {mul} \cup A \cup (SlicesBehind(c, mul) \ P) :
       /\ DOMAIN d.instrs[j] = Fields /\ Op(d, j) = Op(c, j) /\ Operands(d, j) = Operands(c, j)
       /\ d.instrs[j].in = c.instrs[j].in
  /\ Closed(d, A) /\ Closed(d, {mul} \cup A)

\* While slices are replaced one after another, those not yet replaced and what the product
\* depends on are still there.
LEMMA PartlyFacts ==
  ASSUME NEW c, Sound(c), NEW mul \in Ids(c), NEW d, NEW W, NEW P \in SUBSET SlicesBehind(c, mul),
         Partly(c, mul, d, W, P)
  PROVE  StillThere(c, mul, d, Ancestors(c, mul), P)
PROOF
<1> DEFINE A == Ancestors(c, mul)
<1>1. /\ Sound(d) /\ c.next <= d.next /\ Ids(c) \ Ids(d) \subseteq P
      /\ \A j \in Ids(c) \cap Ids(d) : Alike(c, d, j)
  BY DEF Partly, Turned
<1>2. c.next \in Nat /\ d.next \in Nat /\ \A j \in Ids(c) : j \in Nat /\ j < c.next
  BY <1>1, SoundFacts
<1>3. Closed(c, A) /\ mul \notin A /\ Operands(c, mul) \subseteq A
  BY AncestorsFacts
<1>4. A \cap SlicesBehind(c, mul) = {} /\ mul \notin SlicesBehind(c, mul)
  BY <1>3 DEF Closed, SlicesBehind
<1> DEFINE K == {mul} \cup A \cup (SlicesBehind(c, mul) \ P)
<1>5. K \subseteq Ids(c) /\ K \cap P = {}
  BY <1>3, <1>4 DEF Closed, SlicesBehind
<1>6. K \subseteq Ids(d)
  BY <1>1, <1>5
<1>7. \A j \in K : /\ DOMAIN d.instrs[j] = Fields /\ Op(d, j) = Op(c, j)
                   /\ d.instrs[j].in = c.instrs[j].in
  <2>1. \A j \in K : DOMAIN d.instrs[j] = Fields
    BY <1>1, <1>6 DEF Sound, IsInstruction
  <2> QED
    BY <1>1, <1>5, <1>6, <2>1 DEF Partly, Alike, Op
<1>8. \A j \in K : Operands(d, j) = Operands(c, j)
  BY <1>7 DEF Operands
<1>9. Closed(d, A) /\ Closed(d, {mul} \cup A)
  BY <1>3, <1>6, <1>8 DEF Closed
<1> QED
  BY <1>1, <1>2, <1>3, <1>4, <1>6, <1>7, <1>8, <1>9 DEF Closed, StillThere

\* One more slice gives way to something new that reads only instructions of W.
LEMMA SliceReplaced ==
  ASSUME NEW c, Sound(c), NEW mul \in Ids(c), InSlices(c, mul), NEW d, NEW W,
         NEW P \in SUBSET SlicesBehind(c, mul), Partly(c, mul, d, W, P),
         W \cap SlicesBehind(c, mul) = {},
         NEW n \in Nat, n >= 1, NEW added, Addable(d, W, added, n),
         NEW s \in SlicesBehind(c, mul) \ P,
         NEW e, e = ReplaceInstruction(Add(d, added), s, d.next + n - 1)
  PROVE  /\ Turned(c, e, MayGo(c, mul))
         /\ (\E t \in SlicesBehind(c, mul) \ P : t # s) => Partly(c, mul, e, W, P \cup {s})
PROOF
<1> DEFINE A == Ancestors(c, mul)
           a == Add(d, added)
           N == d.next..d.next + n - 1
           R == W \cup N
<1>1. /\ Sound(d) /\ c.next \in Nat /\ d.next \in Nat /\ c.next <= d.next
      /\ \A j \in Ids(c) : j \in Nat /\ j < c.next
      /\ A \subseteq Ids(c) /\ mul \notin A /\ A \cap SlicesBehind(c, mul) = {}
      /\ mul \notin SlicesBehind(c, mul)
      /\ {mul} \cup A \cup (SlicesBehind(c, mul) \ P) \subseteq Ids(d)
      /\ \A j \in {mul} \cup A \cup (SlicesBehind(c, mul) \ P) :
           Operands(d, j) = Operands(c, j) /\ d.instrs[j].in = c.instrs[j].in
      /\ Closed(d, {mul} \cup A)
  <2>1. StillThere(c, mul, d, A, P)
    BY PartlyFacts
  <2> HIDE DEF A
  <2> QED
    BY <2>1 DEF StillThere
<1>2. Closed(d, W) /\ Turned(c, d, P)
  BY DEF Partly
<1>3. s \in Ids(c) /\ s \in Ids(d) /\ Operands(c, s) = {mul} /\ s \notin W /\ s < d.next
  BY <1>1 DEF InSlices, SlicesBehind
<1> HIDE DEF A
<1>4. Enlarged(d, a, W, added, n)
  BY <1>1, <1>2, AddedFacts
<1>5. Turned(d, e, {s} \cup Ancestors(d, s))
  BY <1>1, <1>2, <1>3, TurnedByAdding
<1>6. Ancestors(d, s) \subseteq {mul} \cup A
  <2>1. Operands(d, s) \subseteq {mul} \cup A
    BY <1>1, <1>3
  <2> QED
    BY <1>1, <1>3, <2>1, AncestorsFacts
<1>7. Turned(c, e, MayGo(c, mul))
  <2>1. Turned(c, e, P \cup (({s} \cup Ancestors(d, s)) \cap Ids(c)))
    BY <1>2, <1>5, TurnedTwice
  <2>2. \A t \in SlicesBehind(c, mul) : t \in MayGo(c, mul)
    BY DEF SlicesBehind, InSlices, MayGo, Spent
  <2>3. P \cup (({s} \cup Ancestors(d, s)) \cap Ids(c)) \subseteq MayGo(c, mul)
    BY <1>6, <2>2 DEF MayGo, A
  <2> QED
    BY <2>1, <2>3 DEF Turned
<1>8. ASSUME NEW t \in SlicesBehind(c, mul) \ P, t # s
      PROVE  Partly(c, mul, e, W, P \cup {s})
  <2> HIDE DEF a
  <2>1. /\ Sound(a) /\ Closed(a, R) /\ Ids(a) = Ids(d) \cup N /\ Closed(a, W)
        /\ \A j \in Ids(d) : a.instrs[j] = d.instrs[j] /\ Operands(a, j) = Operands(d, j)
    BY <1>4 DEF Enlarged
  <2>2. s \notin R /\ d.next + n - 1 \in R /\ s \in Ids(a)
    BY <1>1, <1>3, <2>1
  <2> HIDE DEF N, R
  <2>3. \A o \in Operands(a, s) : \E u \in Ids(a) : u # s /\ o \in Operands(a, u)
    <3>1. Operands(a, s) = {mul}
      BY <1>1, <1>3, <2>1
    <3>2. t \in Ids(a) /\ mul \in Operands(a, t)
      BY <1>1, <1>8, <2>1 DEF SlicesBehind
    <3> QED
      BY <1>8, <3>1, <3>2
  <2>4. /\ Ids(e) = Ids(a) \ {s}
        /\ \A j \in Ids(e) : s \notin Operands(a, j) => e.instrs[j].in = a.instrs[j].in
    BY <2>1, <2>2, <2>3, ReplaceInstructionFacts DEF a
  <2>5. \A j \in {mul} \cup A \cup (SlicesBehind(c, mul) \ (P \cup {s})) :
          e.instrs[j].in = c.instrs[j].in
    <3> TAKE j \in {mul} \cup A \cup (SlicesBehind(c, mul) \ (P \cup {s}))
    <3>1. j \in Ids(d) /\ j \in Ids(e) /\ a.instrs[j].in = c.instrs[j].in
      BY <1>1, <1>3, <2>1, <2>4
    <3>2. Operands(a, j) \subseteq {mul} \cup A
      <4>1. CASE j \in {mul} \cup A
        BY <1>1, <2>1, <3>1, <4>1 DEF Closed
      <4>2. CASE j \in SlicesBehind(c, mul) \ (P \cup {s})
        <5>1. Operands(c, j) = {mul}
          BY <4>2 DEF InSlices
        <5> QED
          BY <1>1, <2>1, <3>1, <4>2, <5>1
      <4> QED
        BY <4>1, <4>2
    <3>3. s \notin Operands(a, j)
      BY <1>1, <3>2
    <3> QED
      BY <2>4, <3>1, <3>3
  <2>6. Closed(e, W)
    <3>1. \A j \in W : j \in Ids(e) /\ Operands(a, j) \subseteq W
      BY <1>3, <2>1, <2>4 DEF Closed
    <3>2. \A j \in W : Operands(e, j) = Operands(a, j)
      BY <1>3, <2>4, <3>1 DEF Operands
    <3> QED
      BY <3>1, <3>2 DEF Closed
  <2>7. Turned(c, e, P \cup {s})
    <3>1. Ids(d) \ Ids(e) \subseteq {s}
      BY <2>1, <2>4
    <3>2. Turned(d, e, {s})
      BY <1>5, <3>1 DEF Turned
    <3>3. Turned(c, e, P \cup ({s} \cap Ids(c)))
      BY <1>2, <3>2, TurnedTwice
    <3> QED
      BY <1>3, <3>3 DEF Turned
  <2> QED
    BY <2>5, <2>6, <2>7 DEF Partly, A
<1> QED
  BY <1>7, <1>8

\* One turn of the loop over the narrow columns.
Narrowed(p, d, k) == ReplaceSlice(d, p.narrow[k].slice, p.new, p.dim, k)

\* What that loop leaves.
NarrowLoop == INSTANCE Recursion WITH Step <- Narrowed

\* One turn of the loop over the wide columns, each of which gets a lookup of its own.
Widened(p, d, pair) ==
  LET own == CreateEmbedding(d, p.mul, pair.column, p.dim, Shape(p.c, pair.column)[p.dim])
  IN  ReplaceInstruction(own, pair.slice, own.next - 1)

\* What that loop leaves.
WideLoop == INSTANCE Recursion WITH Step <- Widened

\* The slices of the first k of some pairs.
SlicesOf(s, k) == {s[j].slice : j \in 1..k}

\* The second loop: the narrow slices.
LEMMA NarrowFacts ==
  ASSUME NEW c, Sound(c), NEW mul \in Ids(c), InSlices(c, mul), NEW d, NEW W,
         Partly(c, mul, d, W, {}), W \cap SlicesBehind(c, mul) = {}, NEW new \in W, NEW dim,
         NEW s, NEW n \in Nat, NEW t, NEW m \in Nat, m >= 1, Sorted(c, mul, s, n, t, m),
         NEW p, p.narrow = s, p.new = new, p.dim = dim,
         NEW numbers, numbers = [k \in DOMAIN s |-> k]
  PROVE  Partly(c, mul, NarrowLoop!Folded(p, d, numbers), W, SlicesOf(s, n))
PROOF
<1> DEFINE e == NarrowLoop!Folded(p, d, numbers)
<1>1. /\ DOMAIN s = 1..n
      /\ \A k \in 1..n : s[k].slice \in SlicesBehind(c, mul)
      /\ \A k \in 1..m : t[k].slice \in SlicesBehind(c, mul)
      /\ \A a, b \in 1..n : a < b => s[a].slice # s[b].slice
      /\ \A a \in 1..n, b \in 1..m : s[a].slice # t[b].slice
  BY DEF Sorted, IsPair
<1>2. DOMAIN numbers = 1..n /\ \A k \in 1..n : numbers[k] = k
  BY <1>1
<1>3. \A x, k : Narrowed(p, x, k) = ReplaceSlice(x, s[k].slice, new, dim, k)
  BY DEF Narrowed
<1> HIDE DEF e
<1>4. PICK acc : NarrowLoop!FoldsTo(p, d, numbers, n, acc)
  BY <1>2, NarrowLoop!FoldSteps
<1>5. /\ acc[0] = d /\ e = acc[n]
      /\ \A k \in 1..n : acc[k] = ReplaceSlice(acc[k - 1], s[k].slice, new, dim, k)
  BY <1>2, <1>3, <1>4 DEF NarrowLoop!FoldsTo, e
<1> DEFINE T == {k \in 0..n : Partly(c, mul, acc[k], W, SlicesOf(s, k))}
<1>6. 0 \in T
  <2>1. SlicesOf(s, 0) = {}
    BY DEF SlicesOf
  <2> QED
    BY <1>5, <2>1
<1>7. ASSUME NEW k \in 1..n, k - 1 \in T
      PROVE  k \in T
  <2> DEFINE P == SlicesOf(s, k - 1)
             x == acc[k - 1]
             slice == s[k].slice
             copy == SliceOf(x, slice, new, dim, k)
             A == Ancestors(c, mul)
  <2>1. /\ P \in SUBSET SlicesBehind(c, mul) /\ slice \in SlicesBehind(c, mul) \ P
        /\ P \cup {slice} = SlicesOf(s, k)
        /\ \E u \in SlicesBehind(c, mul) \ P : u # slice
    <3>1. \A j \in 1..k - 1 : j \in 1..n /\ j < k
      OBVIOUS
    <3>2. P \in SUBSET SlicesBehind(c, mul) /\ slice \in SlicesBehind(c, mul) \ P
      BY <1>1, <3>1 DEF SlicesOf
    <3>3. \A j : j \in 1..k <=> j \in 1..k - 1 \/ j = k
      OBVIOUS
    <3>4. P \cup {slice} = SlicesOf(s, k)
      BY <3>3 DEF SlicesOf
    <3>5. 1 \in 1..m /\ t[1].slice \in SlicesBehind(c, mul)
      BY <1>1
    <3>6. t[1].slice \notin P /\ t[1].slice # slice
      BY <1>1, <3>1, <3>5 DEF SlicesOf
    <3> QED
      BY <3>2, <3>4, <3>5, <3>6
  <2>2. Partly(c, mul, x, W, P)
    BY <1>7
  <2> HIDE DEF P, slice, x
  <2>3. StillThere(c, mul, x, A, P)
    BY <2>1, <2>2, PartlyFacts
  <2>4. /\ slice \in Ids(x) /\ DOMAIN x.instrs[slice] = Fields /\ Op(x, slice) = "Slice"
        /\ x.next \in Nat
    BY <2>1, <2>3 DEF StillThere, InSlices
  <2>5. PICK one \in Nat : one = 1
    OBVIOUS
  <2>6. Reads(copy, W)
    <3>1. DOMAIN copy = Fields /\ copy.op = "Slice" /\ copy.in = <<new>>
      BY <2>4 DEF SliceOf, Clone, Fields, Op
    <3>2. TakesAsMany([op |-> "Slice", in |-> <<new>>])
      BY TakesFacts
    <3>3. TakesAsMany(copy)
      BY <3>1, <3>2 DEF TakesAsMany
    <3>4. <<new>> \in Seq(W)
      OBVIOUS
    <3> QED
      BY <3>1, <3>3, <3>4 DEF Reads
  <2>7. acc[k] = ReplaceInstruction(Add(x, <<copy>>), slice, x.next)
    BY <1>5 DEF ReplaceSlice, x, slice
  <2> HIDE DEF copy
  <2> DEFINE added == <<copy>>
  <2>8. Addable(x, W, added, one)
    BY <2>5, <2>6, AddableOne
  <2>9. acc[k] = ReplaceInstruction(Add(x, added), slice, x.next + one - 1) /\ one >= 1
    <3>1. x.next + one - 1 = x.next
      BY <2>4, <2>5
    <3> QED
      BY <2>5, <2>7, <3>1
  <2> HIDE DEF added
  <2>10. PICK z : z = acc[k]
    OBVIOUS
  <2>11. Partly(c, mul, z, W, P \cup {slice})
    BY <2>1, <2>2, <2>8, <2>9, <2>10, SliceReplaced
  <2> QED
    BY <2>1, <2>10, <2>11
<1> HIDE DEF T
<1>8. \A k \in 0..n : k \in T
  BY <1>6, <1>7, NarrowLoop!StepByStep
<1>9. n \in T
  BY <1>8
<1> QED
  BY <1>5, <1>9 DEF T, e

\* The third loop: the wide ones, the last of which takes the old lookup with it.
LEMMA WideFacts ==
  ASSUME NEW c, Sound(c), NEW mul \in Ids(c), InSlices(c, mul),
         NEW A, A = Ancestors(c, mul), NEW q, IsLookup(c, mul, A, q), Concat(c, mul) \in A,
         NEW s, NEW n \in Nat, NEW t, NEW m \in Nat, m >= 1, Sorted(c, mul, s, n, t, m),
         NEW d, Partly(c, mul, d, A, SlicesOf(s, n)), NEW p, p.c = c, p.mul = mul
  PROVE  Turned(c, WideLoop!Folded(p, d, t), MayGo(c, mul))
PROOF
<1>1. /\ DOMAIN t = 1..m
      /\ \A k \in 1..n : s[k].slice \in SlicesBehind(c, mul)
      /\ \A k \in 1..m : t[k].slice \in SlicesBehind(c, mul)
      /\ \A k \in 1..m : t[k].column \in Operands(c, Concat(c, mul))
      /\ \A a, b \in 1..m : a < b => t[a].slice # t[b].slice
      /\ \A a \in 1..n, b \in 1..m : s[a].slice # t[b].slice
  BY DEF Sorted, IsPair
<1>2. PICK acc : WideLoop!FoldsTo(p, d, t, m, acc)
  BY <1>1, WideLoop!FoldSteps
<1>3. /\ acc[0] = d /\ WideLoop!Folded(p, d, t) = acc[m]
      /\ \A k \in 1..m : acc[k] = Widened(p, acc[k - 1], t[k])
  BY <1>2 DEF WideLoop!FoldsTo
<1> DEFINE P(k) == SlicesOf(s, n) \cup SlicesOf(t, k)
<1>4. \A j \in A : j \in Ids(c) /\ Operands(c, j) \subseteq A
  BY AncestorsFacts DEF Closed
<1>5. ASSUME NEW k \in 1..m, Partly(c, mul, acc[k - 1], A, P(k - 1))
      PROVE  /\ Turned(c, acc[k], MayGo(c, mul))
             /\ k < m => Partly(c, mul, acc[k], A, P(k))
  <2> DEFINE x == acc[k - 1]
             slice == t[k].slice
             column == t[k].column
             size == Shape(p.c, column)[p.dim]
             Q == P(k - 1)
  <2>1. /\ Q \in SUBSET SlicesBehind(c, mul) /\ slice \in SlicesBehind(c, mul) \ Q
        /\ Q \cup {slice} = P(k)
        /\ k < m => \E u \in SlicesBehind(c, mul) \ Q : u # slice
    <3>1. \A j \in 1..k - 1 : j \in 1..m /\ j < k
      OBVIOUS
    <3>2. Q \in SUBSET SlicesBehind(c, mul) /\ slice \in SlicesBehind(c, mul) \ Q
      BY <1>1, <3>1 DEF SlicesOf
    <3>3. \A j : j \in 1..k <=> j \in 1..k - 1 \/ j = k
      OBVIOUS
    <3>4. Q \cup {slice} = P(k)
      BY <3>3 DEF SlicesOf
    <3>5. ASSUME k < m PROVE t[m].slice \in SlicesBehind(c, mul) \ Q /\ t[m].slice # slice
      <4>1. m \in 1..m /\ \A j \in 1..k : j < m /\ j \in 1..m
        BY <3>5
      <4>2. k \in 1..k /\ \A j \in 1..k - 1 : j \in 1..k
        OBVIOUS
      <4> QED
        BY <1>1, <4>1, <4>2 DEF SlicesOf
    <3> QED
      BY <3>2, <3>4, <3>5
  <2>2. Partly(c, mul, x, A, Q)
    BY <1>5
  <2>3. column \in A
    BY <1>1, <1>4
  <2>4. PICK own : /\ own = CreateEmbedding(x, mul, column, p.dim, size)
                   /\ acc[k] = ReplaceInstruction(own, slice, own.next - 1)
    BY <1>3 DEF Widened
  <2> HIDE DEF Q, slice, x, column, size
  <2>5. StillThere(c, mul, x, A, Q)
    BY <2>1, <2>2, PartlyFacts
  <2>6. /\ Sound(x) /\ mul \in Ids(x) /\ Closed(x, A) /\ x.next \in Nat
        /\ \A j \in A \cup {mul} : Op(x, j) = Op(c, j) /\ x.instrs[j].in = c.instrs[j].in
        /\ A \cap SlicesBehind(c, mul) = {}
    BY <2>5 DEF StillThere
  <2>7. IsLookup(x, mul, A, q)
    BY <2>6, LookupStays
  <2>8. PICK twelve \in Nat : twelve = 12
    OBVIOUS
  <2>9. PICK added : /\ CreateEmbedding(x, mul, column, p.dim, size) = Add(x, added)
                     /\ Addable(x, A, added, twelve)
    <3>1. A \in SUBSET A
      OBVIOUS
    <3> QED
      BY <2>3, <2>6, <2>7, <2>8, <3>1, CreateEmbeddingFacts
  <2>10. Add(x, added).next = x.next + twelve
    <3>1. Enlarged(x, Add(x, added), A, added, twelve)
      BY <2>6, <2>9, AddedFacts
    <3> QED
      BY <3>1 DEF Enlarged
  <2>11. /\ acc[k] = ReplaceInstruction(Add(x, added), slice, x.next + twelve - 1)
         /\ twelve >= 1
    <3>3. own = Add(x, added)
      BY <2>4, <2>9, Zenon
    <3>4. own.next = x.next + twelve
      BY <2>10, <3>3, Zenon
    <3>5. x.next \in Nat
      BY <2>6
    <3>1. own.next - 1 = x.next + twelve - 1
      BY <3>4, <3>5
    <3>2. twelve >= 1
      BY <2>8
    <3> QED
      BY <2>4, <3>1, <3>2, <3>3
  <2>12. PICK z : z = ReplaceInstruction(Add(x, added), slice, x.next + twelve - 1)
                  /\ z = acc[k]
    BY <2>11
  <2>13. /\ Turned(c, z, MayGo(c, mul))
         /\ (\E u \in SlicesBehind(c, mul) \ Q : u # slice) => Partly(c, mul, z, A, Q \cup {slice})
    <3>1. /\ Q \in SUBSET SlicesBehind(c, mul) /\ slice \in SlicesBehind(c, mul) \ Q
          /\ A \cap SlicesBehind(c, mul) = {} /\ twelve >= 1 /\ Addable(x, A, added, twelve)
      BY <2>1, <2>6, <2>9, <2>11
    <3> QED
      BY <2>2, <2>12, <3>1, SliceReplaced
  <2> QED
    BY <2>1, <2>12, <2>13
<1> DEFINE T == {k \in 0..m - 1 : Partly(c, mul, acc[k], A, P(k))}
<1>6. 0 \in T
  <2>1. SlicesOf(t, 0) = {}
    BY DEF SlicesOf
  <2> QED
    BY <1>3, <2>1
<1>7. ASSUME NEW k \in 1..m - 1, k - 1 \in T
      PROVE  k \in T
  <2>1. k \in 1..m /\ k < m
    OBVIOUS
  <2> QED
    BY <1>5, <1>7, <2>1
<1> HIDE DEF T, P
<1>8. m - 1 \in Nat /\ m - 1 \in 0..m - 1 /\ m \in 1..m
  OBVIOUS
<1>9. \A k \in 0..m - 1 : k \in T
  BY <1>6, <1>7, <1>8, WideLoop!StepByStep
<1>10. Partly(c, mul, acc[m - 1], A, P(m - 1))
  BY <1>8, <1>9 DEF T
<1> QED
  BY <1>3, <1>5, <1>8, <1>10

\* The first step: the columns joined, and the lookup once more.
LEMMA LookedFacts ==
  ASSUME NEW c, Sound(c), NEW mul \in Ids(c), InSlices(c, mul),
         NEW A, A = Ancestors(c, mul), NEW q, IsLookup(c, mul, A, q), Concat(c, mul) \in A,
         Op(c, Concat(c, mul)) = "Concatenate", NEW shape, NEW in \in Seq(A), NEW dim, NEW size,
         NEW joined, joined = Add(c, <<Clone(c, Concat(c, mul), shape, in)>>),
         NEW looked, looked = CreateEmbedding(joined, mul, c.next, dim, size)
  PROVE  \E W : /\ Partly(c, mul, looked, W, {}) /\ W \cap SlicesBehind(c, mul) = {}
                /\ looked.next - 1 \in W
PROOF
<1> DEFINE clone == Clone(c, Concat(c, mul), shape, in)
           one == <<clone>>
           S == A \cup {c.next}
           W == S \cup c.next + 1..c.next + 12
<1>1. Closed(c, A) /\ A \cap SlicesBehind(c, mul) = {} /\ c.next \in Nat
      /\ \A j \in Ids(c) : j \in Nat /\ j < c.next
  BY AncestorsFacts, SoundFacts DEF Closed, SlicesBehind
<1>2. PICK m, n \in Nat : m = 1 /\ n = 12
  OBVIOUS
<1>3. Reads(clone, A)
  BY <1>1, TakesFacts, ReadsClone DEF Closed
<1> HIDE DEF clone
<1>4. Addable(c, A, one, m)
  BY <1>2, <1>3, AddableOne
<1>5. joined = Add(c, one)
  BY DEF clone
<1> HIDE DEF one
<1>6. Enlarged(c, joined, A, one, m)
  BY <1>1, <1>4, <1>5, AddedFacts
<1>7. /\ Sound(joined) /\ joined.next = c.next + 1 /\ Ids(joined) = Ids(c) \cup {c.next}
      /\ Closed(joined, S)
      /\ \A j \in Ids(c) : joined.instrs[j] = c.instrs[j]
  <2>1. c.next..c.next + m - 1 = {c.next}
    BY <1>1, <1>2
  <2> QED
    BY <1>2, <1>6, <2>1 DEF Enlarged
<1>8. IsLookup(joined, mul, A, q)
  <2>1. \A j \in A \cup {mul} : Op(joined, j) = Op(c, j) /\ joined.instrs[j].in = c.instrs[j].in
    BY <1>1, <1>7 DEF Closed, Op
  <2> QED
    BY <2>1, LookupStays
<1>9. PICK added : looked = Add(joined, added) /\ Addable(joined, S, added, n)
  <2>1. A \in SUBSET S /\ c.next \in S /\ mul \in Ids(joined)
    BY <1>7
  <2> HIDE DEF S
  <2> QED
    BY <1>2, <1>7, <1>8, <2>1, CreateEmbeddingFacts
<1>10. Enlarged(joined, looked, S, added, n)
  <2> HIDE DEF S
  <2> QED
    BY <1>7, <1>9, AddedFacts
<1>11. /\ looked.next = c.next + 13 /\ Closed(looked, W)
       /\ \A j \in Ids(joined) : looked.instrs[j] = joined.instrs[j]
  <2>1. joined.next..joined.next + n - 1 = c.next + 1..c.next + 12 /\ joined.next + n = c.next + 13
    BY <1>1, <1>2, <1>7
  <2> HIDE DEF S
  <2> QED
    BY <1>10, <2>1 DEF Enlarged
<1>12. Turned(c, looked, {})
  <2>1. Turned(c, joined, {}) /\ Turned(joined, looked, {})
    BY <1>6, <1>7, <1>10, TurnedByEnlarging
  <2>2. Turned(c, looked, {} \cup ({} \cap Ids(c)))
    BY <2>1, TurnedTwice
  <2> QED
    BY <2>2 DEF Turned
<1>13. \A j \in {mul} \cup A \cup SlicesBehind(c, mul) : looked.instrs[j].in = c.instrs[j].in
  <2>1. \A j \in {mul} \cup A \cup SlicesBehind(c, mul) : j \in Ids(c)
    BY <1>1 DEF Closed, SlicesBehind
  <2> QED
    BY <1>7, <1>11, <2>1
<1>14. W \cap SlicesBehind(c, mul) = {} /\ looked.next - 1 \in W
  BY <1>1, <1>11 DEF SlicesBehind
<1> HIDE DEF W
<1> QED
  BY <1>11, <1>12, <1>13, <1>14 DEF Partly

\* ConcatPartition: two loops that replace the slices behind a product, and the product goes
\* with the last of them.
LEMMA ConcatPartitionFacts ==
  ASSUME NEW c, Sound(c), NEW mul \in Ids(c)
  PROVE  Turned(c, ConcatPartition(c, mul), MayGo(c, mul))
PROOF
<1> DEFINE A == Ancestors(c, mul)
           concat == Concat(c, mul)
           dim == Attr(c, concat).dim
           s == Columns(c, mul, FALSE)
           t == Columns(c, mul, TRUE)
           in == [k \in DOMAIN s |-> s[k].column]
           shape == ReplaceDim(Shape(c, concat), dim, Len(s))
           joined == Add(c, <<Clone(c, concat, shape, in)>>)
           looked == CreateEmbedding(joined, mul, c.next, dim, Len(s))
           numbers == [k \in DOMAIN s |-> k]
           r == [narrow |-> s, new |-> looked.next - 1, dim |-> dim]
           d == NarrowLoop!Folded(r, looked, numbers)
           p == [c |-> c, mul |-> mul, dim |-> dim]
           e == WideLoop!Folded(p, d, t)
<1>1. ASSUME MatchesConcat(c, mul), Partitionable(c, mul)
      PROVE  ConcatPartition(c, mul) = e
  BY <1>1 DEF ConcatPartition, FoldLeft, MapThenFoldSet, Max, WideLoop!Folded, WideLoop!Greatest,
              Widened, NarrowLoop!Folded, NarrowLoop!Greatest, Narrowed
<1>2. CASE ~(MatchesConcat(c, mul) /\ Partitionable(c, mul))
  <2>1. ConcatPartition(c, mul) = c
    BY <1>2 DEF ConcatPartition
  <2> QED
    BY <2>1, Unturned
<1>3. CASE MatchesConcat(c, mul) /\ Partitionable(c, mul)
  <2>1. ReadInSlices(c, mul) /\ t # <<>>
    BY <1>3 DEF Partitionable
  <2>2. InSlices(c, mul)
    BY <2>1, InSlicesFacts
  <2>3. PICK q : IsLookup(c, mul, A, q)
    BY <1>3, LookupExists
  <2>4. concat \in A /\ Op(c, concat) = "Concatenate"
    BY <1>3, LookupExists
  <2>5. \A j \in A : j \in Ids(c) /\ Operands(c, j) \subseteq A
    BY AncestorsFacts DEF Closed
  <2>6. PICK n, m \in Nat : Sorted(c, mul, s, n, t, m)
    BY <2>1, <2>4, <2>5, ColumnsFacts
  <2>7. m >= 1
    <3> HIDE DEF s, t
    <3> QED
      BY <2>1, <2>6 DEF Sorted
  <2>8. in \in Seq(A)
    <3> HIDE DEF s, A
    <3>1. DOMAIN s = 1..n /\ \A k \in 1..n : s[k].column \in A
      BY <2>4, <2>5, <2>6 DEF Sorted, IsPair
    <3> QED
      BY <3>1
  <2> DEFINE size == Len(s)
  <2>9. PICK W : /\ Partly(c, mul, looked, W, {}) /\ W \cap SlicesBehind(c, mul) = {}
                 /\ looked.next - 1 \in W
    <3>1. PICK x : x = joined
      OBVIOUS
    <3>2. PICK y : y = looked /\ y = CreateEmbedding(x, mul, c.next, dim, size)
      BY <3>1
    <3>3. x = Add(c, <<Clone(c, Concat(c, mul), shape, in)>>)
      BY <3>1
    <3>5. Concat(c, mul) \in A /\ Op(c, Concat(c, mul)) = "Concatenate"
      BY <2>4
    <3>6. A = Ancestors(c, mul)
      OBVIOUS
    <3>7. q = q /\ IsLookup(c, mul, A, q) /\ in \in Seq(A)
      BY <2>3, <2>8
    <3>8. y = CreateEmbedding(x, mul, c.next, dim, size)
      BY <3>2
    <3> HIDE DEF joined, looked, in, shape, dim, size, A, s, t, concat, numbers, r, d, p, e
    <3>4. \E W : /\ Partly(c, mul, y, W, {}) /\ W \cap SlicesBehind(c, mul) = {} /\ y.next - 1 \in W
      BY <2>2, <3>3, <3>5, <3>6, <3>7, <3>8, LookedFacts
    <3> QED
      BY <3>2, <3>4
  <2> HIDE DEF looked, s, t
  <2>10. Partly(c, mul, d, W, SlicesOf(s, n))
    <3>1. r.narrow = s /\ r.new = looked.next - 1 /\ r.dim = dim
      OBVIOUS
    <3>2. numbers = [k \in DOMAIN s |-> k]
      OBVIOUS
    <3> HIDE DEF dim, r, numbers
    <3> QED
      BY <2>2, <2>6, <2>7, <2>9, <3>1, <3>2, NarrowFacts
  <2> HIDE DEF d, A
  <2>11. SlicesOf(s, n) \in SUBSET SlicesBehind(c, mul)
    BY <2>6 DEF Sorted, SlicesOf, IsPair
  <2>12. Partly(c, mul, d, A, SlicesOf(s, n))
    <3>1. StillThere(c, mul, d, A, SlicesOf(s, n))
      BY <2>10, <2>11, PartlyFacts DEF A
    <3> QED
      BY <2>10, <3>1 DEF StillThere, Partly
  <2>13. p.c = c /\ p.mul = mul
    OBVIOUS
  <2> HIDE DEF p
  <2>14. Turned(c, e, MayGo(c, mul))
    BY <2>2, <2>3, <2>4, <2>6, <2>7, <2>12, <2>13, WideFacts DEF A
  <2> QED
    BY <1>1, <1>3, <2>14 DEF d, looked, s, t, p
<1> QED
  BY <1>2, <1>3

------------------------------------------------------------------------------
(* The passes. *)

\* For what Recursion says of positions; the step is any.
First == INSTANCE Recursion WITH Step <- Follow1

\* What holds of the pass and what it has still to come to, beside the computation.
Ahead ==
  /\ pass \in 0..Len(Passes) /\ (pass = 0 => todo = {})
  /\ todo \subseteq Ids(comp)
  /\ \A i \in todo : Op(comp, i) \in Handled

\* The flags are truth values, and none is missing.
FlagsTyped == flags \in [DOMAIN flags -> BOOLEAN] /\ FlagNames \subseteq DOMAIN flags

\* What annc-opt did to the variables.
PackingsTyped ==
  /\ DOMAIN packings = request.variables
  /\ \A p \in DOMAIN packings : packings[p] \in Seq({"k4m4", "kn4"})

\* The inductive invariant: the computation is sound, and all that the pass has still to come
\* to is there.
PipelineInv == Sound(comp) /\ Ahead /\ FlagsTyped /\ PackingsTyped

\* The passes by their places.
LEMMA PassesFacts ==
  /\ Len(Passes) = 9
  /\ Passes[9] = "compiled" /\ Passes[7] = "HloDCE" /\ Passes[1] = "LayoutMatmulRewriter"
  /\ \A p \in 1..9 : Passes[p] = "compiled" => p = 9
PROOF
<1>1. \A p \in 1..9 : \/ p = 1 \/ p = 2 \/ p = 3 \/ p = 4 \/ p = 5 \/ p = 6 \/ p = 7
                      \/ p = 8 \/ p = 9
  OBVIOUS
<1>2. /\ Passes[1] # "compiled" /\ Passes[2] # "compiled" /\ Passes[3] # "compiled"
      /\ Passes[4] # "compiled" /\ Passes[5] # "compiled" /\ Passes[6] # "compiled"
      /\ Passes[7] # "compiled" /\ Passes[8] # "compiled"
  BY DEF Passes
<1>3. /\ Len(Passes) = 9
      /\ Passes[9] = "compiled" /\ Passes[7] = "HloDCE" /\ Passes[1] = "LayoutMatmulRewriter"
  BY DEF Passes
<1> QED
  BY <1>1, <1>2, <1>3

\* There is always a next pass of the pipeline.
LEMMA NextPassExists ==
  ASSUME NextPass, pass \in 0..Len(Passes)
  PROVE  pass' \in 1..Len(Passes)
PROOF
<1> DEFINE T == {p \in 1..9 : p > pass /\ InPipeline(Passes[p])}
           Next1(p) == /\ InPipeline(Passes[p])
                       /\ \A q \in pass + 1..p - 1 : ~InPipeline(Passes[q])
<1>1. pass \in 0..8
  <2>1. pass = 9 => Current = "compiled" /\ pass # 0
    BY PassesFacts DEF Current
  <2>2. pass # 9
    BY <2>1 DEF NextPass, Running
  <2> QED
    BY <2>2, PassesFacts
<1>2. InPipeline(Passes[9])
  BY PassesFacts DEF InPipeline
<1>3. 9 \in T
  BY <1>1, <1>2
<1>4. PICK n \in Nat : n = 9
  OBVIOUS
<1>5. T \in SUBSET (1..n) /\ T # {}
  BY <1>3, <1>4
<1>6. PICK p \in T : \A q \in T : p <= q
  <2> HIDE DEF T
  <2> QED
    BY <1>5, First!FirstExists
<1>7. p \in pass + 1..Len(Passes) /\ Next1(p)
  <2>1. p \in pass + 1..Len(Passes) /\ p \in 1..9 /\ InPipeline(Passes[p])
    BY <1>1, PassesFacts
  <2>2. \A q \in pass + 1..p - 1 : q \in 1..9 /\ q > pass /\ ~(p <= q)
    BY <1>1, <2>1
  <2> QED
    BY <1>6, <2>1, <2>2
<1> HIDE DEF Next1
<1>8. pass' = CHOOSE q \in pass + 1..Len(Passes) : Next1(q)
  BY DEF NextPass, Next1
<1>9. pass' \in pass + 1..Len(Passes)
  BY <1>7, <1>8
<1> QED
  BY <1>1, <1>9, PassesFacts

\* Whatever is visited in whatever pass, the rewriters take away only what may go.
LEMMA RewrittenFacts ==
  ASSUME PipelineInv, Presumed, Running, Current # "LayoutMatmulRewriter", NEW i \in todo,
         NEW d \in Rewritings(i)
  PROVE  Turned(comp, d, MayGo(comp, i))
PROOF
<1>1. Sound(comp) /\ i \in Ids(comp) /\ Op(comp, i) \in Handled
  BY DEF PipelineInv, Ahead
<1>2. Presumes(comp, i)
  BY DEF Presumed, Presumes
<1>3. \/ Current = "XnnPackOpsRewriter" \/ Current = "ConcatPartition"
      \/ Current = "EmbeddingSimplify" \/ Current = "ReduceCombine"
      \/ Current = "KDnnFusionAfterHloLayoutAssign"
  BY <1>1 DEF Handled
<1>4. CASE Current = "XnnPackOpsRewriter"
  <2>1. d = HandleDivide(comp, i)
    BY <1>4 DEF Rewritings
  <2>2. Turned(comp, HandleDivide(comp, i), {i} \cup Ancestors(comp, i))
    BY <1>1, DivideFacts
  <2>3. ({i} \cup Ancestors(comp, i)) \cap Ids(comp) \subseteq MayGo(comp, i)
    BY DEF MayGo
  <2> QED
    BY <2>1, <2>2, <2>3, TurnedWithin
<1>5. CASE Current = "ConcatPartition"
  <2>1. d = ConcatPartition(comp, i)
    BY <1>5 DEF Rewritings
  <2> QED
    BY <1>1, <2>1, ConcatPartitionFacts
<1>6. CASE Current = "EmbeddingSimplify"
  <2>1. d = EmbeddingSimplify(comp, i)
    BY <1>6 DEF Rewritings
  <2> QED
    BY <1>1, <2>1, EmbeddingSimplifyFacts
<1>7. CASE Current = "ReduceCombine"
  <2>1. d = ReduceCombine(comp, i)
    BY <1>7 DEF Rewritings
  <2> QED
    BY <1>1, <1>2, <2>1, ReduceCombineFacts
<1>8. CASE Current = "KDnnFusionAfterHloLayoutAssign"
  <2>1. d \in KDnnHandle(flags, comp, i)
    BY <1>8 DEF Rewritings
  <2> QED
    BY <1>1, <1>2, <2>1, KDnnFacts
<1> QED
  BY <1>3, <1>4, <1>5, <1>6, <1>7, <1>8

\* What a rewriter removes, the pass has come to before.
LEMMA VisitFacts ==
  ASSUME PipelineInv, Presumed, Visit
  PROVE  Sound(comp') /\ Ahead' /\ comp'.next >= comp.next
PROOF
<1>1. PICK i \in todo : ComesTo(i) /\ comp' \in Rewritings(i) /\ todo' = todo \ {i}
  BY DEF Visit
<1>2. Turned(comp, comp', MayGo(comp, i))
  BY <1>1, RewrittenFacts DEF Visit
<1>3. pass' = pass /\ Handled' = Handled /\ Running
  BY DEF Visit, Handled, Current
<1>4. ASSUME NEW j \in todo, j # i
      PROVE  j \in Ids(comp') /\ Op(comp', j) \in Handled
  <2>1. j \in Ids(comp) /\ Op(comp, j) \in Handled
    BY DEF PipelineInv, Ahead
  <2>2. Handled \cap Spent = {}
    BY DEF Handled, Spent
  <2>3. j \notin Ancestors(comp, i)
    BY <1>1, <1>4 DEF ComesTo
  <2>4. j \notin MayGo(comp, i)
    BY <1>4, <2>1, <2>2, <2>3 DEF MayGo
  <2>5. j \in Ids(comp') /\ Alike(comp, comp', j)
    BY <1>2, <2>1, <2>4 DEF Turned
  <2>6. Op(comp', j) = Op(comp, j)
    BY <2>5 DEF Alike, Op
  <2> QED
    BY <2>1, <2>5, <2>6
<1>5. todo' \subseteq Ids(comp') /\ \A j \in todo' : Op(comp', j) \in Handled'
  BY <1>1, <1>3, <1>4
<1>6. Sound(comp') /\ comp'.next >= comp.next
  <2>1. Sound(comp') /\ comp.next <= comp'.next
    BY <1>2 DEF Turned
  <2>2. comp.next \in Nat /\ comp'.next \in Nat
    BY <2>1, SoundFacts DEF PipelineInv
  <2> QED
    BY <2>1, <2>2
<1> QED
  BY <1>3, <1>5, <1>6 DEF PipelineInv, Ahead, Running

\* A pass starts with instructions that are there; HloDCE removes what the result does not
\* need.
LEMMA NextPassFacts ==
  ASSUME PipelineInv, NextPass
  PROVE  Sound(comp') /\ Ahead'
PROOF
<1>1. Sound(comp) /\ pass' \in 1..Len(Passes)
  BY NextPassExists DEF PipelineInv, Ahead
<1>2. /\ comp' = IF Passes[pass'] = "HloDCE" THEN HloDCE(comp) ELSE comp
      /\ todo' = {i \in Ids(comp) : Op(comp, i) \in Handled'}
  BY DEF NextPass
<1>3. Current' = Passes[pass']
  BY DEF Current
<1>4. CASE Passes[pass'] = "HloDCE"
  <2>1. Handled' = {}
    BY <1>3, <1>4 DEF Handled
  <2>2. comp' = HloDCE(comp)
    BY <1>2, <1>4
  <2> QED
    BY <1>1, <1>2, <2>1, <2>2, HloDCEFacts DEF Ahead
<1>5. CASE Passes[pass'] # "HloDCE"
  <2>1. comp' = comp
    BY <1>2, <1>5
  <2> QED
    BY <1>1, <1>2, <2>1 DEF Ahead
<1> QED
  BY <1>4, <1>5

\* The modules that are compiled are sound ones.
LEMMA InitFacts == Init => PipelineInv
PROOF
<1> SUFFICES ASSUME Init PROVE PipelineInv
  OBVIOUS
<1>1. /\ request \in Compilations /\ pass = 0 /\ todo = {} /\ comp = request.module
      /\ flags = DefaultValues /\ packings = [p \in request.variables |-> <<>>]
  BY DEF Init
<1>2. Sound(comp)
  BY <1>1, CompilationsAssumption, SoundComputations
<1>3. Ahead
  BY <1>1, PassesFacts DEF Ahead
<1>4. FlagsTyped
  <2>1. \A f \in DefaultFlags : f.default_value \in BOOLEAN
    <3>1. \A f \in DefaultFlags : \E n, t : f = Flag(n, TRUE, t) \/ f = Flag(n, FALSE, t)
      BY Zenon DEF DefaultFlags
    <3>2. \A n, t : /\ Flag(n, TRUE, t).default_value = TRUE
                   /\ Flag(n, FALSE, t).default_value = FALSE
      BY DEF Flag
    <3> SUFFICES ASSUME NEW f \in DefaultFlags
                 PROVE  f.default_value = TRUE \/ f.default_value = FALSE
      BY Zenon
    <3>3. PICK n, t : f = Flag(n, TRUE, t) \/ f = Flag(n, FALSE, t)
      BY <3>1
    <3> QED
      BY <3>2, <3>3, Zenon
  <2>2. ASSUME NEW n \in FlagNames PROVE DefaultValues[n] \in BOOLEAN
    <3>1. \E f \in DefaultFlags : f.name = n
      BY DEF FlagNames
    <3>2. (CHOOSE f \in DefaultFlags : f.name = n) \in DefaultFlags
      BY <3>1
    <3> QED
      BY <2>1, <3>2 DEF DefaultValues
  <2> QED
    BY <1>1, <2>2 DEF FlagsTyped, DefaultValues
<1>5. PackingsTyped
  <2>1. <<>> \in Seq({"k4m4", "kn4"})
    OBVIOUS
  <2> QED
    BY <1>1, <2>1 DEF PackingsTyped
<1> QED
  BY <1>2, <1>3, <1>4, <1>5 DEF PipelineInv

\* A word gives every flag it is about a truth value.
LEMMA WordFacts ==
  ASSUME FlagsTyped, ReadWord
  PROVE  FlagsTyped'
PROOF
<1>1. flags' = flags \/ flags' = ParseFlag(flags, Head(words))
  BY DEF ReadWord, Word
<1>2. ASSUME NEW names, NEW enable, enable \in BOOLEAN
      PROVE  /\ Assign(flags, names, enable) \in [names \cup DOMAIN flags -> BOOLEAN]
             /\ DOMAIN Assign(flags, names, enable) = names \cup DOMAIN flags
  BY <1>2 DEF Assign, FlagsTyped
<1>3. CASE flags' = flags
  BY <1>3 DEF FlagsTyped
<1>4. CASE flags' = ParseFlag(flags, Head(words))
  <2>1. Enables(Head(words)) \in BOOLEAN /\ TRUE \in BOOLEAN
    BY DEF Enables
  <2>2. \E names, enable : enable \in BOOLEAN /\ flags' = Assign(flags, names, enable)
    BY <1>4, <2>1 DEF ParseFlag
  <2> QED
    BY <1>2, <2>2 DEF FlagsTyped
<1> QED
  BY <1>1, <1>3, <1>4

\* Packing appends to what was done to a variable.
LEMMA PackFacts ==
  ASSUME PackingsTyped, PackVariables
  PROVE  PackingsTyped'
PROOF
<1>1. PICK i \in todo : packings' = [p \in DOMAIN packings |->
                                      packings[p] \o Applied(i, 0, p) \o Applied(i, 1, p)]
  BY DEF PackVariables
<1>2. \A side, p : Applied(i, side, p) \in Seq({"k4m4", "kn4"})
  <2>1. <<>> \in Seq({"k4m4", "kn4"})
    OBVIOUS
  <2>2. <<"k4m4">> \in Seq({"k4m4", "kn4"}) /\ <<"kn4">> \in Seq({"k4m4", "kn4"})
    OBVIOUS
  <2>3. \A side : Format(side) = "k4m4" \/ Format(side) = "kn4"
    BY DEF Format
  <2> QED
    BY <2>1, <2>2, <2>3 DEF Applied
<1>3. \A p \in DOMAIN packings : packings'[p] \in Seq({"k4m4", "kn4"})
  BY <1>1, <1>2, ConcatProperties DEF PackingsTyped
<1>4. request' = request
  BY DEF PackVariables
<1> QED
  BY <1>1, <1>3, <1>4 DEF PackingsTyped

\* A visit removes nothing the pass has still to come to: operands are visited before their
\* users, and what else may go is not visited at all.
LEMMA StepFacts == PipelineInv /\ Presumed /\ [Next]_vars => PipelineInv'
PROOF
<1> SUFFICES ASSUME PipelineInv, Presumed, [Next]_vars PROVE PipelineInv'
  OBVIOUS
<1>1. CASE NextPass
  <2>1. flags' = flags /\ packings' = packings /\ request' = request
    BY <1>1 DEF NextPass
  <2>2. FlagsTyped' /\ PackingsTyped'
    BY <2>1 DEF PipelineInv, FlagsTyped, PackingsTyped
  <2> QED
    BY <1>1, <2>2, NextPassFacts DEF PipelineInv
<1>2. CASE ReadWord
  <2>1. /\ comp' = comp /\ pass' = pass /\ todo' = todo /\ packings' = packings
        /\ request' = request
    BY <1>2 DEF ReadWord
  <2>2. Sound(comp') /\ Ahead' /\ PackingsTyped'
    BY <2>1 DEF PipelineInv, Ahead, PackingsTyped, Handled, Current
  <2> QED
    BY <1>2, <2>2, WordFacts DEF PipelineInv
<1>3. CASE Visit
  <2>1. flags' = flags /\ packings' = packings /\ request' = request
    BY <1>3 DEF Visit
  <2>2. FlagsTyped' /\ PackingsTyped'
    BY <2>1 DEF PipelineInv, FlagsTyped, PackingsTyped
  <2> QED
    BY <1>3, <2>2, VisitFacts DEF PipelineInv
<1>4. CASE PackVariables
  <2>1. comp' = comp /\ pass' = pass /\ flags' = flags
    BY <1>4 DEF PackVariables
  <2>2. todo' \subseteq todo
    BY <1>4 DEF PackVariables
  <2>3. Running
    BY <1>4 DEF PackVariables
  <2>4. Sound(comp') /\ FlagsTyped'
    BY <2>1 DEF PipelineInv, FlagsTyped
  <2>5. Ahead'
    BY <2>1, <2>2, <2>3 DEF PipelineInv, Ahead, Handled, Current, Running
  <2> QED
    BY <1>4, <2>4, <2>5, PackFacts DEF PipelineInv
<1>5. CASE UNCHANGED vars
  BY <1>5 DEF vars, PipelineInv, Ahead, FlagsTyped, PackingsTyped, Handled, Current
<1> QED
  BY <1>1, <1>2, <1>3, <1>4, <1>5 DEF Next

\* The computation is one that XLA's verifier accepts after every single rewrite of the passes
\* that cpu_compiler.patch adds: no rewriter leaves an operand behind that is not there, an
\* operation with too few operands or a cycle; and no pass comes to an instruction that a
\* rewrite of another has removed (the loop over MakeInstructionPostOrder in
\* KDnnFusionAfterHloLayoutAssign::Run and those of the other passes, which collect
\* instructions first and rewrite them then). This is for every module, flags and number of
\* instructions, as long as what the rewriters take for granted without a look (Presumed) holds
\* of what they visit.
THEOREM PipelineVerified == Spec /\ []Presumed => []Verified
PROOF
<1>1. PipelineInv => Verified
  BY SoundComputations DEF PipelineInv, Ahead, Verified
<1> QED
  BY <1>1, InitFacts, StepFacts, PTL DEF Spec

\* The state stays what it is meant to be through packing, flags and passes, under the same
\* condition: the numbers of instructions stay below the next one to be given out, the root
\* exists, no flag is lost, and the packings of a variable are those of annc-opt.
THEOREM PipelineTypeOK == Spec /\ []Presumed => []TypeOK
PROOF
<1>1. PipelineInv => TypeOK
  <2> SUFFICES ASSUME PipelineInv PROVE TypeOK
    OBVIOUS
  <2>1. Ids(comp) \subseteq 1..comp.next - 1 /\ comp.root \in Ids(comp)
    BY DEF PipelineInv, Sound, Framed
  <2> QED
    BY <2>1 DEF PipelineInv, Ahead, FlagsTyped, PackingsTyped, TypeOK
<1> QED
  BY <1>1, InitFacts, StepFacts, PTL DEF Spec
------------------------------------------------------------------------------
(* The flags. *)

\* How the loop over the words stands when it has read n of them: it goes on with the rest, or
\* has given up at the next one.
HasRead(n) ==
  /\ \A v \in 1..n : request.words[v].dashes
  /\ \/ words = SubSeq(request.words, n + 1, Len(request.words))
     \/ words = <<>> /\ n < Len(request.words) /\ ~request.words[n + 1].dashes

Says(name, word) == word.key # name \/ Enables(word)

\* The last of n words about a flag, or none, has decided its value.
DecidedBy(name, n) ==
  \/ (\A v \in 1..n : ~About(name, request.words[v])) /\ flags[name] = DefaultValues[name]
  \/ \E l \in 1..n :
       /\ About(name, request.words[l])
       /\ \A v \in l + 1..n : ~About(name, request.words[v])
       /\ flags[name] = Says(name, request.words[l])

FlagsInv ==
  /\ request.words \in Seq({request.words[i] : i \in DOMAIN request.words})
  /\ FlagNames \subseteq DOMAIN flags
  /\ \E n \in 0..Len(request.words) :
       HasRead(n) /\ \A name \in FlagNames : DecidedBy(name, n)

\* One word changes the flags it is about and no other.
LEMMA ParseFlagFacts ==
  ASSUME NEW values, NEW word, NEW name \in FlagNames, FlagNames \subseteq DOMAIN values
  PROVE  /\ FlagNames \subseteq DOMAIN ParseFlag(values, word)
         /\ About(name, word) => ParseFlag(values, word)[name] = Says(name, word)
         /\ ~About(name, word) => ParseFlag(values, word)[name] = values[name]
PROOF
<1> name \in DOMAIN values
  OBVIOUS
<1>1. DOMAIN GroupType = {"graph-opt", "gemm-opt"}
  BY DEF GroupType
<1>2. name \notin DOMAIN GroupType
  BY <1>1 DEF FlagNames, DefaultFlags, Flag
<1>3. CASE word.key \in DOMAIN GroupType
  <2>1. word.key # name /\ Says(name, word)
    BY <1>2, <1>3 DEF Says
  <2>2. About(name, word) <=> name \in GroupOf(word.key)
    BY <1>3, <2>1 DEF About
  <2>3. FlagNames \subseteq DOMAIN ParseFlag(values, word)
    BY <1>3 DEF ParseFlag, Assign
  <2>4. name \notin GroupOf(word.key) => ParseFlag(values, word)[name] = values[name]
    BY <1>3 DEF ParseFlag, Assign
  <2>5. name \in GroupOf(word.key) => ParseFlag(values, word)[name] = TRUE
    BY <1>3 DEF ParseFlag, Assign
  <2>6. Says(name, word) = TRUE
    BY <2>1 DEF Says
  <2> QED
    BY <2>2, <2>3, <2>4, <2>5, <2>6
<1>4. CASE word.key \notin DOMAIN GroupType
  <2>1. About(name, word) <=> name = word.key
    BY <1>4 DEF About
  <2>2. FlagNames \subseteq DOMAIN ParseFlag(values, word)
    BY <1>4 DEF ParseFlag, Assign
  <2>3. name # word.key => ParseFlag(values, word)[name] = values[name]
    BY <1>4 DEF ParseFlag, Assign
  <2>4. name = word.key => ParseFlag(values, word)[name] = Enables(word)
    BY <1>4 DEF ParseFlag, Assign
  <2>5. name = word.key => Says(name, word) = Enables(word)
    BY DEF Says, Enables
  <2> QED
    BY <2>1, <2>2, <2>3, <2>4, <2>5
<1> QED
  BY <1>3, <1>4

\* The next word of a text, when there is one.
LEMMA NextWord ==
  ASSUME NEW S, NEW text \in Seq(S), NEW n \in 0..Len(text),
         SubSeq(text, n + 1, Len(text)) # <<>>
  PROVE  /\ n + 1 \in 1..Len(text)
         /\ Head(SubSeq(text, n + 1, Len(text))) = text[n + 1]
         /\ Tail(SubSeq(text, n + 1, Len(text))) = SubSeq(text, n + 2, Len(text))
PROOF
<1>1. Len(text) \in Nat /\ n \in Nat
  BY LenProperties
<1>2. n < Len(text)
  <2> SUFFICES ASSUME n = Len(text) PROVE FALSE
    BY <1>1
  <2>1. SubSeq(text, n + 1, Len(text)) = <<>>
    BY <1>1
  <2> QED
    BY <2>1
<1> QED
  BY <1>1, <1>2, HeadTailOfSubSeq

\* There is none when all words have been read.
LEMMA NoMoreWords ==
  ASSUME NEW S, NEW text \in Seq(S), NEW n \in 0..Len(text),
         SubSeq(text, n + 1, Len(text)) = <<>>
  PROVE  n = Len(text)
PROOF
<1>1. Len(text) \in Nat /\ n \in Nat
  BY LenProperties
<1>2. \A i \in n + 1..Len(text) : text[i] \in S
  BY <1>1, ElementOfSeq
<1>3. Len(SubSeq(text, n + 1, Len(text))) =
        IF n + 1 <= Len(text) THEN Len(text) - (n + 1) + 1 ELSE 0
  BY <1>1, <1>2, SubSeqProperties
<1>4. Len(SubSeq(text, n + 1, Len(text))) = 0
  BY EmptySeq
<1> QED
  BY <1>1, <1>3, <1>4

\* The loop starts with nothing read.
LEMMA FlagsInit == Init => FlagsInv
PROOF
<1> SUFFICES ASSUME Init PROVE FlagsInv
  OBVIOUS
<1>1. /\ request \in Compilations /\ words = request.words /\ flags = DefaultValues
  BY DEF Init
<1>2. request.words \in Seq({request.words[i] : i \in DOMAIN request.words})
  BY <1>1, CompilationsAssumption
<1>3. FlagNames \subseteq DOMAIN flags
  BY <1>1 DEF DefaultValues
<1>4. Len(request.words) \in Nat
  BY <1>2, LenProperties
<1>5. HasRead(0)
  <2>1. words = SubSeq(request.words, 0 + 1, Len(request.words))
    BY <1>1, <1>2, <1>4
  <2> QED
    BY <2>1 DEF HasRead
<1>6. \A name \in FlagNames : DecidedBy(name, 0)
  BY <1>1 DEF DecidedBy
<1>7. 0 \in 0..Len(request.words)
  BY <1>4
<1> QED
  BY <1>2, <1>3, <1>5, <1>6, <1>7 DEF FlagsInv

\* One turn of the loop.
LEMMA FlagsWord == FlagsInv /\ ReadWord => FlagsInv'
PROOF
<1> SUFFICES ASSUME FlagsInv, ReadWord PROVE FlagsInv'
  OBVIOUS
<1> DEFINE text == request.words
           S == {text[i] : i \in DOMAIN text}
<1>1. text \in Seq(S) /\ Len(text) \in Nat /\ FlagNames \subseteq DOMAIN flags
  BY LenProperties DEF FlagsInv
<1>2. PICK n \in 0..Len(text) : HasRead(n) /\ \A name \in FlagNames : DecidedBy(name, n)
  BY DEF FlagsInv
<1>3. request' = request /\ words # <<>>
  BY DEF ReadWord
<1>4. words = SubSeq(text, n + 1, Len(text)) /\ \A v \in 1..n : text[v].dashes
  BY <1>2, <1>3 DEF HasRead
<1> HIDE DEF S
<1>5. /\ n + 1 \in 1..Len(text) /\ n \in Nat
      /\ Head(words) = text[n + 1] /\ Tail(words) = SubSeq(text, n + 2, Len(text))
  BY <1>1, <1>3, <1>4, NextWord
<1>6. CASE ~text[n + 1].dashes
  <2>1. words' = <<>> /\ flags' = flags
    BY <1>5, <1>6 DEF ReadWord, Word
  <2>2. HasRead(n)'
    BY <1>1, <1>3, <1>4, <1>5, <1>6, <2>1 DEF HasRead
  <2>3. \A name \in FlagNames : DecidedBy(name, n)'
    BY <1>2, <1>3, <2>1 DEF DecidedBy
  <2> QED
    BY <1>1, <1>2, <1>3, <2>1, <2>2, <2>3 DEF FlagsInv, S
<1>7. CASE text[n + 1].dashes
  <2> DEFINE word == text[n + 1]
  <2>1. words' = Tail(words) /\ flags' = ParseFlag(flags, word)
    BY <1>5, <1>7 DEF ReadWord, Word
  <2>2. HasRead(n + 1)'
    <3>1. \A v \in 1..n + 1 : text[v].dashes
      BY <1>4, <1>5, <1>7
    <3>2. words' = SubSeq(text, n + 1 + 1, Len(text))
      BY <1>5, <2>1
    <3> QED
      BY <1>3, <3>1, <3>2 DEF HasRead
  <2> HIDE DEF word
  <2>3. FlagNames \subseteq DOMAIN flags'
    <3>1. "matmul" \in FlagNames
      BY DEF FlagNames, DefaultFlags, Flag
    <3> QED
      BY <1>1, <2>1, <3>1, ParseFlagFacts
  <2>4. ASSUME NEW name \in FlagNames
        PROVE  DecidedBy(name, n + 1)'
    <3>1. /\ About(name, word) => flags'[name] = Says(name, word)
          /\ ~About(name, word) => flags'[name] = flags[name]
      BY <1>1, <2>1, ParseFlagFacts
    <3>2. CASE About(name, word)
      <4>1. n + 1 \in 1..n + 1 /\ \A v \in n + 1 + 1..n + 1 : FALSE
        BY <1>5
      <4> QED
        BY <1>3, <3>1, <3>2, <4>1 DEF DecidedBy, word
    <3>3. CASE ~About(name, word)
      <4>1. DecidedBy(name, n)
        BY <1>2
      <4>2. \A v \in 1..n + 1 : v \in 1..n \/ v = n + 1
        BY <1>5
      <4>3. \A l \in 1..n : l \in 1..n + 1 /\ \A v \in l + 1..n + 1 : v \in l + 1..n \/ v = n + 1
        BY <1>5
      <4>4. CASE (\A v \in 1..n : ~About(name, text[v])) /\ flags[name] = DefaultValues[name]
        BY <1>3, <3>1, <3>3, <4>2, <4>4 DEF DecidedBy, word
      <4>5. CASE \E l \in 1..n : /\ About(name, text[l])
                                 /\ \A v \in l + 1..n : ~About(name, text[v])
                                 /\ flags[name] = Says(name, text[l])
        BY <1>3, <3>1, <3>3, <4>3, <4>5 DEF DecidedBy, word
      <4> QED
        BY <4>1, <4>4, <4>5 DEF DecidedBy
    <3> QED
      BY <3>2, <3>3
  <2> QED
    BY <1>1, <1>3, <1>5, <2>2, <2>3, <2>4 DEF FlagsInv, S
<1> QED
  BY <1>6, <1>7

\* Nothing else touches the flags.
LEMMA FlagsStep == FlagsInv /\ [Next]_vars => FlagsInv'
PROOF
<1> SUFFICES ASSUME FlagsInv, [Next]_vars PROVE FlagsInv'
  OBVIOUS
<1>1. CASE ReadWord
  BY <1>1, FlagsWord
<1>2. CASE request' = request /\ words' = words /\ flags' = flags
  BY <1>2 DEF FlagsInv, HasRead, DecidedBy
<1>3. ~ReadWord => request' = request /\ words' = words /\ flags' = flags
  BY DEF Next, NextPass, Visit, PackVariables, vars
<1> QED
  BY <1>1, <1>2, <1>3

\* Whatever ANNC_FLAGS says and however long it is: once it has been read, a flag has the value
\* that the last word about it gives it, of those before the first word without dashes, or its
\* default when there is none.
THEOREM PipelineFlagsByText == Spec => []FlagsByText
PROOF
<1>1. FlagsInv => FlagsByText
  <2> SUFFICES ASSUME FlagsInv, words = <<>>, NEW name \in FlagNames
               PROVE  LET text == request.words
                          read == {w \in DOMAIN text : \A v \in 1..w : text[v].dashes}
                          about == {w \in read : About(name, text[w])}
                          last == CHOOSE w \in about : \A v \in about : v <= w
                      IN  IF about = {} THEN flags[name] = DefaultValues[name]
                          ELSE flags[name] = (text[last].key # name
                                                \/ text[last].value \in {"true", "1", ""})
    BY DEF FlagsByText
  <2> DEFINE text == request.words
             read == {w \in DOMAIN text : \A v \in 1..w : text[v].dashes}
             about == {w \in read : About(name, text[w])}
             last == CHOOSE w \in about : \A v \in about : v <= w
  <2>1. Len(text) \in Nat /\ DOMAIN text = 1..Len(text)
    BY LenProperties DEF FlagsInv
  <2>2. PICK n \in 0..Len(text) : HasRead(n) /\ DecidedBy(name, n)
    BY DEF FlagsInv
  <2>3. read = 1..n
    <3>1. CASE words = SubSeq(text, n + 1, Len(text))
      <4>1. n = Len(text)
        BY <3>1, NoMoreWords DEF FlagsInv
      <4> QED
        BY <2>1, <2>2, <4>1 DEF HasRead
    <3>2. CASE n < Len(text) /\ ~text[n + 1].dashes
      <4>1. \A w \in DOMAIN text : w > n => n + 1 \in 1..w
        BY <2>1
      <4> QED
        BY <2>1, <2>2, <3>2, <4>1 DEF HasRead
    <3> QED
      BY <2>2, <3>1, <3>2 DEF HasRead
  <2>4. about = {w \in 1..n : About(name, text[w])}
    BY <2>3
  <2> HIDE DEF read, about
  <2>5. CASE \A v \in 1..n : ~About(name, text[v])
    <3>1. about = {}
      BY <2>4, <2>5
    <3>2. flags[name] = DefaultValues[name]
      BY <2>2, <2>5 DEF DecidedBy
    <3> QED
      BY <3>1, <3>2 DEF about, read
  <2>6. ASSUME NEW l \in 1..n, About(name, text[l]), \A v \in l + 1..n : ~About(name, text[v]),
               flags[name] = Says(name, text[l])
        PROVE  IF about = {} THEN flags[name] = DefaultValues[name]
               ELSE flags[name] = (text[last].key # name
                                     \/ text[last].value \in {"true", "1", ""})
    <3>1. l \in about
      BY <2>4, <2>6
    <3>2. \A v \in about : v <= l
      <4> SUFFICES ASSUME NEW v \in about, v > l PROVE FALSE
        BY <2>4
      <4>1. v \in l + 1..n
        BY <2>4
      <4> QED
        BY <2>4, <2>6, <4>1
    <3>3. last \in about /\ \A v \in about : v <= last
      BY <3>1, <3>2
    <3>4. last = l
      BY <2>4, <3>1, <3>2, <3>3
    <3> HIDE DEF last
    <3>5. Says(name, text[l]) = (text[l].key # name \/ text[l].value \in {"true", "1", ""})
      BY DEF Says, Enables
    <3> QED
      BY <2>6, <3>1, <3>4, <3>5
  <2> QED
    BY <2>2, <2>5, <2>6 DEF DecidedBy, about, read, last
<1> QED
  BY <1>1, FlagsInit, FlagsStep, PTL DEF Spec
=============================================================================
