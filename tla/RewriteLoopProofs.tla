-------------------------- MODULE RewriteLoopProofs --------------------------
(***************************************************************************)
(* The loop of GraphOptimizer::optimize, for every graph and every choice  *)
(* the rewriters may make.  The inductive invariant is Inv: the index map  *)
(* is right about what it holds and covers the scan (so that a lookup      *)
(* leads to the visited node or behind it), and ScanOrder says where each  *)
(* node of a fresh graph is.                                               *)
(***************************************************************************)
EXTENDS RewriteLoop, SequenceTheorems, FiniteSetTheorems, TLAPS

\* Of Recursion only what it says of positions is needed: its step is of no importance.
Positions == INSTANCE Recursion WITH Step <- SwapElements

------------------------------------------------------------------------------
(* The operators of NodeGraph the loop is built from. *)

\* The map update_node_indexes fills: the last position of every name of the graph.
LEMMA ReindexedNames ==
  ASSUME NEW S, NEW s \in Seq(S), NEW ix
  PROVE  LET named == {s[i] : i \in 1..Len(s)}
             new == Reindexed(s, ix)
         IN  /\ DOMAIN new = DOMAIN ix \cup named
             /\ \A n \in named : new[n] \in 1..Len(s) /\ s[new[n]] = n
             /\ \A i \in 1..Len(s) : i <= new[s[i]]
PROOF
<1> DEFINE named == {s[i] : i \in 1..Len(s)}
           new == Reindexed(s, ix)
           Hits(n) == {i \in 1..Len(s) : s[i] = n}
           Last(n) == CHOOSE i \in Hits(n) : \A j \in Hits(n) : j <= i
<1>1. Len(s) \in Nat
  BY LenProperties
<1>2. new = [n \in DOMAIN ix \cup named |-> IF n \in named THEN Last(n) ELSE ix[n]]
  BY DEF Reindexed
<1>3. ASSUME NEW n \in named
      PROVE  Last(n) \in Hits(n) /\ \A j \in Hits(n) : j <= Last(n)
  <2>1. Hits(n) # {} /\ Hits(n) \in SUBSET (1..Len(s))
    OBVIOUS
  <2>2. \E i \in Hits(n) : \A j \in Hits(n) : j <= i
    <3> HIDE DEF Hits
    <3> QED
      BY <1>1, <2>1, Positions!LastExists
  <2> HIDE DEF Hits
  <2> QED
    BY <2>2
<1>4. \A n \in named : new[n] = Last(n)
  <2> HIDE DEF Last, named, new
  <2> QED
    BY <1>2
<1>5. DOMAIN new = DOMAIN ix \cup named
  <2> HIDE DEF Last, named, new
  <2> QED
    BY <1>2
<1>6. \A n \in named : new[n] \in 1..Len(s) /\ s[new[n]] = n
  <2> HIDE DEF Last, new
  <2> QED
    BY <1>3, <1>4
<1>7. \A i \in 1..Len(s) : i <= new[s[i]]
  <2> TAKE i \in 1..Len(s)
  <2>1. s[i] \in named /\ i \in Hits(s[i])
    OBVIOUS
  <2> HIDE DEF Last, new, named, Hits
  <2> QED
    BY <2>1, <1>3, <1>4
<1> QED
  BY <1>5, <1>6, <1>7

\* Add() and SwapElements: the new element takes the place of another, which goes to the end.
LEMMA AppendAndSwap ==
  ASSUME NEW S, NEW s \in Seq(S), NEW e \in S, NEW p \in 1..Len(s)
  PROVE  LET t == SwapElements(Append(s, e), p, Len(Append(s, e)))
         IN  /\ t \in Seq(S) /\ Len(t) = Len(s) + 1
             /\ t[p] = e /\ t[Len(s) + 1] = s[p]
             /\ \A k \in 1..Len(s) : k # p => t[k] = s[k]
PROOF
<1> DEFINE a == Append(s, e)
           n == Len(s) + 1
           b == [a EXCEPT ![p] = a[n]]
           t == [b EXCEPT ![n] = a[p]]
<1>1. Len(s) \in Nat /\ p \in 1..n /\ n \in 1..n /\ p # n /\ s[p] \in S
  BY LenProperties, ElementOfSeq
<1>2. /\ a \in Seq(S) /\ Len(a) = n /\ a[n] = e /\ a[p] = s[p]
      /\ \A k \in 1..Len(s) : a[k] = s[k]
  BY AppendProperties
<1> HIDE DEF a
<1>3. /\ b \in Seq(S) /\ Len(b) = n
      /\ \A k \in 1..n : b[k] = IF k = p THEN e ELSE a[k]
  BY <1>1, <1>2, ExceptSeq
<1> HIDE DEF b
<1>4. /\ t \in Seq(S) /\ Len(t) = n
      /\ \A k \in 1..n : t[k] = IF k = n THEN s[p] ELSE b[k]
  BY <1>1, <1>2, <1>3, ExceptSeq
<1>5. SwapElements(a, p, Len(a)) = t
  BY <1>2 DEF SwapElements, b
<1> HIDE DEF t
<1> QED
  BY <1>1, <1>2, <1>3, <1>4, <1>5 DEF a

\* The name of a fused node is a name, and tells which node was fused.
LEMMA FusedNames ==
  ASSUME NEW m \in Name, NEW n \in Name
  PROVE  FusedName(m) \in Name /\ (FusedName(m) = FusedName(n) => m = n)
PROOF
  BY AppendProperties, AppendInjective DEF FusedName, Name

------------------------------------------------------------------------------
(* The loop. *)

Inv ==
  /\ LoopTypeOK /\ IndexSound /\ IndexCoversScan
  /\ NodesKept /\ ScanOrder /\ UniqueNames

\* ReindexedNames, position by position.
LEMMA IndexFacts ==
  ASSUME NEW s \in Seq(Name), NEW ix, NEW new, new = Reindexed(s, ix)
  PROVE  /\ \A x \in DOMAIN new : x \in DOMAIN ix \/ \E i \in 1..Len(s) : s[i] = x
         /\ \A i \in 1..Len(s) : /\ s[i] \in DOMAIN new
                                /\ new[s[i]] \in 1..Len(s) /\ s[new[s[i]]] = s[i]
                                /\ i <= new[s[i]]
         /\ DOMAIN ix \subseteq DOMAIN new
PROOF
<1> DEFINE in == {s[i] : i \in 1..Len(s)}
<1>1. /\ DOMAIN new = DOMAIN ix \cup in
      /\ \A x \in in : new[x] \in 1..Len(s) /\ s[new[x]] = x
      /\ \A i \in 1..Len(s) : i <= new[s[i]]
  <2> DEFINE r == Reindexed(s, ix)
  <2>1. /\ DOMAIN r = DOMAIN ix \cup in
        /\ \A x \in in : r[x] \in 1..Len(s) /\ s[r[x]] = x
        /\ \A i \in 1..Len(s) : i <= r[s[i]]
    BY ReindexedNames, Zenon
  <2> HIDE DEF r, in
  <2> QED
    BY <2>1 DEF r
<1>2. \A i \in 1..Len(s) : s[i] \in in
  OBVIOUS
<1>3. \A x \in in : \E i \in 1..Len(s) : s[i] = x
  OBVIOUS
<1> HIDE DEF in
<1> QED
  BY <1>1, <1>2, <1>3

\* Before the first pass nothing is indexed and the loop is not running.
LEMMA InitInv == LoopInit => Inv
PROOF
<1> SUFFICES ASSUME LoopInit
             PROVE  Inv
  OBVIOUS
<1>1. LoopTypeOK
  <2>1. <<>> \in Seq(Name)
    BY EmptySeq
  <2>2. on \in BOOLEAN
    BY DEF LoopInit
  <2> QED
    BY <2>1, <2>2 DEF LoopInit, LoopTypeOK
<1> QED
  BY <1>1 DEF LoopInit, Inv, IndexSound, IndexCoversScan, NodesKept, ScanOrder, UniqueNames

\* The graph may be replaced while the loop is not running.
LEMMA HandOverInv == Inv /\ HandOver => Inv'
PROOF
<1> SUFFICES ASSUME Inv, HandOver
             PROVE  Inv'
  OBVIOUS
<1>1. LoopTypeOK'
  BY DEF Inv, HandOver, LoopTypeOK
<1>2. on' = FALSE
  BY DEF Inv, HandOver, LoopTypeOK
<1> QED
  BY <1>1, <1>2 DEF Inv, IndexSound, IndexCoversScan, NodesKept, ScanOrder, UniqueNames

\* optimize() starts with an index that covers the whole graph.
LEMMA BeginInv == Inv /\ Begin => Inv'
PROOF
<1> SUFFICES ASSUME Inv, Begin
             PROVE  Inv'
  OBVIOUS
<1>1. /\ names \in Seq(Name) /\ Len(names) \in Nat /\ DOMAIN names = 1..Len(names)
      /\ \A i \in 1..Len(names) : names[i] \in Name
  BY LenProperties, ElementOfSeq DEF Inv, LoopTypeOK
<1>2. /\ on' = TRUE /\ names' = names /\ start' = names /\ at' = 1
      /\ size' = Len(names) /\ spare' = {} /\ index' = Reindexed(names, <<>>)
  BY DEF Begin
<1>3. /\ DOMAIN index' = {names[i] : i \in 1..Len(names)}
      /\ \A i \in 1..Len(names) : i <= index'[names[i]]
      /\ \A n \in DOMAIN index' : index'[n] \in 1..Len(names) /\ names[index'[n]] = n
  <2> DEFINE new == Reindexed(names, <<>>)
  <2>1. DOMAIN <<>> = {}
    <3>1. <<>> \in Seq(Name) /\ Len(<<>>) = 0
      BY EmptySeq
    <3>2. DOMAIN <<>> = 1..0
      BY <3>1, LenProperties
    <3> QED
      BY <3>2
  <2>2. /\ DOMAIN new = DOMAIN <<>> \cup {names[i] : i \in 1..Len(names)}
        /\ \A n \in {names[i] : i \in 1..Len(names)} :
             new[n] \in 1..Len(names) /\ names[new[n]] = n
        /\ \A i \in 1..Len(names) : i <= new[names[i]]
    BY <1>1, ReindexedNames
  <2>3. DOMAIN new = {names[i] : i \in 1..Len(names)}
    BY <2>1, <2>2
  <2> HIDE DEF new
  <2> QED
    BY <2>2, <2>3, <1>2 DEF new
<1>4. LoopTypeOK'
  BY <1>1, <1>2 DEF LoopTypeOK
<1>5. IndexSound'
  BY <1>2, <1>3 DEF IndexSound
<1>6. IndexCoversScan'
  BY <1>1, <1>2, <1>3 DEF IndexCoversScan
<1>7. NodesKept'
  BY <1>2 DEF NodesKept, NamesIn
<1>8. ScanOrder'
  BY <1>1, <1>2 DEF ScanOrder
<1>9. UniqueNames'
  BY <1>2 DEF UniqueNames, Fresh
<1> QED
  BY <1>4, <1>5, <1>6, <1>7, <1>8, <1>9 DEF Inv

\* A node appended behind the back of the index leaves the index right and the scan covered;
\* its name is that of the fused node of the node visited.
LEMMA AbandonInv == Inv /\ Abandon => Inv'
PROOF
<1> SUFFICES ASSUME Inv, Abandon
             PROVE  Inv'
  OBVIOUS
<1> DEFINE e == FusedName(names[at])
           n == Len(names)
<1>1. /\ names \in Seq(Name) /\ n \in Nat /\ DOMAIN names = 1..n
      /\ \A i \in 1..n : names[i] \in Name
      /\ size \in Nat /\ at \in 1..size /\ size <= n /\ names[at] \in Name
      /\ start \in Seq(Name) /\ DOMAIN start = 1..Len(start) /\ on
      /\ \A i \in 1..Len(start) : start[i] \in Name
  BY LenProperties, ElementOfSeq DEF Inv, LoopTypeOK, IndexCoversScan, Abandon
<1>2. e \in Name
  BY <1>1, FusedNames
<1>3. /\ on' /\ index' = index /\ at' = at /\ size' = size /\ start' = start
      /\ spare' = spare \cup {names[at]} /\ names' = Append(names, e)
  BY <1>1 DEF Abandon
<1>4. /\ names' \in Seq(Name) /\ Len(names') = n + 1 /\ DOMAIN names' = 1..n + 1
      /\ names'[n + 1] = e
      /\ \A i \in 1..n : names'[i] = names[i]
  BY <1>1, <1>2, <1>3, AppendProperties, LenProperties
<1> HIDE DEF e, n
<1>5. LoopTypeOK'
  BY <1>1, <1>3, <1>4 DEF Inv, LoopTypeOK
<1>6. IndexSound'
  BY <1>1, <1>3, <1>4 DEF Inv, IndexSound, n
<1>7. IndexCoversScan'
  BY <1>1, <1>3, <1>4 DEF Inv, IndexCoversScan, n
<1>8. NodesKept'
  <2>1. NamesIn(names) \subseteq NamesIn(names')
    BY <1>1, <1>4 DEF NamesIn
  <2> QED
    BY <1>1, <1>3, <2>1 DEF Inv, NodesKept, NamesIn
<1>9. ScanOrder'
  <2> SUFFICES ASSUME Fresh(start)
               PROVE  ScanOrder'
    BY <1>3 DEF ScanOrder
  <2>1. /\ size = Len(start)
        /\ \A i \in 1..size : i >= at => names[i] = start[i]
        /\ \A i \in 1..size : names[i] \in {start[i], FusedName(start[i])}
        /\ \A k \in size + 1..n : \E i \in 1..size :
             \/ i < at /\ names[k] = start[i]
             \/ start[i] \in spare /\ names[k] = FusedName(start[i])
    BY <1>1 DEF Inv, ScanOrder, n
  <2>2. \A i \in 1..size : names'[i] = names[i]
    BY <1>1, <1>4
  <2>3. start[at] \in spare' /\ names'[n + 1] = FusedName(start[at])
    BY <1>1, <1>3, <1>4, <2>1 DEF e
  <2>4. \A k \in size + 1..n + 1 : \E i \in 1..size :
          \/ i < at /\ names'[k] = start[i]
          \/ start[i] \in spare' /\ names'[k] = FusedName(start[i])
    <3> TAKE k \in size + 1..n + 1
    <3>1. CASE k = n + 1
      BY <1>1, <2>3, <3>1
    <3>2. CASE k # n + 1
      <4>1. k \in size + 1..n /\ k \in 1..n
        BY <1>1, <3>2
      <4>2. PICK i \in 1..size : \/ i < at /\ names[k] = start[i]
                                 \/ start[i] \in spare /\ names[k] = FusedName(start[i])
        BY <2>1, <4>1
      <4>3. names'[k] = names[k] /\ spare \subseteq spare'
        BY <1>3, <1>4, <4>1
      <4> QED
        BY <4>2, <4>3
    <3> QED
      BY <3>1, <3>2
  <2>5. \A k \in size' + 1..Len(names') : \E i \in 1..size' :
          \/ i < at' /\ names'[k] = start'[i]
          \/ start'[i] \in spare' /\ names'[k] = FusedName(start'[i])
    BY <1>3, <1>4, <2>4
  <2>6. /\ size' = Len(start')
        /\ \A i \in 1..size' : i >= at' => names'[i] = start'[i]
        /\ \A i \in 1..size' : names'[i] \in {start'[i], FusedName(start'[i])}
    BY <1>3, <2>1, <2>2
  <2> QED
    BY <2>5, <2>6 DEF ScanOrder
<1>10. UniqueNames'
  <2> SUFFICES ASSUME Fresh(start), NEW i \in 1..n + 1, NEW j \in 1..n + 1,
                      names'[i] = names'[j], i # j
               PROVE  \E m \in spare' : names'[i] = FusedName(m)
    BY <1>3, <1>4 DEF UniqueNames
  <2>1. CASE i = n + 1 \/ j = n + 1
    BY <1>3, <1>4, <2>1 DEF e
  <2>2. CASE i \in 1..n /\ j \in 1..n
    BY <1>1, <1>3, <1>4, <2>2 DEF Inv, UniqueNames
  <2> QED
    BY <1>1, <2>1, <2>2
<1> QED
  BY <1>5, <1>6, <1>7, <1>8, <1>9, <1>10 DEF Inv

\* Moving on without a match.
LEMMA AdvanceInv == Inv /\ Advance => Inv'
PROOF
<1> SUFFICES ASSUME Inv, Advance
             PROVE  Inv'
  OBVIOUS
<1>1. /\ at \in Nat \ {0} /\ size \in Nat /\ at <= size /\ at' = at + 1 /\ on
      /\ names' = names /\ index' = index /\ size' = size /\ on' = on
      /\ start' = start /\ spare' = spare
  BY DEF Inv, LoopTypeOK, Advance
<1>2. LoopTypeOK'
  BY <1>1 DEF Inv, LoopTypeOK
<1>3. IndexSound' /\ IndexCoversScan' /\ NodesKept'
  BY <1>1 DEF Inv, IndexSound, IndexCoversScan, NodesKept, NamesIn
<1>4. UniqueNames'
  BY <1>1 DEF Inv, UniqueNames, Fresh
<1>5. ScanOrder'
  <2> SUFFICES ASSUME Fresh(start)
               PROVE  ScanOrder'
    BY <1>1 DEF ScanOrder
  <2>1. /\ size = Len(start)
        /\ \A i \in 1..size : i >= at => names[i] = start[i]
        /\ \A i \in 1..size : names[i] \in {start[i], FusedName(start[i])}
        /\ \A k \in size + 1..Len(names) : \E i \in 1..size :
             \/ i < at /\ names[k] = start[i]
             \/ start[i] \in spare /\ names[k] = FusedName(start[i])
    BY <1>1 DEF Inv, ScanOrder
  <2>2. \A i \in 1..size : i >= at' => i >= at
    BY <1>1
  <2>3. \A i \in 1..size : i < at => i < at'
    BY <1>1
  <2>4. \A k \in size' + 1..Len(names') : \E i \in 1..size' :
          \/ i < at' /\ names'[k] = start'[i]
          \/ start'[i] \in spare' /\ names'[k] = FusedName(start'[i])
    BY <1>1, <2>1, <2>3
  <2>5. /\ size' = Len(start')
        /\ \A i \in 1..size' : i >= at' => names'[i] = start'[i]
        /\ \A i \in 1..size' : names'[i] \in {start'[i], FusedName(start'[i])}
    BY <1>1, <2>1, <2>2
  <2> QED
    BY <2>4, <2>5 DEF ScanOrder
<1> QED
  BY <1>2, <1>3, <1>4, <1>5 DEF Inv

\* optimize() returns.
LEMMA EndInv == Inv /\ End => Inv'
PROOF
<1> SUFFICES ASSUME Inv, End
             PROVE  Inv'
  OBVIOUS
<1>1. LoopTypeOK'
  BY DEF Inv, End, LoopTypeOK
<1>2. on' = FALSE
  BY DEF End
<1> QED
  BY <1>1, <1>2 DEF Inv, IndexSound, IndexCoversScan, NodesKept, ScanOrder, UniqueNames

\* A step of the optimizer the loop does not see.
LEMMA StutterInv == Inv /\ UNCHANGED loopVars => Inv'
PROOF
<1> SUFFICES ASSUME Inv, UNCHANGED loopVars
             PROVE  Inv'
  OBVIOUS
<1>1. /\ names' = names /\ index' = index /\ at' = at /\ size' = size /\ on' = on
      /\ start' = start /\ spare' = spare
  BY DEF loopVars
<1>2. LoopTypeOK'
  BY <1>1 DEF Inv, LoopTypeOK
<1>3. IndexSound' /\ IndexCoversScan' /\ NodesKept'
  BY <1>1 DEF Inv, IndexSound, IndexCoversScan, NodesKept, NamesIn
<1>4. UniqueNames'
  BY <1>1 DEF Inv, UniqueNames, Fresh
<1>5. ScanOrder'
  BY <1>1 DEF Inv, ScanOrder, Fresh
<1> QED
  BY <1>2, <1>3, <1>4, <1>5 DEF Inv

\* What a match does, position by position: the node's index leads to a node of that name, at
\* or behind the scan; the fused node is put there, and the loop resumes behind it.
LEMMA ReplaceStep ==
  ASSUME Inv, Replace
  PROVE  LET m == names[at]
             n == Len(names)
             p == index[m]
             q == index'[FusedName(m)]
         IN  /\ n \in Nat /\ at \in 1..size /\ size \in Nat /\ size <= n
             /\ m \in Name /\ p \in at..n /\ names[p] = m
             /\ names' \in Seq(Name) /\ Len(names') = n + 1
             /\ names'[p] = FusedName(m) /\ names'[n + 1] = m
             /\ \A k \in 1..n : k # p => names'[k] = names[k]
             /\ q \in 1..n + 1 /\ names'[q] = FusedName(m) /\ p <= q /\ at' = q + 1
             /\ index' = Reindexed(names', index)
PROOF
<1> DEFINE m == names[at]
           n == Len(names)
           p == index[m]
           e == FusedName(m)
           q == index'[e]
<1>1. /\ names \in Seq(Name) /\ n \in Nat /\ size \in Nat /\ at \in 1..size /\ size <= n
      /\ at \in 1..n /\ m \in Name /\ on
  BY LenProperties, ElementOfSeq DEF Inv, LoopTypeOK, IndexCoversScan, Replace
<1>2. m \in DOMAIN index /\ at <= p
  BY <1>1 DEF Inv, IndexCoversScan
<1>3. p \in 1..n /\ names[p] = m
  BY <1>1, <1>2 DEF Inv, IndexSound
<1>4. e \in Name
  BY <1>1, FusedNames
<1>5. /\ names' = SwapElements(Append(names, e), p, Len(Append(names, e)))
      /\ index' = Reindexed(names', index) /\ at' = q + 1
  BY DEF Replace
<1> HIDE DEF e, p, m
<1>6. /\ names' \in Seq(Name) /\ Len(names') = n + 1
      /\ names'[p] = e /\ names'[n + 1] = names[p]
      /\ \A k \in 1..n : k # p => names'[k] = names[k]
  <2> DEFINE t == SwapElements(Append(names, e), p, Len(Append(names, e)))
  <2>1. p \in 1..Len(names)
    BY <1>3
  <2>2. /\ t \in Seq(Name) /\ Len(t) = Len(names) + 1
        /\ t[p] = e /\ t[Len(names) + 1] = names[p]
        /\ \A k \in 1..Len(names) : k # p => t[k] = names[k]
    BY <1>1, <1>4, <2>1, AppendAndSwap
  <2>3. names' = t
    BY <1>5
  <2> HIDE DEF t
  <2> QED
    BY <2>2, <2>3
<1>7. \A i \in 1..Len(names') :
        /\ index'[names'[i]] \in 1..Len(names') /\ names'[index'[names'[i]]] = names'[i]
        /\ i <= index'[names'[i]]
  BY <1>5, <1>6, IndexFacts
<1>8. p \in 1..Len(names')
  BY <1>1, <1>3, <1>6
<1>9. q \in 1..Len(names') /\ names'[q] = e /\ p <= q
  BY <1>6, <1>7, <1>8
<1>10. p \in at..n
  BY <1>1, <1>2, <1>3
<1> QED
  BY <1>1, <1>3, <1>5, <1>6, <1>9, <1>10 DEF e, p, m

\* On a fresh graph the index leads to the visited position itself, which is as it was.
LEMMA VisitedAtIndex ==
  ASSUME Inv, Replace, Fresh(start)
  PROVE  /\ size = Len(start) /\ index[names[at]] = at /\ names[at] = start[at]
         /\ \A i \in 1..size : i >= at => names[i] = start[i]
         /\ \A i \in 1..size : names[i] \in {start[i], FusedName(start[i])}
         /\ \A k \in size + 1..Len(names) : \E i \in 1..size :
              \/ i < at /\ names[k] = start[i]
              \/ start[i] \in spare /\ names[k] = FusedName(start[i])
PROOF
<1> DEFINE m == names[at]
           n == Len(names)
           p == index[m]
<1>1. /\ n \in Nat /\ at \in 1..size /\ size \in Nat /\ size <= n
      /\ p \in at..n /\ names[p] = m
  BY ReplaceStep
<1>2. on /\ start \in Seq(Name) /\ DOMAIN start = 1..Len(start) /\ Len(start) \in Nat
  BY LenProperties DEF Inv, LoopTypeOK, Replace
<1> HIDE DEF n, m, p
<1>3. /\ size = Len(start)
      /\ \A i \in 1..size : i >= at => names[i] = start[i]
      /\ \A i \in 1..size : names[i] \in {start[i], FusedName(start[i])}
      /\ \A k \in size + 1..n : \E i \in 1..size :
           \/ i < at /\ names[k] = start[i]
           \/ start[i] \in spare /\ names[k] = FusedName(start[i])
  BY <1>2 DEF Inv, ScanOrder, n
<1>4. m = start[at]
  BY <1>1, <1>3 DEF m
<1>5. p <= size
  <2> SUFFICES ASSUME p \in size + 1..n
               PROVE  FALSE
    BY <1>1
  <2>1. PICK i \in 1..size : \/ i < at /\ names[p] = start[i]
                             \/ start[i] \in spare /\ names[p] = FusedName(start[i])
    BY <1>3
  <2>2. names[p] = start[at] /\ i \in DOMAIN start /\ at \in DOMAIN start
    BY <1>1, <1>2, <1>3, <1>4
  <2> QED
    BY <1>1, <2>1, <2>2 DEF Fresh
<1>6. p = at
  <2>1. names[p] = start[p] /\ p \in DOMAIN start /\ at \in DOMAIN start
    BY <1>1, <1>2, <1>3, <1>5
  <2> QED
    BY <1>1, <1>4, <2>1 DEF Fresh
<1> QED
  BY <1>3, <1>4, <1>6 DEF n, m, p

\* A match: the fused node and the node exchanged, and the index renewed.
LEMMA ReplaceInv == Inv /\ Replace => Inv'
PROOF
<1> SUFFICES ASSUME Inv, Replace
             PROVE  Inv'
  OBVIOUS
<1> DEFINE m == names[at]
           n == Len(names)
           p == index[m]
           e == FusedName(m)
           q == index'[e]
<1>1. /\ n \in Nat /\ at \in 1..size /\ size \in Nat /\ size <= n
      /\ m \in Name /\ p \in at..n /\ names[p] = m
      /\ names' \in Seq(Name) /\ Len(names') = n + 1
      /\ names'[p] = e /\ names'[n + 1] = m
      /\ \A k \in 1..n : k # p => names'[k] = names[k]
      /\ q \in 1..n + 1 /\ names'[q] = e /\ p <= q /\ at' = q + 1
      /\ index' = Reindexed(names', index)
  BY ReplaceStep
<1>2. on /\ on' /\ size' = size /\ start' = start /\ spare' = spare
  BY DEF Inv, LoopTypeOK, Replace
<1>3. /\ DOMAIN names = 1..n /\ DOMAIN names' = 1..n + 1
      /\ start \in Seq(Name) /\ DOMAIN start = 1..Len(start) /\ Len(start) \in Nat
      /\ \A i \in 1..Len(start) : start[i] \in Name
  BY <1>1, LenProperties, ElementOfSeq DEF Inv, LoopTypeOK
<1> HIDE DEF n, m, p, e, q
<1>4. LoopTypeOK'
  BY <1>1, <1>2 DEF Inv, LoopTypeOK
<1>5. NamesIn(names) \subseteq NamesIn(names')
  <2> SUFFICES ASSUME NEW k \in 1..n
               PROVE  \E j \in 1..n + 1 : names'[j] = names[k]
    BY <1>3 DEF NamesIn
  <2>1. CASE k = p
    BY <1>1, <2>1
  <2>2. CASE k # p
    BY <1>1, <2>2
  <2> QED
    BY <2>1, <2>2
<1>6. NodesKept'
  BY <1>2, <1>5 DEF Inv, NodesKept
<1>7. /\ \A x \in DOMAIN index' : x \in DOMAIN index \/ \E i \in 1..n + 1 : names'[i] = x
      /\ \A i \in 1..n + 1 :
           /\ names'[i] \in DOMAIN index' /\ i <= index'[names'[i]]
           /\ index'[names'[i]] \in 1..n + 1 /\ names'[index'[names'[i]]] = names'[i]
  <2>1. names' \in Seq(Name) /\ index' = Reindexed(names', index) /\ Len(names') = n + 1
    BY <1>1
  <2> QED
    BY <2>1, IndexFacts
<1>8. IndexSound'
  <2>1. ASSUME NEW x \in DOMAIN index'
        PROVE  \E i \in 1..n + 1 : names'[i] = x
    <3>1. CASE x \in DOMAIN index
      <4>1. x \in NamesIn(names)
        BY <1>2, <1>3, <3>1 DEF Inv, IndexSound, NamesIn, n
      <4> QED
        BY <1>3, <1>5, <4>1 DEF NamesIn
    <3> QED
      BY <1>7, <3>1
  <2> QED
    BY <1>1, <1>7, <2>1 DEF IndexSound
<1>9. IndexCoversScan'
  <2>1. \A i \in 1..size : i \in 1..n + 1
    BY <1>1
  <2> QED
    BY <1>1, <1>2, <1>7, <2>1 DEF IndexCoversScan
<1>10. ASSUME Fresh(start)
       PROVE  /\ size = Len(start) /\ p = at /\ m = start[at]
              /\ \A i \in 1..size : i >= at => names[i] = start[i]
              /\ \A i \in 1..size : names[i] \in {start[i], FusedName(start[i])}
              /\ \A k \in size + 1..n : \E i \in 1..size :
                   \/ i < at /\ names[k] = start[i]
                   \/ start[i] \in spare /\ names[k] = FusedName(start[i])
  BY <1>10, VisitedAtIndex DEF n, m, p
<1>11. ScanOrder'
  <2> SUFFICES ASSUME Fresh(start)
               PROVE  ScanOrder'
    BY <1>2 DEF ScanOrder
  <2>1. \A i \in 1..size : i >= at' => names'[i] = start[i]
    BY <1>1, <1>10
  <2>2. \A i \in 1..size : names'[i] \in {start[i], FusedName(start[i])}
    BY <1>1, <1>10 DEF e
  <2>3. ASSUME NEW k \in size + 1..n + 1
        PROVE  \E i \in 1..size :
                 \/ i < at' /\ names'[k] = start[i]
                 \/ start[i] \in spare /\ names'[k] = FusedName(start[i])
    <3>1. CASE k = n + 1
      <4>1. at < at' /\ names'[k] = start[at]
        BY <1>1, <1>10, <3>1
      <4> QED
        BY <1>1, <4>1
    <3>2. CASE k # n + 1
      <4>1. k \in size + 1..n /\ names'[k] = names[k]
        BY <1>1, <1>10, <3>2
      <4>2. PICK i \in 1..size : \/ i < at /\ names[k] = start[i]
                                 \/ start[i] \in spare /\ names[k] = FusedName(start[i])
        BY <1>10, <4>1
      <4>3. i < at => i < at'
        BY <1>1
      <4> QED
        BY <4>1, <4>2, <4>3
    <3> QED
      BY <3>1, <3>2
  <2>4. \A k \in size' + 1..Len(names') : \E i \in 1..size' :
          \/ i < at' /\ names'[k] = start'[i]
          \/ start'[i] \in spare' /\ names'[k] = FusedName(start'[i])
    BY <1>1, <1>2, <2>3
  <2>5. /\ size' = Len(start')
        /\ \A i \in 1..size' : i >= at' => names'[i] = start'[i]
        /\ \A i \in 1..size' : names'[i] \in {start'[i], FusedName(start'[i])}
    BY <1>2, <1>10, <2>1, <2>2
  <2> QED
    BY <2>4, <2>5 DEF ScanOrder
<1>12. UniqueNames'
  <2> SUFFICES ASSUME Fresh(start), NEW i \in 1..n + 1, NEW j \in 1..n + 1,
                      names'[i] = names'[j], i < j
               PROVE  \E x \in spare : names'[i] = FusedName(x)
    <3>1. ASSUME Fresh(start), NEW i \in 1..n + 1, NEW j \in 1..n + 1,
                 names'[i] = names'[j], i # j
          PROVE  \E x \in spare : names'[i] = FusedName(x)
      <4>1. i < j \/ j < i
        BY <1>1, <3>1
      <4> QED
        BY <3>1, <4>1
    <3> QED
      BY <1>2, <1>3, <3>1 DEF UniqueNames
  <2>1. /\ at \in DOMAIN start /\ start[at] \in Name
        /\ \A k \in 1..size : k \in DOMAIN start /\ start[k] \in Name
    BY <1>1, <1>3, <1>10
  <2>2. ASSUME NEW k \in 1..n, k # at, names[k] = m
        PROVE  FALSE
    <3>1. CASE k <= size
      BY <1>1, <1>10, <2>1, <2>2, <3>1 DEF Fresh
    <3>2. CASE k \in size + 1..n
      <4>1. PICK l \in 1..size : \/ l < at /\ names[k] = start[l]
                                 \/ start[l] \in spare /\ names[k] = FusedName(start[l])
        BY <1>10, <3>2
      <4> QED
        BY <1>1, <1>10, <2>1, <2>2, <4>1 DEF Fresh
    <3> QED
      BY <1>1, <3>1, <3>2
  <2>3. ASSUME NEW k \in 1..n, k # at, names[k] = e
        PROVE  start[at] \in spare
    <3>1. CASE k <= size
      <4>1. names[k] # start[k]
        BY <1>1, <1>10, <2>1, <2>3, <3>1 DEF Fresh, e
      <4>2. FusedName(start[k]) = FusedName(start[at])
        BY <1>1, <1>10, <2>3, <3>1, <4>1 DEF e
      <4>3. start[k] = start[at]
        BY <1>1, <2>1, <3>1, <4>2, FusedNames
      <4> QED
        BY <1>1, <1>10, <2>1, <2>3, <3>1, <4>3 DEF Fresh
    <3>2. CASE k \in size + 1..n
      <4>1. PICK l \in 1..size : \/ l < at /\ names[k] = start[l]
                                 \/ start[l] \in spare /\ names[k] = FusedName(start[l])
        BY <1>10, <3>2
      <4>2. names[k] # start[l]
        BY <1>10, <2>1, <2>3 DEF Fresh, e
      <4>3. start[l] \in spare /\ FusedName(start[l]) = FusedName(start[at])
        BY <1>10, <2>3, <4>1, <4>2 DEF e
      <4>4. start[l] = start[at]
        BY <2>1, <4>3, FusedNames
      <4> QED
        BY <4>3, <4>4
    <3> QED
      BY <1>1, <3>1, <3>2
  <2>4. CASE j = n + 1
    <3>1. i \in 1..n /\ names'[i] = m
      BY <1>1, <2>4
    <3>2. i = at
      BY <1>1, <1>10, <2>2, <3>1
    <3>3. m = FusedName(m)
      BY <1>1, <1>10, <3>1, <3>2 DEF e
    <3> QED
      BY <1>10, <2>1, <3>3 DEF Fresh
  <2>5. CASE j # n + 1 /\ (i = at \/ j = at)
    <3>1. i \in 1..n /\ j \in 1..n
      BY <1>1, <2>5
    <3>2. names'[i] = e /\ start[at] \in spare
      BY <1>1, <1>10, <2>3, <2>5, <3>1
    <3> QED
      BY <1>10, <3>2 DEF e
  <2>6. CASE j # n + 1 /\ i # at /\ j # at
    <3>1. i \in 1..n /\ j \in 1..n /\ names'[i] = names[i] /\ names'[j] = names[j]
      BY <1>1, <1>10, <2>6
    <3>2. \A k, l \in 1..n : names[k] = names[l] =>
            k = l \/ \E x \in spare : names[k] = FusedName(x)
      BY <1>2, <1>3 DEF Inv, UniqueNames
    <3>3. names[i] = names[j]
      BY <3>1
    <3>4. i # j
      BY <1>1
    <3> QED
      BY <3>1, <3>2, <3>3, <3>4
  <2> QED
    BY <2>4, <2>5, <2>6
<1> QED
  BY <1>4, <1>6, <1>8, <1>9, <1>11, <1>12 DEF Inv

\* The loop's invariant holds of every graph, whatever the rewriters match.
THEOREM LoopCorrect == LoopSpec => []Inv
PROOF
<1>1. LoopInit => Inv
  BY InitInv
<1>2. Inv /\ [LoopNext]_loopVars => Inv'
  BY HandOverInv, BeginInv, AbandonInv, ReplaceInv, AdvanceInv, EndInv, StutterInv
     DEF LoopNext
<1> QED
  BY <1>1, <1>2, PTL DEF LoopSpec

\* node_indexes_ is right about every name it holds, and holds every name the loop asks for.
THEOREM LoopIndexCorrect == LoopSpec => []IndexSound /\ []IndexCoversScan
PROOF
<1>1. Inv => IndexSound /\ IndexCoversScan
  BY DEF Inv
<1> QED
  BY <1>1, LoopCorrect, PTL

\* No node is lost, and on a fresh graph no two nodes have one name, abandoned matches apart.
THEOREM LoopNamesCorrect == LoopSpec => []NodesKept /\ []UniqueNames
PROOF
<1>1. Inv => NodesKept /\ UniqueNames
  BY DEF Inv
<1> QED
  BY <1>1, LoopCorrect, PTL

\* A match resumes behind the position it was found at.
LEMMA ReplaceProgresses == Inv /\ Replace => at' > at
PROOF
<1> SUFFICES ASSUME Inv, Replace
             PROVE  at' > at
  OBVIOUS
<1>1. \E p, q \in Int : at <= p /\ p <= q /\ at' = q + 1 /\ at \in Int
  BY ReplaceStep
<1> QED
  BY <1>1

\* Every match moves the loop forward, so it ends although the graph grows under it.
THEOREM LoopProgresses == LoopSpec => ScanProgresses
PROOF
<1>1. Inv /\ [LoopNext]_loopVars => [on /\ on' /\ at' # at => at' > at]_loopVars
  <2> SUFFICES ASSUME Inv, LoopNext, on, on', at' # at
               PROVE  at' > at
    OBVIOUS
  <2>1. CASE Replace
    BY <2>1, ReplaceProgresses
  <2>2. CASE Advance
    BY <2>2 DEF Advance, Inv, LoopTypeOK
  <2>3. CASE HandOver \/ Begin \/ Abandon \/ End
    BY <2>3 DEF HandOver, Begin, Abandon, End
  <2> QED
    BY <2>1, <2>2, <2>3 DEF LoopNext
<1> QED
  BY <1>1, LoopCorrect, PTL DEF LoopSpec, ScanProgresses

\* On a fresh graph in which no match was abandoned the loop visits position after position.
THEOREM LoopVisitsAll == LoopSpec => ScanInOrder
PROOF
<1>1. ASSUME Inv, Inv', Replace, Fresh(start), spare = {}
      PROVE  at' = at + 1
  <2> DEFINE m == names[at]
             n == Len(names)
             p == index[m]
             q == index'[FusedName(m)]
  <2>1. /\ n \in Nat /\ at \in 1..size /\ size \in Nat /\ size <= n
        /\ p \in at..n /\ names[p] = m
        /\ names' \in Seq(Name) /\ Len(names') = n + 1
        /\ names'[p] = FusedName(m) /\ q \in 1..n + 1 /\ names'[q] = FusedName(m)
        /\ at' = q + 1
    BY <1>1, ReplaceStep
  <2>2. on /\ on' /\ spare' = {} /\ start' = start /\ DOMAIN names' = 1..n + 1
    BY <1>1, <2>1, LenProperties DEF Inv, LoopTypeOK, Replace
  <2>3. p = at
    BY <1>1, <2>1, <2>2, VisitedAtIndex
  <2>4. p = q
    <3>1. Fresh(start)'
      BY <1>1, <2>2 DEF Fresh
    <3>2. \A i, j \in 1..n + 1 : names'[i] = names'[j] => i = j
      BY <1>1, <2>2, <3>1 DEF Inv, UniqueNames
    <3> QED
      BY <2>1, <3>2
  <2> QED
    BY <2>1, <2>3, <2>4
<1>2. Inv /\ Inv' /\ [LoopNext]_loopVars
        => [on /\ on' /\ at' # at /\ Fresh(start) /\ spare = {} => at' = at + 1]_loopVars
  <2> SUFFICES ASSUME Inv, Inv', LoopNext, on, on', at' # at, Fresh(start), spare = {}
               PROVE  at' = at + 1
    OBVIOUS
  <2>1. CASE Replace
    BY <1>1, <2>1
  <2>2. CASE HandOver \/ Begin \/ Abandon \/ Advance \/ End
    BY <2>2 DEF HandOver, Begin, Abandon, Advance, End
  <2> QED
    BY <2>1, <2>2 DEF LoopNext
<1> QED
  BY <1>2, LoopCorrect, PTL DEF LoopSpec, ScanInOrder

\* What the loop has not reached is as it was, on any graph, and a rewriter can only have given
\* up on a node of the graph the pass was given.
Unreached == on => size = Len(start) /\ \A i \in 1..size : i >= at => names[i] = start[i]
SpareInStart == spare \subseteq NamesIn(start)

\* Every step of the loop keeps both.
LEMMA UnreachedStep ==
  Inv /\ Unreached /\ SpareInStart /\ [LoopNext]_loopVars => Unreached' /\ SpareInStart'
PROOF
<1> SUFFICES ASSUME Inv, Unreached, SpareInStart, [LoopNext]_loopVars
             PROVE  Unreached' /\ SpareInStart'
  OBVIOUS
<1>1. CASE HandOver
  BY <1>1 DEF HandOver, Unreached, SpareInStart, NamesIn
<1>2. CASE Begin
  BY <1>2 DEF Begin, Unreached, SpareInStart
<1>3. CASE Abandon
  <2>1. /\ names \in Seq(Name) /\ Len(names) \in Nat /\ start \in Seq(Name)
        /\ DOMAIN start = 1..Len(start) /\ size \in Nat /\ at \in Nat \ {0} /\ size <= Len(names)
    BY <1>3, LenProperties DEF Inv, LoopTypeOK, IndexCoversScan, Abandon
  <2>2. at \in 1..size /\ size = Len(start) /\ \A i \in 1..size : i >= at => names[i] = start[i]
    BY <1>3, <2>1 DEF Abandon, Unreached
  <2>3. names[at] = start[at] /\ at \in DOMAIN start /\ names[at] \in Name
    <3>1. at \in 1..Len(names)
      BY <2>1, <2>2
    <3> QED
      BY <2>1, <2>2, <3>1, ElementOfSeq
  <2>4. names[at] \in NamesIn(start)
    BY <2>3 DEF NamesIn
  <2>5. SpareInStart'
    BY <1>3, <2>4 DEF Abandon, SpareInStart
  <2>6. FusedName(names[at]) \in Name
    BY <2>3, FusedNames
  <2>7. \A i \in 1..Len(names) : names'[i] = names[i]
    <3>1. names' = Append(names, FusedName(names[at]))
      BY <1>3 DEF Abandon
    <3> QED
      BY <2>1, <2>6, <3>1, AppendProperties
  <2>8. \A i \in 1..size : names'[i] = names[i]
    BY <2>1, <2>7
  <2> QED
    BY <1>3, <2>2, <2>5, <2>8 DEF Abandon, Unreached
<1>4. CASE Replace
  <2>1. PICK p, q \in Int : /\ at \in 1..size /\ size \in Nat /\ size <= Len(names)
                           /\ at <= p /\ p <= q /\ at' = q + 1 /\ Len(names) \in Nat
                           /\ \A k \in 1..Len(names) : k # p => names'[k] = names[k]
    BY <1>4, ReplaceStep
  <2>2. ASSUME NEW i \in 1..size, i >= at'
        PROVE  names'[i] = names[i] /\ i >= at
    BY <2>1, <2>2
  <2> QED
    BY <1>4, <2>2 DEF Replace, Unreached, SpareInStart
<1>5. CASE Advance
  BY <1>5 DEF Advance, Unreached, SpareInStart, Inv, LoopTypeOK
<1>6. CASE End \/ UNCHANGED loopVars
  BY <1>6 DEF End, loopVars, Unreached, SpareInStart
<1> QED
  BY <1>1, <1>2, <1>3, <1>4, <1>5, <1>6 DEF LoopNext
=============================================================================
