------------------------- MODULE GraphOptimizerProofs -------------------------
(***************************************************************************)
(* GraphOptimizer implements RewriteLoop for every graph and whatever      *)
(* MatchAndRewrite returns: a step of the optimizer is a step of the loop  *)
(* over names or changes nothing the loop knows.  What is proved of the    *)
(* loop is then true of the optimizer.                                     *)
(*                                                                         *)
(* What the rewriters read and what they leave: every input the optimizer  *)
(* gives a node is an output some node of the graph has, in every graph    *)
(* TensorFlow accepts.  The ten rewriters are looked at one by one for     *)
(* what they take their inputs from: inputs of nodes they reach through    *)
(* the index map from the node the loop visits.  Then which of them can    *)
(* match one node, and what follows from it for the nodes that abandoned   *)
(* matches leave behind.                                                   *)
(***************************************************************************)
EXTENDS GraphOptimizer, SequenceTheorems, FiniteSetTheorems, TLAPS

\* Of Recursion only what it says of positions is needed: its step is of no importance.
Positions == INSTANCE Recursion WITH Step <- SwapElements

LP == INSTANCE RewriteLoopProofs WITH
  names <- NameSeq(graph), index <- indexes, at <- node_index, size <- node_size,
  on <- pc = "scan", start <- NameSeq(start), spare <- spare

\* The name of a fused node is a name, and tells which node was fused.
LEMMA FusedNames ==
  ASSUME NEW m \in Name, NEW n \in Name
  PROVE  FusedName(m) \in Name /\ (FusedName(m) = FusedName(n) => m = n)
PROOF
  BY AppendProperties, AppendInjective DEF FusedName, Name

\* A GraphDef, whatever else its nodes hold.
Named(g) == \E S : g \in Seq(S) /\ \A nd \in S : nd.name \in Name

GInv == Named(graph) /\ LP!Inv

\* NameSeq, position by position.
LEMMA NameSeqFacts ==
  ASSUME NEW S, NEW g \in Seq(S), \A nd \in S : nd.name \in Name
  PROVE  /\ NameSeq(g) \in Seq(Name) /\ Len(NameSeq(g)) = Len(g) /\ Len(g) \in Nat
         /\ \A i \in 1..Len(g) : NameSeq(g)[i] = g[i].name /\ g[i] \in S
PROOF
<1>1. Len(g) \in Nat /\ \A i \in 1..Len(g) : g[i] \in S
  BY LenProperties, ElementOfSeq
<1>2. \A i \in 1..Len(g) : g[i].name \in Name
  BY <1>1
<1> HIDE DEF Name
<1> QED
  BY <1>1, <1>2 DEF NameSeq

\* Sequences of one length with the same elements are one sequence.
LEMMA SameSeq ==
  ASSUME NEW S, NEW s \in Seq(S), NEW t \in Seq(S), Len(s) = Len(t),
         \A i \in 1..Len(s) : s[i] = t[i]
  PROVE  s = t
PROOF
  BY SeqEqual

\* nodes->Add() adds a name at the end.
LEMMA NameSeqAppend ==
  ASSUME NEW g, Named(g), NEW nd, nd.name \in Name
  PROVE  Named(Append(g, nd)) /\ NameSeq(Append(g, nd)) = Append(NameSeq(g), nd.name)
PROOF
<1>1. PICK S : g \in Seq(S) /\ \A x \in S : x.name \in Name
  BY DEF Named
<1> DEFINE T == S \cup {nd}
           a == Append(g, nd)
<1>2. g \in Seq(T)
  BY <1>1, SeqMonotonic
<1>3. \A x \in T : x.name \in Name
  BY <1>1
<1>4. a \in Seq(T) /\ Len(a) = Len(g) + 1 /\ a[Len(g) + 1] = nd
      /\ \A i \in 1..Len(g) : a[i] = g[i]
  BY <1>2, AppendProperties
<1> HIDE DEF T, a
<1>5. Named(a)
  BY <1>3, <1>4 DEF Named
<1>6. /\ NameSeq(g) \in Seq(Name) /\ Len(NameSeq(g)) = Len(g) /\ Len(g) \in Nat
      /\ \A i \in 1..Len(g) : NameSeq(g)[i] = g[i].name
  BY <1>2, <1>3, NameSeqFacts
<1>7. /\ NameSeq(a) \in Seq(Name) /\ Len(NameSeq(a)) = Len(a)
      /\ \A i \in 1..Len(a) : NameSeq(a)[i] = a[i].name
  BY <1>3, <1>4, NameSeqFacts
<1> DEFINE b == Append(NameSeq(g), nd.name)
<1>8. /\ b \in Seq(Name) /\ Len(b) = Len(g) + 1 /\ b[Len(g) + 1] = nd.name
      /\ \A i \in 1..Len(g) : b[i] = NameSeq(g)[i]
  BY <1>6, AppendProperties
<1> HIDE DEF b, Name
<1>9. \A i \in 1..Len(a) : NameSeq(a)[i] = b[i]
  <2> TAKE i \in 1..Len(a)
  <2>1. i = Len(g) + 1 \/ i \in 1..Len(g)
    BY <1>4, <1>6
  <2> QED
    BY <1>4, <1>6, <1>7, <1>8, <2>1
<1>10. NameSeq(a) = b
  BY <1>4, <1>7, <1>8, <1>9, SameSeq
<1> QED
  BY <1>5, <1>10 DEF a, b

\* SwapElements swaps the names.
LEMMA NameSeqSwap ==
  ASSUME NEW g, Named(g), NEW i \in 1..Len(g), NEW j \in 1..Len(g)
  PROVE  /\ Named(SwapElements(g, i, j))
         /\ NameSeq(SwapElements(g, i, j)) = SwapElements(NameSeq(g), i, j)
PROOF
<1>1. PICK S : g \in Seq(S) /\ \A x \in S : x.name \in Name
  BY DEF Named
<1> DEFINE n == Len(g)
           ns == NameSeq(g)
           b == [g EXCEPT ![i] = g[j]]
           t == [b EXCEPT ![j] = g[i]]
           c == [ns EXCEPT ![i] = ns[j]]
           u == [c EXCEPT ![j] = ns[i]]
<1>2. /\ ns \in Seq(Name) /\ Len(ns) = n /\ n \in Nat
      /\ \A k \in 1..n : ns[k] = g[k].name /\ g[k] \in S
  BY <1>1, NameSeqFacts
<1>3. \A k \in 1..n : ns[k] \in Name
  BY <1>2, ElementOfSeq
<1> HIDE DEF ns, Name
<1>4. b \in Seq(S) /\ Len(b) = n /\ \A k \in 1..n : b[k] = IF k = i THEN g[j] ELSE g[k]
  BY <1>1, <1>2, ExceptSeq
<1> HIDE DEF b
<1>5. t \in Seq(S) /\ Len(t) = n /\ \A k \in 1..n : t[k] = IF k = j THEN g[i] ELSE b[k]
  BY <1>2, <1>4, ExceptSeq
<1>6. c \in Seq(Name) /\ Len(c) = n /\ \A k \in 1..n : c[k] = IF k = i THEN ns[j] ELSE ns[k]
  BY <1>2, <1>3, ExceptSeq
<1> HIDE DEF c
<1>7. u \in Seq(Name) /\ Len(u) = n /\ \A k \in 1..n : u[k] = IF k = j THEN ns[i] ELSE c[k]
  BY <1>2, <1>3, <1>6, ExceptSeq
<1>8. SwapElements(g, i, j) = t /\ SwapElements(ns, i, j) = u
  BY DEF SwapElements, b, c
<1> HIDE DEF t, u
<1>9. /\ NameSeq(t) \in Seq(Name) /\ Len(NameSeq(t)) = n
      /\ \A k \in 1..n : NameSeq(t)[k] = t[k].name
  BY <1>1, <1>5, NameSeqFacts
<1>10. \A k \in 1..n : NameSeq(t)[k] = u[k]
  <2> TAKE k \in 1..n
  <2>1. NameSeq(t)[k] = t[k].name
    BY <1>9
  <2>2. CASE k = j
    BY <1>2, <1>5, <1>7, <2>1, <2>2
  <2>3. CASE k # j
    <3>1. t[k] = b[k] /\ u[k] = c[k]
      BY <1>5, <1>7, <2>3
    <3>2. CASE k = i
      BY <1>2, <1>4, <1>6, <2>1, <3>1, <3>2
    <3>3. CASE k # i
      BY <1>2, <1>4, <1>6, <2>1, <3>1, <3>3
    <3> QED
      BY <3>2, <3>3
  <2> QED
    BY <2>2, <2>3
<1>11. NameSeq(t) = u
  BY <1>7, <1>9, <1>10, SameSeq
<1>12. Named(t)
  BY <1>1, <1>5 DEF Named
<1> QED
  BY <1>8, <1>11, <1>12 DEF ns

\* replace_all_users_with renames no node.
LEMMA NameSeqRedirect ==
  ASSUME NEW g, Named(g), NEW old, NEW new
  PROVE  Named(RedirectUsers(g, old, new)) /\ NameSeq(RedirectUsers(g, old, new)) = NameSeq(g)
PROOF
<1>1. PICK S : g \in Seq(S) /\ \A x \in S : x.name \in Name
  BY DEF Named
<1> DEFINE n == Len(g)
           r == RedirectUsers(g, old, new)
           T == {r[i] : i \in 1..n}
<1>2. /\ n \in Nat /\ \A k \in 1..n : g[k].name \in Name
  BY <1>1, LenProperties, ElementOfSeq
<1>3. /\ r = [i \in 1..n |-> r[i]]
      /\ \A i \in 1..n : r[i].name = g[i].name
  BY DEF RedirectUsers
<1> HIDE DEF r
<1>4. r \in [1..n -> T]
  BY <1>3
<1>5. \A x \in T : x.name \in Name
  BY <1>2, <1>3
<1> HIDE DEF T
<1>6. r \in Seq(T) /\ Len(r) = n
  BY <1>2, <1>4
<1>7. NameSeq(r) = NameSeq(g)
  BY <1>3, <1>6 DEF NameSeq
<1> QED
  BY <1>5, <1>6, <1>7 DEF Named, r

\* The node the loop looks at is in the graph, and node_indexes.at(node->name()) finds one.
LEMMA VisitedNode ==
  ASSUME GInv, pc = "scan", node_index <= node_size
  PROVE  /\ node_index \in 1..Len(graph) /\ Node.name \in Name
         /\ NameSeq(graph)[node_index] = Node.name
         /\ indexes[Node.name] \in 1..Len(graph)
PROOF
<1>1. PICK S : graph \in Seq(S) /\ \A x \in S : x.name \in Name
  BY DEF GInv, Named
<1>2. /\ Len(NameSeq(graph)) = Len(graph) /\ Len(graph) \in Nat
      /\ \A i \in 1..Len(graph) : NameSeq(graph)[i] = graph[i].name /\ graph[i] \in S
  BY <1>1, NameSeqFacts
<1>3. /\ node_index \in Nat \ {0} /\ node_size \in Nat /\ node_size <= Len(graph)
      /\ \A i \in 1..node_size : NameSeq(graph)[i] \in DOMAIN indexes
      /\ \A x \in DOMAIN indexes : indexes[x] \in 1..Len(graph)
  BY <1>2 DEF GInv, LP!Inv, LP!LoopTypeOK, LP!IndexCoversScan, LP!IndexSound
<1>4. node_index \in 1..Len(graph) /\ node_index \in 1..node_size
  BY <1>2, <1>3
<1>5. NameSeq(graph)[node_index] = Node.name /\ Node.name \in Name
  BY <1>1, <1>2, <1>4 DEF Node
<1> QED
  BY <1>3, <1>4, <1>5

\* The nodes kept, upto each position.
KeptBy(f, g, names, len) ==
  f = [k \in 0..len |-> IF k = 0 THEN <<>>
                        ELSE IF g[k].name \in names THEN Append(f[k - 1], g[k])
                        ELSE f[k - 1]]

\* The recursion over the nodes of a graph has a solution.
LEMMA KeptExists ==
  ASSUME NEW g, NEW names, NEW len \in Nat
  PROVE  \E f : KeptBy(f, g, names, len)
PROOF
<1> DEFINE e(f, k) == IF k = 0 THEN <<>>
                      ELSE IF g[k].name \in names THEN Append(f[k - 1], g[k])
                      ELSE f[k - 1]
           Long == {m \in 0..len : \E f : KeptBy(f, g, names, m)}
<1>0. \A f, m : KeptBy(f, g, names, m) <=> f = [k \in 0..m |-> e(f, k)]
  BY DEF KeptBy
<1>1. 0 \in Long
  <2> DEFINE f == [k \in 0..0 |-> <<>>]
  <2>1. KeptBy(f, g, names, 0)
    BY DEF KeptBy
  <2> HIDE DEF f
  <2> QED
    BY <2>1
<1>2. ASSUME NEW m \in 1..len, m - 1 \in Long
      PROVE  m \in Long
  <2>1. PICK f : KeptBy(f, g, names, m - 1)
    BY <1>2
  <2>2. PICK h : h = [k \in 0..m |-> e(f, k)]
    OBVIOUS
  <2>3. \A k \in 0..m - 1 : k \in 0..m /\ h[k] = f[k]
    <3> HIDE DEF e
    <3> QED
      BY <1>0, <2>1, <2>2
  <2>4. \A k \in 0..m : h[k] = e(h, k)
    <3> TAKE k \in 0..m
    <3>1. k # 0 => k - 1 \in 0..m - 1
      OBVIOUS
    <3> QED
      BY <2>2, <2>3, <3>1
  <2>5. KeptBy(h, g, names, m)
    <3> HIDE DEF e
    <3> QED
      BY <1>0, <2>2, <2>4
  <2> QED
    BY <2>5
<1> HIDE DEF Long
<1>3. \A k \in 0..len : k \in Long
  BY <1>1, <1>2, Positions!StepByStep
<1>4. len \in Long
  BY <1>3
<1> QED
  BY <1>4 DEF Long

\* What is pruned: exactly the nodes without one of the names.
LEMMA NodesNamedFacts ==
  ASSUME NEW S, NEW g \in Seq(S), NEW names
  PROVE  /\ NodesNamed(g, names) \in Seq({g[i] : i \in DOMAIN g})
         /\ {NodesNamed(g, names)[i] : i \in DOMAIN NodesNamed(g, names)} =
              {nd \in {g[i] : i \in DOMAIN g} : nd.name \in names}
PROOF
<1> DEFINE len == Len(g)
           Set == {g[i] : i \in DOMAIN g}
           Upto(k) == {nd \in {g[i] : i \in 1..k} : nd.name \in names}
<1>1. len \in Nat /\ DOMAIN g = 1..len
  BY LenProperties
<1>2. PICK f : KeptBy(f, g, names, len) /\ NodesNamed(g, names) = f[len]
  <2>1. \E f : KeptBy(f, g, names, len)
    BY <1>1, KeptExists
  <2> QED
    BY <2>1 DEF NodesNamed, KeptBy
<1>3. /\ f[0] = <<>>
      /\ \A k \in 1..len : f[k] = IF g[k].name \in names THEN Append(f[k - 1], g[k]) ELSE f[k - 1]
  <2> DEFINE e(k) == IF k = 0 THEN <<>>
                     ELSE IF g[k].name \in names THEN Append(f[k - 1], g[k]) ELSE f[k - 1]
  <2>1. f = [k \in 0..len |-> e(k)]
    BY <1>2 DEF KeptBy
  <2>2. 0 \in 0..len /\ \A k \in 1..len : k \in 0..len /\ k # 0
    BY <1>1
  <2>3. \A k \in 0..len : f[k] = e(k)
    <3> HIDE DEF e
    <3> QED
      BY <2>1
  <2> QED
    BY <2>2, <2>3
<1> DEFINE T == {k \in 0..len : f[k] \in Seq(Set) /\ {f[k][i] : i \in DOMAIN f[k]} = Upto(k)}
<1>4. 0 \in T
  <2>1. f[0] \in Seq(Set) /\ DOMAIN f[0] = {}
    BY <1>3
  <2>2. Upto(0) = {}
    OBVIOUS
  <2> QED
    BY <1>1, <2>1, <2>2
<1>5. ASSUME NEW k \in 1..len, k - 1 \in T
      PROVE  k \in T
  <2> DEFINE s == f[k - 1]
             r == f[k]
  <2>0. k \in 0..len
    BY <1>1
  <2>1. s \in Seq(Set) /\ {s[i] : i \in DOMAIN s} = Upto(k - 1)
    BY <1>5
  <2>2. Upto(k) = IF g[k].name \in names THEN Upto(k - 1) \cup {g[k]} ELSE Upto(k - 1)
    <3>1. \A i \in 1..k : i \in 1..k - 1 \/ i = k
      OBVIOUS
    <3>2. \A i \in 1..k - 1 : i \in 1..k
      OBVIOUS
    <3>3. k \in 1..k
      OBVIOUS
    <3> QED
      BY <3>1, <3>2, <3>3
  <2>3. r = IF g[k].name \in names THEN Append(s, g[k]) ELSE s
    BY <1>3
  <2> HIDE DEF s, r, Upto
  <2>4. CASE g[k].name \in names
    <3>1. g[k] \in Set
      BY <1>1
    <3> HIDE DEF Set
    <3>2. Len(s) \in Nat /\ DOMAIN s = 1..Len(s)
      BY <2>1, LenProperties
    <3>3. /\ r \in Seq(Set) /\ Len(r) = Len(s) + 1 /\ r[Len(s) + 1] = g[k]
          /\ \A i \in 1..Len(s) : r[i] = s[i]
      BY <2>1, <2>3, <2>4, <3>1, AppendProperties
    <3>4. DOMAIN r = 1..Len(s) + 1
      BY <3>3, LenProperties
    <3>5. {r[i] : i \in DOMAIN r} = {s[i] : i \in DOMAIN s} \cup {g[k]}
      <4>1. \A i \in 1..Len(s) + 1 : i \in 1..Len(s) \/ i = Len(s) + 1
        BY <3>2
      <4>2. \A i \in 1..Len(s) : i \in 1..Len(s) + 1
        BY <3>2
      <4>3. Len(s) + 1 \in 1..Len(s) + 1
        BY <3>2
      <4> QED
        BY <3>2, <3>3, <3>4, <4>1, <4>2, <4>3
    <3>6. r \in Seq(Set) /\ {r[i] : i \in DOMAIN r} = Upto(k)
      BY <2>1, <2>2, <2>4, <3>3, <3>5
    <3> QED
      BY <2>0, <3>6 DEF r
  <2>5. CASE g[k].name \notin names
    <3>1. r \in Seq(Set) /\ {r[i] : i \in DOMAIN r} = Upto(k)
      BY <2>1, <2>2, <2>3, <2>5
    <3> QED
      BY <2>0, <3>1 DEF r
  <2> QED
    BY <2>4, <2>5
<1>6. len \in T
  <2> HIDE DEF T, len
  <2>1. \A k \in 0..len : k \in T
    BY <1>1, <1>4, <1>5, Positions!StepByStep
  <2> QED
    BY <1>1, <2>1
<1>7. Upto(len) = {nd \in Set : nd.name \in names}
  BY <1>1
<1> HIDE DEF Upto, Set
<1>8. f[len] \in Seq(Set) /\ {f[len][i] : i \in DOMAIN f[len]} = {nd \in Set : nd.name \in names}
  BY <1>6, <1>7
<1> QED
  BY <1>2, <1>8 DEF Set

\* What grappler prunes is another graph handed over: the loop is not running.
LEMMA PruneStep == GInv /\ Prune => Named(graph)' /\ Loop!HandOver
PROOF
<1> SUFFICES ASSUME GInv, Prune
             PROVE  Named(graph)' /\ Loop!HandOver
  OBVIOUS
<1>1. PICK S : graph \in Seq(S) /\ \A x \in S : x.name \in Name
  BY DEF GInv, Named
<1> DEFINE T == {graph[i] : i \in DOMAIN graph}
<1>2. \A x \in T : x.name \in Name
  BY <1>1, LenProperties, ElementOfSeq
<1>3. graph' \in Seq(T)
  BY <1>1, NodesNamedFacts DEF Prune
<1> HIDE DEF T
<1>4. Named(graph)' /\ NameSeq(graph') \in Seq(Name)
  BY <1>2, <1>3, NameSeqFacts DEF Named
<1>5. /\ pc = "meta" /\ pc' = "pruned" /\ start' = start /\ indexes' = indexes /\ spare' = spare
      /\ node_index' = node_index /\ node_size' = node_size
  BY DEF Prune
<1>6. NameSeq(graph') \in Seq(Loop!Name)
  BY <1>4 DEF Name, Loop!Name, Appendix, Loop!Appendix
<1> QED
  BY <1>4, <1>5, <1>6 DEF Loop!HandOver

\* run_graph_optimization begins the loop with an index of the graph it is given.
LEMMA BeginStep == GInv /\ RunGraphOptimization => Named(graph)' /\ Loop!Begin
PROOF
<1> SUFFICES ASSUME GInv, RunGraphOptimization
             PROVE  Named(graph)' /\ Loop!Begin
  OBVIOUS
<1>1. /\ pc = "pruned" /\ pc' = "scan" /\ graph' = graph /\ start' = graph /\ spare' = {}
      /\ node_index' = 1 /\ node_size' = Len(graph)
      /\ indexes' = Reindexed(NameSeq(graph), <<>>)
  BY DEF RunGraphOptimization, FirstIndexes, UpdateNodeIndexes
<1>2. PICK S : graph \in Seq(S) /\ \A x \in S : x.name \in Name
  BY DEF GInv, Named
<1>3. Len(NameSeq(graph)) = Len(graph)
  BY <1>2, NameSeqFacts
<1>4. Reindexed(NameSeq(graph), <<>>) = Loop!Reindexed(NameSeq(graph), <<>>)
  BY DEF Reindexed, Loop!Reindexed
<1>5. Named(graph)'
  BY <1>1 DEF GInv, Named
<1> QED
  BY <1>1, <1>3, <1>4, <1>5 DEF Loop!Begin

\* A rewriter that returns false after Add() only appends a name.
LEMMA AbandonStep == GInv /\ AbandonRewrite => Named(graph)' /\ Loop!Abandon
PROOF
<1> SUFFICES ASSUME GInv, AbandonRewrite
             PROVE  Named(graph)' /\ Loop!Abandon
  OBVIOUS
<1>1. /\ pc = "scan" /\ node_index <= node_size /\ pc' = pc /\ start' = start
      /\ graph' = Append(graph, FusedNode) /\ spare' = spare \cup {Node.name}
      /\ indexes' = indexes /\ node_index' = node_index /\ node_size' = node_size
  BY DEF AbandonRewrite, Trying
<1>2. Named(graph) /\ Node.name \in Name /\ NameSeq(graph)[node_index] = Node.name
  BY <1>1, VisitedNode DEF GInv
<1>3. FusedNode.name = FusedName(Node.name)
  BY DEF FusedNode
<1>4. FusedName(Node.name) \in Name
  BY <1>2, FusedNames
<1>5. Named(graph') /\ NameSeq(graph') = Append(NameSeq(graph), FusedName(Node.name))
  BY <1>1, <1>2, <1>3, <1>4, NameSeqAppend
<1>6. Loop!FusedName(Node.name) = FusedName(Node.name)
  BY DEF FusedName, Loop!FusedName, Appendix, Loop!Appendix
<1> QED
  BY <1>1, <1>2, <1>5, <1>6 DEF Loop!Abandon

\* A match appends the fused name, swaps it with the node and renews the index; the users it
\* redirects change no name.
LEMMA ReplaceStep == GInv /\ Rewrite => Named(graph)' /\ Loop!Replace
PROOF
<1> SUFFICES ASSUME GInv, Rewrite
             PROVE  Named(graph)' /\ Loop!Replace
  OBVIOUS
<1> DEFINE m == Node.name
           grown == Append(graph, FusedNode)
           swapped == SwapElements(grown, indexes[m], Len(grown))
<1>1. /\ pc = "scan" /\ node_index <= node_size /\ pc' = pc /\ start' = start
      /\ graph' = RedirectUsers(swapped, Outcome.old, FusedNode.name)
      /\ indexes' = Reindexed(NameSeq(graph'), indexes)
      /\ node_index' = indexes'[FusedName(m)] + 1
      /\ node_size' = node_size /\ spare' = spare
  BY DEF Rewrite, Trying, ResumeAt, UpdateNodeIndexes
<1>2. /\ Named(graph) /\ m \in Name /\ NameSeq(graph)[node_index] = m
      /\ indexes[m] \in 1..Len(graph)
  BY <1>1, VisitedNode DEF GInv
<1>3. FusedNode.name = FusedName(m)
  BY DEF FusedNode
<1>4. FusedName(m) \in Name
  BY <1>2, FusedNames
<1>5. Named(grown) /\ NameSeq(grown) = Append(NameSeq(graph), FusedName(m))
  BY <1>2, <1>3, <1>4, NameSeqAppend
<1>6. Len(graph) \in Nat /\ Len(grown) = Len(graph) + 1
  <2>1. PICK S : graph \in Seq(S)
    BY <1>2 DEF Named
  <2>2. graph \in Seq(S \cup {FusedNode})
    BY <2>1, SeqMonotonic
  <2> QED
    BY <2>2, AppendProperties, LenProperties
<1> HIDE DEF grown
<1>7. Named(swapped) /\ NameSeq(swapped) = SwapElements(NameSeq(grown), indexes[m], Len(grown))
  <2>1. indexes[m] \in 1..Len(grown) /\ Len(grown) \in 1..Len(grown)
    BY <1>2, <1>6
  <2> QED
    BY <1>5, <2>1, NameSeqSwap
<1> HIDE DEF swapped
<1>8. Named(graph') /\ NameSeq(graph') = NameSeq(swapped)
  BY <1>1, <1>7, NameSeqRedirect
<1>9. Len(NameSeq(grown)) = Len(grown)
  BY <1>5, NameSeqFacts DEF Named
<1>10. Loop!FusedName(m) = FusedName(m)
  BY DEF FusedName, Loop!FusedName, Appendix, Loop!Appendix
<1>11. Reindexed(NameSeq(graph'), indexes) = Loop!Reindexed(NameSeq(graph'), indexes)
  BY DEF Reindexed, Loop!Reindexed
<1>12. NameSeq(graph') = Loop!SwapElements(NameSeq(grown), indexes[m], Len(NameSeq(grown)))
  BY <1>7, <1>8, <1>9 DEF SwapElements, Loop!SwapElements
<1>13. NameSeq(start)' = NameSeq(start)
  BY <1>1
<1> HIDE DEF m
<1> QED
  BY <1>1, <1>2, <1>5, <1>8, <1>10, <1>11, <1>12, <1>13 DEF Loop!Replace

\* The remaining moves of optimize(), and what the loop over names does not see.
LEMMA OtherSteps ==
  /\ GInv /\ NextNode => Named(graph)' /\ Loop!Advance
  /\ GInv /\ Finish => Named(graph)' /\ Loop!End
  /\ GInv /\ (NoRewrite \/ UNCHANGED vars) => Named(graph)' /\ UNCHANGED Loop!loopVars
PROOF
<1>1. ASSUME Named(graph), graph' = graph
      PROVE  Named(graph)'
  BY <1>1
<1>2. ASSUME GInv, NextNode
      PROVE  Named(graph)' /\ Loop!Advance
  BY <1>1, <1>2 DEF GInv, NextNode, Loop!Advance
<1>3. ASSUME GInv, Finish
      PROVE  Named(graph)' /\ Loop!End
  BY <1>1, <1>3 DEF GInv, Finish, Loop!End, LP!Inv, LP!LoopTypeOK
<1>4. ASSUME GInv, NoRewrite \/ UNCHANGED vars
      PROVE  Named(graph)' /\ UNCHANGED Loop!loopVars
  BY <1>1, <1>4 DEF GInv, NoRewrite, vars, Loop!loopVars
<1> QED
  BY <1>2, <1>3, <1>4

\* Every step of the optimizer is a step of the loop or changes nothing of it.
LEMMA StepSimulates == GInv /\ [Next]_vars => Named(graph)' /\ [Loop!LoopNext]_(Loop!loopVars)
PROOF
<1> SUFFICES ASSUME GInv, [Next]_vars
             PROVE  Named(graph)' /\ [Loop!LoopNext]_(Loop!loopVars)
  OBVIOUS
<1>1. CASE Prune
  BY <1>1, PruneStep DEF Loop!LoopNext
<1>2. CASE RunGraphOptimization
  BY <1>2, BeginStep DEF Loop!LoopNext
<1>3. CASE AbandonRewrite
  BY <1>3, AbandonStep DEF Loop!LoopNext
<1>4. CASE Rewrite
  BY <1>4, ReplaceStep DEF Loop!LoopNext
<1>5. CASE NextNode \/ Finish
  BY <1>5, OtherSteps DEF Loop!LoopNext
<1>6. CASE NoRewrite \/ Optimized \/ UNCHANGED vars
  BY <1>6, OtherSteps DEF Optimized
<1> QED
  BY <1>1, <1>2, <1>3, <1>4, <1>5, <1>6 DEF Next

\* Grappler hands over a graph and no optimizer exists yet.
LEMMA InitSimulates == Init => Named(graph) /\ Loop!LoopInit
PROOF
<1> SUFFICES ASSUME Init
             PROVE  Named(graph) /\ Loop!LoopInit
  OBVIOUS
<1>1. PICK item \in Items : graph = item.nodes
  BY DEF Init
<1> DEFINE T == {graph[i] : i \in DOMAIN graph}
<1>2. graph \in Seq(T) /\ \A x \in T : x.name \in Name
  BY <1>1, ItemsAssumption
<1> HIDE DEF T
<1>3. Named(graph) /\ NameSeq(graph) \in Seq(Name)
  BY <1>2, NameSeqFacts DEF Named
<1>4. NameSeq(graph) \in Seq(Loop!Name)
  BY <1>3 DEF Name, Loop!Name, Appendix, Loop!Appendix
<1>5. /\ indexes = <<>> /\ node_index = 1 /\ node_size = 0 /\ pc = "meta" /\ start = <<>>
      /\ spare = {}
  BY DEF Init
<1>6. NameSeq(start) = <<>>
  BY <1>5, EmptySeq DEF NameSeq
<1> QED
  BY <1>3, <1>4, <1>5, <1>6 DEF Loop!LoopInit

\* The two instances of the loop are one specification.
LEMMA SameLoop ==
  /\ Loop!LoopInit <=> LP!LoopInit
  /\ Loop!LoopNext <=> LP!LoopNext
  /\ Loop!loopVars = LP!loopVars
PROOF
<1>1. Loop!LoopInit <=> LP!LoopInit
  BY DEF Loop!LoopInit, LP!LoopInit, Loop!Name, LP!Name, Loop!Appendix, LP!Appendix
<1>2. Loop!loopVars = LP!loopVars
  BY DEF Loop!loopVars, LP!loopVars
<1>3. Loop!HandOver <=> LP!HandOver
  BY DEF Loop!HandOver, LP!HandOver, Loop!Name, LP!Name, Loop!Appendix, LP!Appendix
<1>4. Loop!Begin <=> LP!Begin
  BY DEF Loop!Begin, LP!Begin, Loop!Reindexed, LP!Reindexed
<1>5. Loop!Abandon <=> LP!Abandon
  BY DEF Loop!Abandon, LP!Abandon, Loop!FusedName, LP!FusedName, Loop!Appendix, LP!Appendix
<1>6. Loop!Replace <=> LP!Replace
  BY DEF Loop!Replace, LP!Replace, Loop!FusedName, LP!FusedName, Loop!Appendix, LP!Appendix,
         Loop!Reindexed, LP!Reindexed, Loop!SwapElements, LP!SwapElements
<1>7. (Loop!Advance <=> LP!Advance) /\ (Loop!End <=> LP!End)
  BY DEF Loop!Advance, LP!Advance, Loop!End, LP!End
<1> QED
  BY <1>1, <1>2, <1>3, <1>4, <1>5, <1>6, <1>7 DEF Loop!LoopNext, LP!LoopNext

\* The invariant of the loop is one of the optimizer.
LEMMA GInvInductive ==
  /\ Init => GInv
  /\ GInv /\ [Next]_vars => GInv'
PROOF
<1>1. Init => GInv
  BY InitSimulates, SameLoop, LP!InitInv DEF GInv
<1>2. ASSUME LP!Inv, [LP!LoopNext]_(LP!loopVars)
      PROVE  LP!Inv'
  BY <1>2, LP!HandOverInv, LP!BeginInv, LP!AbandonInv, LP!ReplaceInv, LP!AdvanceInv, LP!EndInv,
     LP!StutterInv DEF LP!LoopNext
<1>3. GInv /\ [Next]_vars => GInv'
  <2> SUFFICES ASSUME GInv, [Next]_vars
               PROVE  GInv'
    OBVIOUS
  <2>1. Named(graph)' /\ [Loop!LoopNext]_(Loop!loopVars)
    BY StepSimulates
  <2>2. [LP!LoopNext]_(LP!loopVars)
    BY <2>1, SameLoop DEF Loop!loopVars, LP!loopVars
  <2>3. LP!Inv
    BY DEF GInv
  <2>4. LP!Inv'
    BY <1>2, <2>2, <2>3
  <2> QED
    BY <2>1, <2>4 DEF GInv
<1> QED
  BY <1>1, <1>3

\* The optimizer keeps to the loop's specification whatever its rewriters match.
THEOREM OptimizerImplementsLoop == Spec => ImplementsLoop
PROOF
<1>1. Spec => []GInv
  BY GInvInductive, PTL DEF Spec
<1>2. Init => Loop!LoopInit
  BY InitSimulates
<1>3. GInv /\ [Next]_vars => [Loop!LoopNext]_(Loop!loopVars)
  BY StepSimulates
<1> QED
  BY <1>1, <1>2, <1>3, PTL DEF Spec, ImplementsLoop, Loop!LoopSpec

\* node_indexes_ is right about every name it holds: the unguarded lookups of the rewriters
\* never return a node of another name.
THEOREM OptimizerIndexSound == Spec => []IndexSound
PROOF
<1>1. GInv => IndexSound
  BY DEF GInv, LP!Inv, LP!IndexSound, IndexSound, Loop!IndexSound
<1> QED
  BY <1>1, GInvInductive, PTL DEF Spec

\* The optimizer makes no two nodes of one name out of a graph it has not optimized before,
\* the leftovers of abandoned matches apart.
THEOREM OptimizerUniqueNames == Spec => []UniqueNames
PROOF
<1>1. GInv => UniqueNames
  BY DEF GInv, LP!Inv, LP!UniqueNames, UniqueNames, Loop!UniqueNames, LP!Fresh, Loop!Fresh,
         LP!FusedName, Loop!FusedName, LP!Appendix, Loop!Appendix
<1> QED
  BY <1>1, GInvInductive, PTL DEF Spec

------------------------------------------------------------------------------
(* Type correctness. *)

\* What is registered is a rewriter.
LEMMA RegisteredType ==
  ASSUME NEW e
  PROVE  Registered(e) \in Seq(FusedOps)
PROOF
<1>1. \A op \in FusedOps : RegisterRewriter(e, op) \in Seq(FusedOps)
  <2> TAKE op \in FusedOps
  <2> HIDE DEF FusedOps
  <2>1. <<op>> \in Seq(FusedOps) /\ <<>> \in Seq(FusedOps)
    BY EmptySeq
  <2> QED
    BY <2>1 DEF RegisterRewriter
<1>2. \A s, t \in Seq(FusedOps) : s \o t \in Seq(FusedOps)
  BY ConcatProperties
<1> QED
  BY <1>1, <1>2 DEF Registered, FusedOps

TInv ==
  /\ fetch \subseteq Name /\ rewriters \in Seq(FusedOps) /\ rewriter \in Nat \ {0}
  /\ pc \in {"meta", "pruned", "scan"}
  /\ iteration \in 0..Iterations /\ (pc = "pruned" => iteration < Iterations)
  /\ pc = "scan" => indexes = [x \in DOMAIN indexes |-> indexes[x]]
  /\ Named(start) /\ LP!Unreached /\ LP!SpareInStart

\* The variables only the optimizer has.
LEMMA TInvStep == GInv /\ TInv /\ [Next]_vars => TInv'
PROOF
<1> SUFFICES ASSUME GInv, TInv, [Next]_vars
             PROVE  TInv'
  OBVIOUS
<1>1. LP!Unreached' /\ LP!SpareInStart'
  <2>1. [Loop!LoopNext]_(Loop!loopVars)
    BY StepSimulates
  <2>2. [LP!LoopNext]_(LP!loopVars)
    BY <2>1, SameLoop DEF Loop!loopVars, LP!loopVars
  <2>3. LP!Inv /\ LP!Unreached /\ LP!SpareInStart
    BY DEF GInv, TInv
  <2> QED
    BY <2>2, <2>3, LP!UnreachedStep
<1>2. Named(start)'
  BY DEF GInv, TInv, Named, Next, vars, Prune, RunGraphOptimization, NoRewrite, AbandonRewrite,
         Rewrite, NextNode, Finish, Optimized
<1>3. rewriters' \in Seq(FusedOps)
  BY RegisteredType DEF TInv, Next, vars, Prune, RunGraphOptimization, NoRewrite, AbandonRewrite,
         Rewrite, NextNode, Finish, Optimized
<1>4. (pc = "scan" => indexes = [x \in DOMAIN indexes |-> indexes[x]])'
  <2>0. \A s, ix : Reindexed(s, ix) = [x \in DOMAIN Reindexed(s, ix) |-> Reindexed(s, ix)[x]]
    BY DEF Reindexed
  <2>1. CASE RunGraphOptimization
    BY <2>0, <2>1 DEF RunGraphOptimization, FirstIndexes, UpdateNodeIndexes
  <2>2. CASE Rewrite
    <3>1. PICK g : indexes' = Reindexed(g, indexes)
      BY <2>2 DEF Rewrite, UpdateNodeIndexes
    <3> QED
      BY <2>0, <3>1
  <2>3. CASE Prune \/ NoRewrite \/ AbandonRewrite \/ NextNode \/ Finish \/ Optimized
             \/ UNCHANGED vars
    BY <2>3 DEF TInv, vars, Prune, NoRewrite, AbandonRewrite, NextNode, Finish, Optimized
  <2> QED
    BY <2>1, <2>2, <2>3 DEF Next
<1>5. /\ fetch' \subseteq Name /\ rewriter' \in Nat \ {0} /\ pc' \in {"meta", "pruned", "scan"}
      /\ iteration' \in 0..Iterations /\ (pc' = "pruned" => iteration' < Iterations)
  BY IterationsAssumption DEF TInv, Next, vars, Prune, RunGraphOptimization, NoRewrite,
     AbandonRewrite, Rewrite, NextNode, Finish, Optimized
<1> QED
  BY <1>1, <1>2, <1>3, <1>4, <1>5 DEF TInv

\* Before the meta optimizer runs.
LEMMA TInvInit == Init => TInv
PROOF
<1> SUFFICES ASSUME Init
             PROVE  TInv
  OBVIOUS
<1>1. PICK item \in Items : fetch = item.fetch
  BY DEF Init
<1>2. fetch \subseteq Name
  BY <1>1, ItemsAssumption
<1>3. <<>> \in Seq(FusedOps) /\ Named(<<>>)
  <2>1. <<>> \in Seq({})
    BY EmptySeq
  <2> QED
    BY <2>1, EmptySeq DEF Named
<1>4. LP!Unreached /\ LP!SpareInStart
  BY DEF Init, LP!Unreached, LP!SpareInStart
<1> QED
  BY <1>2, <1>3, <1>4, IterationsAssumption DEF Init, TInv

\* The optimizer's state is what TypeOK says, for every graph, environment and number of
\* iterations: the loop's counters, the index into the graph, and that a rewriter can only have
\* given up on a node of the graph the pass was given.
THEOREM OptimizerTypeCorrect == Spec => []TypeOK
PROOF
<1>1. ASSUME GInv, TInv
      PROVE  TypeOK
  <2>1. PICK S : graph \in Seq(S) /\ \A x \in S : x.name \in Name
    BY <1>1 DEF GInv, Named
  <2>2. Len(NameSeq(graph)) = Len(graph) /\ DOMAIN graph = 1..Len(graph)
        /\ \A i \in 1..Len(graph) : graph[i].name \in Name
    BY <2>1, NameSeqFacts, LenProperties, ElementOfSeq
  <2>3. NamesOf(graph) \subseteq Name
    BY <2>2 DEF NamesOf
  <2>4. PICK T : start \in Seq(T) /\ \A x \in T : x.name \in Name
    BY <1>1 DEF TInv, Named
  <2>5. NameSeq(start) \in Seq(Name) /\ Len(NameSeq(start)) = Len(start)
        /\ \A i \in 1..Len(start) : NameSeq(start)[i] = start[i].name
    BY <2>4, NameSeqFacts
  <2>6. DOMAIN NameSeq(start) = 1..Len(start) /\ DOMAIN start = 1..Len(start)
    BY <2>4, <2>5, LenProperties
  <2>7. spare \subseteq NamesOf(start)
    BY <1>1, <2>5, <2>6 DEF TInv, LP!SpareInStart, LP!NamesIn, NamesOf
  <2>8. pc = "scan" => indexes \in [DOMAIN indexes -> 1..Len(graph)]
    BY <1>1, <2>2 DEF TInv, GInv, LP!Inv, LP!IndexSound
  <2>9. node_index \in Nat \ {0} /\ node_size \in Nat
    BY <1>1 DEF GInv, LP!Inv, LP!LoopTypeOK
  <2> QED
    BY <1>1, <2>3, <2>7, <2>8, <2>9 DEF TInv, TypeOK
<1> QED
  BY <1>1, GInvInductive, TInvInit, TInvStep, PTL DEF Spec
------------------------------------------------------------------------------
(* Termination. *)

\* The inner loop tries the rewriters one after the other and none behind the last.
TryInv == TInv /\ (pc = "scan" => rewriter <= Len(rewriters) + 1)

\* Each of the ten rewriters is registered once or not at all.
LEMMA TryInvInductive ==
  /\ Init => TryInv
  /\ GInv /\ TryInv /\ [Next]_vars => TryInv'
PROOF
<1>1. Init => TryInv
  BY TInvInit DEF TryInv, Init
<1>2. ASSUME GInv, TryInv, [Next]_vars
      PROVE  TryInv'
  <2>1. TInv'
    BY <1>2, TInvStep DEF TryInv
  <2>2. Len(rewriters) \in Nat /\ Len(rewriters') \in Nat
    BY <1>2, <2>1, LenProperties DEF TryInv, TInv
  <2>3. (pc = "scan" => rewriter <= Len(rewriters) + 1)'
    BY <1>2, <2>2 DEF TryInv, TInv, Next, vars, Prune, RunGraphOptimization, NoRewrite,
       AbandonRewrite, Rewrite, NextNode, Finish, Optimized, Trying
  <2> QED
    BY <2>1, <2>3 DEF TryInv
<1> QED
  BY <1>1, <1>2

\* A match moves the loop forward.
LEMMA RewriteProgresses == GInv /\ Rewrite => node_index' > node_index /\ node_index' \in Nat
PROOF
<1> SUFFICES ASSUME GInv, Rewrite
             PROVE  node_index' > node_index /\ node_index' \in Nat
  OBVIOUS
<1>1. Loop!Replace
  BY ReplaceStep
<1>2. LP!Replace
  BY <1>1 DEF Loop!Replace, LP!Replace, Loop!FusedName, LP!FusedName, Loop!Appendix, LP!Appendix,
         Loop!Reindexed, LP!Reindexed, Loop!SwapElements, LP!SwapElements
<1>3. node_index' > node_index
  BY <1>2, LP!ReplaceProgresses DEF GInv
<1>4. node_index' \in Nat \ {0}
  BY GInvInductive DEF GInv, LP!Inv, LP!LoopTypeOK, Next
<1> QED
  BY <1>3, <1>4

\* What is left of a pass are natural numbers.
LeftType ==
  /\ Phase \in Nat /\ NodesLeft \in Nat /\ RewritersLeft \in Nat
  /\ node_index \in Nat \ {0} /\ node_size \in Nat /\ rewriter \in Nat \ {0}
  /\ Len(rewriters) \in Nat /\ iteration \in Nat /\ Iterations \in Nat

\* By the invariants of the loops.
LEMMA LeftTyped == GInv /\ TryInv => LeftType
PROOF
<1> SUFFICES ASSUME GInv, TryInv
             PROVE  LeftType
  OBVIOUS
<1>1. /\ node_index \in Nat \ {0} /\ node_size \in Nat /\ rewriter \in Nat \ {0}
      /\ Len(rewriters) \in Nat /\ iteration \in Nat /\ Iterations \in Nat
  BY IterationsAssumption, LenProperties DEF GInv, TryInv, TInv, LP!Inv, LP!LoopTypeOK
<1>2. Phase \in Nat
  BY <1>1 DEF Phase, TryInv, TInv
<1>3. NodesLeft \in Nat
  BY <1>1 DEF NodesLeft
<1>4. RewritersLeft \in Nat
  BY <1>1 DEF RewritersLeft, TryInv
<1> QED
  BY <1>1, <1>2, <1>3, <1>4 DEF LeftType

\* The optimizer comes to an end, for every graph and number of iterations and whatever the
\* rewriters match: every step leaves less to do, although matches make the graph longer.
THEOREM OptimizerTerminates == Spec => Terminates
PROOF
<1> DEFINE Less == /\ Phase' >= 0 /\ NodesLeft' >= 0 /\ RewritersLeft' >= 0
                   /\ \/ Phase' < Phase
                      \/ Phase' = Phase /\ NodesLeft' < NodesLeft
                      \/ Phase' = Phase /\ NodesLeft' = NodesLeft /\ RewritersLeft' < RewritersLeft
<1>1. ASSUME GInv, LeftType, LeftType', Next, vars' # vars
      PROVE  Less
  <2>1. /\ Phase \in Nat /\ NodesLeft \in Nat /\ RewritersLeft \in Nat
        /\ node_index \in Nat \ {0} /\ node_size \in Nat /\ rewriter \in Nat \ {0}
        /\ Len(rewriters) \in Nat /\ iteration \in Nat /\ Iterations \in Nat
    BY <1>1 DEF LeftType
  <2>2. Phase' \in Nat /\ NodesLeft' \in Nat /\ RewritersLeft' \in Nat
    BY <1>1 DEF LeftType
  <2>3. CASE Prune \/ RunGraphOptimization \/ Finish
    <3>1. Phase' < Phase
      BY <2>1, <2>3 DEF Phase, Prune, RunGraphOptimization, Finish
    <3> QED
      BY <2>2, <3>1
  <2>4. CASE NextNode
    <3>1. Phase' = Phase
      BY <2>4 DEF Phase, NextNode
    <3>2. NodesLeft' < NodesLeft
      BY <2>1, <2>4 DEF NodesLeft, NextNode
    <3> QED
      BY <2>2, <3>1, <3>2
  <2>5. CASE Rewrite
    <3>1. Phase' = Phase
      BY <2>5 DEF Phase, Rewrite
    <3>2. NodesLeft' < NodesLeft
      BY <1>1, <2>1, <2>5, RewriteProgresses DEF NodesLeft, Rewrite, Trying
    <3> QED
      BY <2>2, <3>1, <3>2
  <2>6. CASE NoRewrite \/ AbandonRewrite
    <3>1. Phase' = Phase /\ NodesLeft' = NodesLeft
      BY <2>6 DEF Phase, NodesLeft, NoRewrite, AbandonRewrite
    <3>2. RewritersLeft' < RewritersLeft
      BY <2>1, <2>6 DEF RewritersLeft, NoRewrite, AbandonRewrite, Trying
    <3> QED
      BY <2>2, <3>1, <3>2
  <2>7. ~Optimized
    BY <1>1 DEF Optimized, vars
  <2> QED
    BY <1>1, <2>3, <2>4, <2>5, <2>6, <2>7 DEF Next
<1>2. Init => GInv /\ TryInv
  BY GInvInductive, TryInvInductive
<1>3. GInv /\ TryInv /\ [Next]_vars => (GInv /\ TryInv)'
  BY GInvInductive, TryInvInductive
<1>4. GInv /\ LeftType /\ LeftType' /\ [Next]_vars => [Less]_vars
  BY <1>1
<1> QED
  BY <1>2, <1>3, <1>4, LeftTyped, PTL DEF Spec, Terminates

------------------------------------------------------------------------------
(* The inputs. *)

Reference == [n : Name, p : Nat \cup {Control}]

\* A node as TensorFlow accepts it.
NodeOK(nd) == nd.name \in Name /\ nd.in \in Seq(Reference) /\ Declared(nd)

\* The nodes of a view and their inputs.
Nodes(v) == {v.nodes[i] : i \in DOMAIN v.nodes}
Refs(v) == UNION {{nd.in[j] : j \in DOMAIN nd.in} : nd \in Nodes(v)}

\* get_node is defined on every input of every node.
ViewOK(v) ==
  /\ v.nodes \in Seq(Nodes(v))
  /\ \A nd \in Nodes(v) : NodeOK(nd)
  /\ \A r \in Refs(v) : r.n \in DOMAIN v.at
  /\ \A n \in DOMAIN v.at : v.at[n] \in DOMAIN v.nodes

\* What a rewriter adds: its inputs are inputs of nodes it has seen, and it replaces no more
\* tensors than the fused op has outputs.
DrawnFrom(v, op, out) ==
  out.kind # "none" =>
    /\ out.in \in Seq(Refs(v))
    /\ \E m \in Nat : DOMAIN out.old = 1..m /\ \A nd : nd.op = op => m <= OutputCount(nd)

------------------------------------------------------------------------------
(* The helpers of PatternRewriter. *)

\* An input of a node, counted from one.
LEMMA InputRef ==
  ASSUME NEW v, ViewOK(v), NEW nd \in Nodes(v), NEW k \in 1..Len(nd.in)
  PROVE  nd.in[k] \in Refs(v)
PROOF
<1>1. nd.in \in Seq(Reference)
  BY DEF ViewOK, NodeOK
<1>2. k \in DOMAIN nd.in
  BY <1>1, LenProperties
<1> QED
  BY <1>2 DEF Refs

\* get_node(node->input(k)) is a node of the graph.
LEMMA ArgNode ==
  ASSUME NEW v, ViewOK(v), NEW nd \in Nodes(v), NEW k \in Nat, k < Len(nd.in)
  PROVE  Arg(v, nd, k) \in Nodes(v)
PROOF
<1>1. nd.in \in Seq(Reference) /\ Len(nd.in) \in Nat
  BY LenProperties DEF ViewOK, NodeOK
<1>2. k + 1 \in 1..Len(nd.in)
  BY <1>1
<1>3. nd.in[k + 1] \in Refs(v)
  BY <1>2, InputRef
<1> QED
  BY <1>3 DEF Arg, GetNode, ViewOK, Nodes

\* get_operand returns a node of the graph with the op asked for, if it returns one.
LEMMA OperandNode ==
  ASSUME NEW v, ViewOK(v), NEW nd \in Nodes(v), NEW op, GetOperand(v, nd, op) # NoNode
  PROVE  GetOperand(v, nd, op) \in Nodes(v) /\ GetOperand(v, nd, op).op = op
PROOF
<1> DEFINE fits == {k \in DOMAIN nd.in : Known(v, nd.in[k]) /\ GetNode(v, nd.in[k]).op = op}
           first == CHOOSE k \in fits : \A j \in fits : k <= j
<1>1. fits # {} /\ GetOperand(v, nd, op) = GetNode(v, nd.in[first])
  BY DEF GetOperand
<1>2. nd.in \in Seq(Reference) /\ Len(nd.in) \in Nat /\ DOMAIN nd.in = 1..Len(nd.in)
  BY LenProperties DEF ViewOK, NodeOK
<1>3. first \in fits
  <2>1. fits \in SUBSET (1..Len(nd.in))
    BY <1>2
  <2> HIDE DEF fits
  <2>2. \E k \in fits : \A j \in fits : k <= j
    BY <1>1, <1>2, <2>1, Positions!FirstExists
  <2> QED
    BY <2>2
<1>4. Known(v, nd.in[first]) /\ GetNode(v, nd.in[first]).op = op
  BY <1>3
<1> HIDE DEF first
<1> QED
  BY <1>1, <1>4 DEF Known, GetNode, ViewOK, Nodes

\* get_user returns a node of the graph with the op asked for, if it returns one.
LEMMA UserNode ==
  ASSUME NEW v, ViewOK(v), NEW nd, NEW op, GetUser(v, nd, op) # NoNode
  PROVE  GetUser(v, nd, op) \in Nodes(v) /\ GetUser(v, nd, op).op = op
PROOF
<1> DEFINE reads(i) == \E k \in DOMAIN v.nodes[i].in :
                         v.nodes[i].in[k] = [n |-> nd.name, p |-> 0]
           fits == {i \in DOMAIN v.nodes : v.nodes[i].op = op /\ reads(i)}
           first == CHOOSE i \in fits : \A j \in fits : i <= j
<1>1. fits # {} /\ GetUser(v, nd, op) = v.nodes[first]
  BY DEF GetUser
<1> HIDE DEF reads
<1>2. Len(v.nodes) \in Nat /\ DOMAIN v.nodes = 1..Len(v.nodes)
  BY LenProperties DEF ViewOK
<1>3. first \in fits
  <2>1. fits \in SUBSET (1..Len(v.nodes))
    BY <1>2
  <2> HIDE DEF fits
  <2>2. \E k \in fits : \A j \in fits : k <= j
    BY <1>1, <1>2, <2>1, Positions!FirstExists
  <2> QED
    BY <2>2
<1>4. first \in DOMAIN v.nodes /\ v.nodes[first].op = op
  BY <1>3
<1> HIDE DEF first
<1> QED
  BY <1>1, <1>4 DEF Nodes

\* The constant operand, if there is one, is an input.
LEMMA ConstRef ==
  ASSUME NEW v, ViewOK(v), NEW nd \in Nodes(v), Len(nd.in) = 2, ConstOperand(v, nd) # NoRef
  PROVE  ConstOperand(v, nd) \in Refs(v)
PROOF
<1>1. nd.in[1] \in Refs(v) /\ nd.in[2] \in Refs(v)
  BY InputRef
<1> QED
  BY <1>1 DEF ConstOperand
------------------------------------------------------------------------------
(* What a node of an arity the rewriters ask for is fed by. *)

\* A node with one input.
LEMMA OneInput ==
  ASSUME NEW v, ViewOK(v), NEW nd \in Nodes(v), Len(nd.in) = 1
  PROVE  /\ nd.in[1] \in Refs(v)
         /\ Arg(v, nd, 0) \in Nodes(v)
PROOF
<1>1. \A k \in 1..1 : nd.in[k] \in Refs(v)
  BY InputRef, Zenon
<1>2. ASSUME NEW k \in 0..0 PROVE Arg(v, nd, k) \in Nodes(v)
  <2>1. k \in Nat /\ k < Len(nd.in)
    OBVIOUS
  <2> QED
    BY <2>1, ArgNode, Zenon
<1> QED
  BY <1>1, <1>2

\* A node with two inputs.
LEMMA TwoInputs ==
  ASSUME NEW v, ViewOK(v), NEW nd \in Nodes(v), Len(nd.in) = 2
  PROVE  /\ nd.in[1] \in Refs(v) /\ nd.in[2] \in Refs(v)
         /\ Arg(v, nd, 0) \in Nodes(v)
         /\ Arg(v, nd, 1) \in Nodes(v)
PROOF
<1>1. \A k \in 1..2 : nd.in[k] \in Refs(v)
  BY InputRef, Zenon
<1>2. ASSUME NEW k \in 0..1 PROVE Arg(v, nd, k) \in Nodes(v)
  <2>1. k \in Nat /\ k < Len(nd.in)
    OBVIOUS
  <2> QED
    BY <2>1, ArgNode, Zenon
<1> QED
  BY <1>1, <1>2

\* A node with three inputs.
LEMMA ThreeInputs ==
  ASSUME NEW v, ViewOK(v), NEW nd \in Nodes(v), Len(nd.in) = 3
  PROVE  /\ nd.in[1] \in Refs(v) /\ nd.in[2] \in Refs(v) /\ nd.in[3] \in Refs(v)
         /\ Arg(v, nd, 0) \in Nodes(v)
         /\ Arg(v, nd, 1) \in Nodes(v)
         /\ Arg(v, nd, 2) \in Nodes(v)
PROOF
<1>1. \A k \in 1..3 : nd.in[k] \in Refs(v)
  BY InputRef, Zenon
<1>2. ASSUME NEW k \in 0..2 PROVE Arg(v, nd, k) \in Nodes(v)
  <2>1. k \in Nat /\ k < Len(nd.in)
    OBVIOUS
  <2> QED
    BY <2>1, ArgNode, Zenon
<1> QED
  BY <1>1, <1>2

\* A node with four inputs.
LEMMA FourInputs ==
  ASSUME NEW v, ViewOK(v), NEW nd \in Nodes(v), Len(nd.in) = 4
  PROVE  /\ nd.in[1] \in Refs(v) /\ nd.in[2] \in Refs(v) /\ nd.in[3] \in Refs(v)
         /\ nd.in[4] \in Refs(v)
         /\ Arg(v, nd, 0) \in Nodes(v)
         /\ Arg(v, nd, 1) \in Nodes(v)
         /\ Arg(v, nd, 2) \in Nodes(v)
         /\ Arg(v, nd, 3) \in Nodes(v)
PROOF
<1>1. \A k \in 1..4 : nd.in[k] \in Refs(v)
  BY InputRef, Zenon
<1>2. ASSUME NEW k \in 0..3 PROVE Arg(v, nd, k) \in Nodes(v)
  <2>1. k \in Nat /\ k < Len(nd.in)
    OBVIOUS
  <2> QED
    BY <2>1, ArgNode, Zenon
<1> QED
  BY <1>1, <1>2

\* A node of an op whose arity the rewriters take for granted.
LEMMA DeclaredInputs ==
  ASSUME NEW v, ViewOK(v), NEW nd \in Nodes(v)
  PROVE  /\ nd.op = "Cast" => nd.in[1] \in Refs(v) /\ Arg(v, nd, 0) \in Nodes(v)
         /\ nd.op = "Reshape" => /\ nd.in[1] \in Refs(v) /\ nd.in[2] \in Refs(v)
                                /\ Arg(v, nd, 0) \in Nodes(v)
         /\ nd.op = "StridedSlice" => nd.in[1] \in Refs(v) /\ nd.in[2] \in Refs(v)
         /\ nd.op = "ParallelDynamicStitch" => Arg(v, nd, 0) \in Nodes(v)
PROOF
<1>1. Declared(nd) /\ Len(nd.in) \in Nat
  BY LenProperties DEF ViewOK, NodeOK
<1>2. ASSUME nd.op = "Cast" PROVE nd.in[1] \in Refs(v) /\ Arg(v, nd, 0) \in Nodes(v)
  <2>1. 1 \in 1..Len(nd.in) /\ 0 < Len(nd.in)
    BY <1>1, <1>2 DEF Declared
  <2> QED
    BY <2>1, InputRef, ArgNode
<1>3. ASSUME nd.op = "Reshape"
      PROVE  nd.in[1] \in Refs(v) /\ nd.in[2] \in Refs(v) /\ Arg(v, nd, 0) \in Nodes(v)
  <2>1. 1 \in 1..Len(nd.in) /\ 2 \in 1..Len(nd.in) /\ 0 < Len(nd.in)
    BY <1>1, <1>3 DEF Declared
  <2> QED
    BY <2>1, InputRef, ArgNode
<1>4. ASSUME nd.op = "StridedSlice" PROVE nd.in[1] \in Refs(v) /\ nd.in[2] \in Refs(v)
  <2>1. 1 \in 1..Len(nd.in) /\ 2 \in 1..Len(nd.in)
    BY <1>1, <1>4 DEF Declared
  <2> QED
    BY <2>1, InputRef
<1>5. ASSUME nd.op = "ParallelDynamicStitch" PROVE Arg(v, nd, 0) \in Nodes(v)
  <2>1. 0 < Len(nd.in)
    BY <1>1, <1>5 DEF Declared
  <2> QED
    BY <2>1, ArgNode
<1> QED
  BY <1>2, <1>3, <1>4, <1>5

------------------------------------------------------------------------------
(* The ten rewriters. *)

\* KPFusedSparseSegmentReduceMatcher: the pattern above the visited slice.
LEMMA SegmentReduceDrawn ==
  ASSUME NEW v, ViewOK(v), NEW node \in Nodes(v)
  PROVE  DrawnFrom(v, "KPFusedSparseSegmentReduce", SparseSegmentReduce(v, node))
PROOF
<1> DEFINE shape  == Arg(v, node, 0)
           reduce == Arg(v, shape, 0)
           cast   == Arg(v, reduce, 2)
           slice  == Arg(v, cast, 0)
           out    == SparseSegmentReduce(v, node)
<1> SUFFICES ASSUME out.kind # "none"
             PROVE  /\ out.in \in Seq(Refs(v))
                    /\ \E m \in Nat : /\ DOMAIN out.old = 1..m
                                      /\ \A nd : nd.op = "KPFusedSparseSegmentReduce" =>
                                                   m <= OutputCount(nd)
  BY DEF DrawnFrom
<1>1. /\ Len(node.in) = 4 /\ Len(shape.in) = 1 /\ Len(reduce.in) = 3 /\ Len(cast.in) = 1
      /\ Len(slice.in) = 4
      /\ out.in = <<reduce.in[1], reduce.in[2], slice.in[1], slice.in[2], node.in[2]>>
      /\ out.old = <<Out(reduce, 0), Out(node, 0)>>
  BY DEF SparseSegmentReduce, NoMatch, Fused, FusedWith, Is
<1> HIDE DEF out, shape, reduce, cast, slice
<1>2. shape \in Nodes(v)
  BY <1>1, FourInputs DEF shape
<1>3. reduce \in Nodes(v)
  BY <1>1, <1>2, OneInput DEF reduce
<1>4. cast \in Nodes(v)
  BY <1>1, <1>3, ThreeInputs DEF cast
<1>5. slice \in Nodes(v)
  BY <1>1, <1>4, OneInput DEF slice
<1>6. /\ reduce.in[1] \in Refs(v) /\ reduce.in[2] \in Refs(v) /\ slice.in[1] \in Refs(v)
      /\ slice.in[2] \in Refs(v) /\ node.in[2] \in Refs(v)
  BY <1>1, <1>3, <1>5, ThreeInputs, FourInputs
<1>7. out.in \in Seq(Refs(v))
  BY <1>1, <1>6
<1>8. DOMAIN out.old = 1..2
  BY <1>1
<1>9. \A nd : nd.op = "KPFusedSparseSegmentReduce" => 2 <= OutputCount(nd)
  BY DEF OutputCount
<1> QED
  BY <1>7, <1>8, <1>9

\* Two branches above the visited SparseReshape.
LEMMA SparseReshapeDrawn ==
  ASSUME NEW v, ViewOK(v), NEW node \in Nodes(v)
  PROVE  DrawnFrom(v, "KPFusedSparseReshape", SparseReshape(v, node))
PROOF
<1> DEFINE concat  == Arg(v, node, 0)
           reshape == Arg(v, concat, 1)
           slice   == Arg(v, reshape, 0)
           cast    == Arg(v, node, 1)
           pack    == Arg(v, cast, 0)
           slice1  == Arg(v, pack, 0)
           shape   == Arg(v, slice1, 0)
           out     == SparseReshape(v, node)
<1> SUFFICES ASSUME out.kind # "none"
             PROVE  /\ out.in \in Seq(Refs(v))
                    /\ \E m \in Nat : /\ DOMAIN out.old = 1..m
                                      /\ \A nd : nd.op = "KPFusedSparseReshape" =>
                                                   m <= OutputCount(nd)
  BY DEF DrawnFrom
<1>1. /\ Len(node.in) = 3 /\ Len(concat.in) = 3 /\ Len(reshape.in) = 2 /\ Len(slice.in) = 4
      /\ Len(cast.in) = 1 /\ Len(pack.in) = 2 /\ Len(slice1.in) = 4 /\ Len(shape.in) = 1
      /\ out.in = <<shape.in[1], slice.in[2], node.in[3], pack.in[2]>>
      /\ out.old = <<Out(node, 0), Out(node, 1)>>
  BY DEF SparseReshape, NoMatch, Fused, FusedWith, Is, IsConcat
<1> HIDE DEF out, concat, reshape, slice, cast, pack, slice1, shape
<1>2. concat \in Nodes(v)
  BY <1>1, ThreeInputs DEF concat
<1>3. reshape \in Nodes(v)
  BY <1>1, <1>2, ThreeInputs DEF reshape
<1>4. slice \in Nodes(v)
  BY <1>1, <1>3, TwoInputs DEF slice
<1>5. cast \in Nodes(v)
  BY <1>1, ThreeInputs DEF cast
<1>6. pack \in Nodes(v)
  BY <1>1, <1>5, OneInput DEF pack
<1>7. slice1 \in Nodes(v)
  BY <1>1, <1>6, TwoInputs DEF slice1
<1>8. shape \in Nodes(v)
  BY <1>1, <1>7, FourInputs DEF shape
<1>9. /\ shape.in[1] \in Refs(v) /\ slice.in[2] \in Refs(v) /\ node.in[3] \in Refs(v)
      /\ pack.in[2] \in Refs(v)
  BY <1>1, <1>8, <1>4, <1>6, OneInput, FourInputs, ThreeInputs, TwoInputs
<1>10. out.in \in Seq(Refs(v))
  BY <1>1, <1>9
<1>11. DOMAIN out.old = 1..2
  BY <1>1
<1>12. \A nd : nd.op = "KPFusedSparseReshape" => 2 <= OutputCount(nd)
  BY DEF OutputCount
<1> QED
  BY <1>10, <1>11, <1>12

\* Two branches above the visited concatenation.
LEMMA ActionIdDrawn ==
  ASSUME NEW v, ViewOK(v), NEW node \in Nodes(v)
  PROVE  DrawnFrom(v, "KPFusedEmbeddingActionIdGather", EmbeddingActionIdGather(v, node))
PROOF
<1> DEFINE reshape == Arg(v, node, 0)
           gather  == Arg(v, reshape, 0)
           gather1 == Arg(v, gather, 0)
           fill    == Arg(v, node, 1)
           pack    == Arg(v, fill, 0)
           out     == EmbeddingActionIdGather(v, node)
<1> SUFFICES ASSUME out.kind # "none"
             PROVE  /\ out.in \in Seq(Refs(v))
                    /\ \E m \in Nat : /\ DOMAIN out.old = 1..m
                                      /\ \A nd : nd.op = "KPFusedEmbeddingActionIdGather" =>
                                                   m <= OutputCount(nd)
  BY DEF DrawnFrom
<1>1. /\ Len(node.in) = 3 /\ Len(reshape.in) = 2 /\ Len(gather.in) = 3
      /\ Len(gather1.in) = 3 /\ Len(fill.in) = 2 /\ Len(pack.in) = 2
      /\ out.in = <<gather1.in[2], gather1.in[1], gather.in[2], pack.in[1], pack.in[2]>>
      /\ out.old = <<Out(node, 0)>>
  BY DEF EmbeddingActionIdGather, NoMatch, Fused, FusedWith, Is, IsConcat
<1> HIDE DEF out, reshape, gather, gather1, fill, pack
<1>2. reshape \in Nodes(v)
  BY <1>1, ThreeInputs DEF reshape
<1>3. gather \in Nodes(v)
  BY <1>1, <1>2, TwoInputs DEF gather
<1>4. gather1 \in Nodes(v)
  BY <1>1, <1>3, ThreeInputs DEF gather1
<1>5. fill \in Nodes(v)
  BY <1>1, ThreeInputs DEF fill
<1>6. pack \in Nodes(v)
  BY <1>1, <1>5, TwoInputs DEF pack
<1>7. /\ gather1.in[2] \in Refs(v) /\ gather1.in[1] \in Refs(v) /\ gather.in[2] \in Refs(v)
      /\ pack.in[1] \in Refs(v) /\ pack.in[2] \in Refs(v)
  BY <1>1, <1>4, <1>3, <1>6, ThreeInputs, TwoInputs
<1>8. out.in \in Seq(Refs(v))
  BY <1>1, <1>7
<1>9. DOMAIN out.old = 1..1
  BY <1>1
<1>10. \A nd : nd.op = "KPFusedEmbeddingActionIdGather" => 1 <= OutputCount(nd)
  BY DEF OutputCount
<1> QED
  BY <1>8, <1>9, <1>10

\* The slice is found below a user of Where, which get_user looks for in the whole graph.
LEMMA NonzeroDrawn ==
  ASSUME NEW v, ViewOK(v), NEW node \in Nodes(v)
  PROVE  DrawnFrom(v, "KPFusedSparseSegmentReduceNonzero", SparseSegmentReduceNonzero(v, node))
PROOF
<1> DEFINE reduce == Arg(v, node, 0)
           where  == Arg(v, node, 1)
           cast   == GetUser(v, where, "Cast")
           slice  == Arg(v, cast, 0)
           shape  == GetUser(v, reduce, "Shape")
           cast2  == GetUser(v, shape, "Cast")
           out    == SparseSegmentReduceNonzero(v, node)
<1> SUFFICES ASSUME out.kind # "none"
             PROVE  /\ out.in \in Seq(Refs(v))
                    /\ \E m \in Nat : /\ DOMAIN out.old = 1..m
                                      /\ \A nd : nd.op = "KPFusedSparseSegmentReduceNonzero" =>
                                                   m <= OutputCount(nd)
  BY DEF DrawnFrom
<1>1. /\ Len(node.in) = 2 /\ Len(reduce.in) = 3 /\ Len(where.in) = 1 /\ cast # NoNode
      /\ Len(slice.in) = 4 /\ shape # NoNode /\ cast2 # NoNode
      /\ out.in = <<reduce.in[1], reduce.in[2], slice.in[1], slice.in[2]>>
      /\ out.old = <<Out(cast2, 0), Out(cast, 0), Out(node, 0)>>
  BY DEF SparseSegmentReduceNonzero, NoMatch, Fused, FusedWith, Is
<1> HIDE DEF out, reduce, where, cast, slice, shape, cast2
<1>2. reduce \in Nodes(v)
  BY <1>1, TwoInputs DEF reduce
<1>3. where \in Nodes(v)
  BY <1>1, TwoInputs DEF where
<1>4. cast \in Nodes(v) /\ cast.op = "Cast"
  BY <1>1, <1>3, UserNode DEF cast
<1>5. slice \in Nodes(v)
  BY <1>1, <1>4, DeclaredInputs DEF slice
<1>6. /\ reduce.in[1] \in Refs(v) /\ reduce.in[2] \in Refs(v) /\ slice.in[1] \in Refs(v)
      /\ slice.in[2] \in Refs(v)
  BY <1>1, <1>2, <1>5, ThreeInputs, FourInputs
<1>7. out.in \in Seq(Refs(v))
  BY <1>1, <1>6
<1>8. DOMAIN out.old = 1..3
  BY <1>1
<1>9. \A nd : nd.op = "KPFusedSparseSegmentReduceNonzero" => 3 <= OutputCount(nd)
  BY DEF OutputCount
<1> QED
  BY <1>7, <1>8, <1>9

\* The slice has the inputs its op declares; Gather does not count them.
LEMMA GatherDrawn ==
  ASSUME NEW v, ViewOK(v), NEW node \in Nodes(v)
  PROVE  DrawnFrom(v, "KPFusedGather", Gather(v, node))
PROOF
<1> DEFINE gather  == Arg(v, node, 0)
           unique  == Arg(v, node, 1)
           unique1 == Arg(v, unique, 0)
           slice   == Arg(v, unique1, 0)
           out     == Gather(v, node)
<1> SUFFICES ASSUME out.kind # "none"
             PROVE  /\ out.in \in Seq(Refs(v))
                    /\ \E m \in Nat : /\ DOMAIN out.old = 1..m
                                      /\ \A nd : nd.op = "KPFusedGather" =>
                                                   m <= OutputCount(nd)
  BY DEF DrawnFrom
<1>1. /\ Len(node.in) = 3 /\ Len(gather.in) = 3 /\ Len(unique.in) = 1
      /\ Len(unique1.in) = 1 /\ slice.op = "StridedSlice"
      /\ out.in = <<gather.in[1], slice.in[1], slice.in[2]>>
      /\ out.old = <<Out(unique1, 0), Out(unique1, 1), Out(node, 0)>>
  BY DEF Gather, NoMatch, Fused, FusedWith, Is
<1> HIDE DEF out, gather, unique, unique1, slice
<1>2. gather \in Nodes(v)
  BY <1>1, ThreeInputs DEF gather
<1>3. unique \in Nodes(v)
  BY <1>1, ThreeInputs DEF unique
<1>4. unique1 \in Nodes(v)
  BY <1>1, <1>3, OneInput DEF unique1
<1>5. slice \in Nodes(v)
  BY <1>1, <1>4, OneInput DEF slice
<1>6. /\ gather.in[1] \in Refs(v) /\ slice.in[1] \in Refs(v) /\ slice.in[2] \in Refs(v)
  BY <1>1, <1>2, <1>5, ThreeInputs, DeclaredInputs
<1>7. out.in \in Seq(Refs(v))
  BY <1>1, <1>6
<1>8. DOMAIN out.old = 1..3
  BY <1>1
<1>9. \A nd : nd.op = "KPFusedGather" => 3 <= OutputCount(nd)
  BY DEF OutputCount
<1> QED
  BY <1>7, <1>8, <1>9

\* The tail of the two padding rewriters, which may abandon the match.
LEMMA PaddingTailDrawn ==
  ASSUME NEW v, ViewOK(v), NEW in \in Seq(Refs(v)), NEW pack \in Nodes(v), Len(pack.in) = 2,
         NEW old, DOMAIN old = 1..2,
         NEW op \in {"KPFusedEmbeddingPadding", "KPFusedEmbeddingPaddingFast"}
  PROVE  DrawnFrom(v, op, PaddingTail(v, in, pack, old))
PROOF
<1> DEFINE const == ConstOperand(v, pack)
<1>1. \A nd : nd.op = op => 0 <= OutputCount(nd) /\ 2 <= OutputCount(nd)
  BY DEF OutputCount
<1>2. CASE const = NoRef
  <2>1. PaddingTail(v, in, pack, old) = Half(in)
    BY <1>2 DEF PaddingTail
  <2>2. DOMAIN Half(in).old = 1..0 /\ Half(in).in = in
    BY DEF Half
  <2> QED
    BY <1>1, <2>1, <2>2 DEF DrawnFrom
<1>3. CASE const # NoRef
  <2>1. const \in Refs(v)
    BY <1>3, ConstRef
  <2> HIDE DEF const
  <2>2. Append(in, const) \in Seq(Refs(v))
    BY <2>1, AppendProperties
  <2>3. PaddingTail(v, in, pack, old) = Fused(Append(in, const), old)
    BY <1>3 DEF PaddingTail, const
  <2>4. Fused(Append(in, const), old).in = Append(in, const)
        /\ Fused(Append(in, const), old).old = old
    BY DEF Fused, FusedWith
  <2> QED
    BY <1>1, <2>2, <2>3, <2>4 DEF DrawnFrom
<1> QED
  BY <1>2, <1>3

\* Pack and Sub are looked for among the operands.
LEMMA PaddingDrawn ==
  ASSUME NEW v, ViewOK(v), NEW node \in Nodes(v)
  PROVE  DrawnFrom(v, "KPFusedEmbeddingPadding", EmbeddingPadding(v, node))
PROOF
<1> DEFINE concat == Arg(v, node, 0)
           fill   == Arg(v, concat, 1)
           pack   == GetOperand(v, fill, "Pack")
           sub    == GetOperand(v, pack, "Sub")
           slice  == Arg(v, sub, 0)
           cast   == Arg(v, slice, 0)
           in     == <<cast.in[1], concat.in[1], sub.in[2], node.in[2]>>
           old    == <<Out(sub, 0), Out(node, 0)>>
           out    == EmbeddingPadding(v, node)
<1>1. CASE out = NoMatch
  BY <1>1 DEF DrawnFrom, NoMatch
<1>2. CASE out # NoMatch
  <2>1. /\ node.op = "Reshape" /\ Len(concat.in) = 3 /\ Len(fill.in) = 2
        /\ pack # NoNode /\ Len(pack.in) = 2 /\ sub # NoNode /\ Len(sub.in) = 2
        /\ Len(slice.in) = 4 /\ cast.op = "Cast"
        /\ out = PaddingTail(v, in, pack, old)
    BY <1>2 DEF EmbeddingPadding, Is, IsConcat
  <2> HIDE DEF out, cast, slice, sub, pack, fill, concat
  <2>2. concat \in Nodes(v) /\ node.in[2] \in Refs(v)
    BY <2>1, DeclaredInputs DEF concat
  <2>3. fill \in Nodes(v) /\ concat.in[1] \in Refs(v)
    BY <2>1, <2>2, ThreeInputs DEF fill
  <2>4. pack \in Nodes(v)
    BY <2>1, <2>3, OperandNode DEF pack
  <2>5. sub \in Nodes(v)
    BY <2>1, <2>4, OperandNode DEF sub
  <2>6. slice \in Nodes(v) /\ sub.in[2] \in Refs(v)
    BY <2>1, <2>5, TwoInputs DEF slice
  <2>7. cast \in Nodes(v)
    BY <2>1, <2>6, FourInputs DEF cast
  <2>8. cast.in[1] \in Refs(v)
    BY <2>1, <2>7, DeclaredInputs
  <2>9. in \in Seq(Refs(v)) /\ DOMAIN old = 1..2
    BY <2>2, <2>3, <2>6, <2>8
  <2> HIDE DEF in, old
  <2>10. DrawnFrom(v, "KPFusedEmbeddingPadding", PaddingTail(v, in, pack, old))
    BY <2>1, <2>4, <2>9, PaddingTailDrawn
  <2> QED
    BY <2>1, <2>10 DEF out
<1> QED
  BY <1>1, <1>2

\* The same pattern below the visited slice, every operand at its place.
LEMMA PaddingFastDrawn ==
  ASSUME NEW v, ViewOK(v), NEW node \in Nodes(v)
  PROVE  DrawnFrom(v, "KPFusedEmbeddingPaddingFast", EmbeddingPaddingFast(v, node))
PROOF
<1> DEFINE shape   == Arg(v, node, 0)
           reshape == Arg(v, shape, 0)
           concat  == Arg(v, reshape, 0)
           fill    == Arg(v, concat, 1)
           pack    == Arg(v, fill, 0)
           sub     == Arg(v, pack, 0)
           slice   == Arg(v, sub, 0)
           cast    == Arg(v, slice, 0)
           in      == <<cast.in[1], concat.in[1], sub.in[2], reshape.in[2]>>
           old     == <<Out(sub, 0), Out(node, 0)>>
           out     == EmbeddingPaddingFast(v, node)
<1>1. CASE out = NoMatch
  BY <1>1 DEF DrawnFrom, NoMatch
<1>2. CASE out # NoMatch
  <2>1. /\ Len(node.in) = 4 /\ Len(shape.in) = 1 /\ Len(reshape.in) = 2
        /\ Len(concat.in) = 3 /\ Len(fill.in) = 2 /\ Len(pack.in) = 2 /\ Len(sub.in) = 2
        /\ Len(slice.in) = 4 /\ cast.op = "Cast"
        /\ out = PaddingTail(v, in, pack, old)
    BY <1>2 DEF EmbeddingPaddingFast, Is, IsConcat
  <2> HIDE DEF out, cast, slice, sub, pack, fill, concat, reshape, shape
  <2>2. shape \in Nodes(v)
    BY <2>1, FourInputs DEF shape
  <2>3. reshape \in Nodes(v)
    BY <2>1, <2>2, OneInput DEF reshape
  <2>4. concat \in Nodes(v) /\ reshape.in[2] \in Refs(v)
    BY <2>1, <2>3, TwoInputs DEF concat
  <2>5. fill \in Nodes(v) /\ concat.in[1] \in Refs(v)
    BY <2>1, <2>4, ThreeInputs DEF fill
  <2>6. pack \in Nodes(v)
    BY <2>1, <2>5, TwoInputs DEF pack
  <2>7. sub \in Nodes(v)
    BY <2>1, <2>6, TwoInputs DEF sub
  <2>8. slice \in Nodes(v) /\ sub.in[2] \in Refs(v)
    BY <2>1, <2>7, TwoInputs DEF slice
  <2>9. cast \in Nodes(v)
    BY <2>1, <2>8, FourInputs DEF cast
  <2>10. cast.in[1] \in Refs(v)
    BY <2>1, <2>9, DeclaredInputs
  <2>11. in \in Seq(Refs(v)) /\ DOMAIN old = 1..2
    BY <2>4, <2>5, <2>8, <2>10
  <2> HIDE DEF in, old
  <2>12. DrawnFrom(v, "KPFusedEmbeddingPaddingFast", PaddingTail(v, in, pack, old))
    BY <2>1, <2>6, <2>11, PaddingTailDrawn
  <2> QED
    BY <2>1, <2>12 DEF out
<1> QED
  BY <1>1, <1>2

\* Either summand may be the product.
LEMMA SigmoidDrawn ==
  ASSUME NEW v, ViewOK(v), NEW node \in Nodes(v)
  PROVE  DrawnFrom(v, "KPFusedBatchMatMulAddSigmoid", BatchMatMulAddSigmoid(v, node))
PROOF
<1> DEFINE add    == Arg(v, node, 0)
           m      == IF IsBatchMatMul(Arg(v, add, 0)) THEN 0 ELSE 1
           matmul == Arg(v, add, m)
           out    == BatchMatMulAddSigmoid(v, node)
<1> SUFFICES ASSUME out.kind # "none"
             PROVE  /\ out.in \in Seq(Refs(v))
                    /\ \E k \in Nat : /\ DOMAIN out.old = 1..k
                                      /\ \A nd : nd.op = "KPFusedBatchMatMulAddSigmoid" =>
                                                   k <= OutputCount(nd)
  BY DEF DrawnFrom
<1>1. /\ Len(node.in) = 1 /\ Len(add.in) = 2 /\ Len(matmul.in) = 2
      /\ out.in = <<matmul.in[1], matmul.in[2], add.in[2 - m]>>
      /\ out.old = <<Out(node, 0)>>
  BY DEF BatchMatMulAddSigmoid, NoMatch, Fused, FusedWith, Is
<1>2. m = 0 \/ m = 1
  OBVIOUS
<1> HIDE DEF out, matmul, m, add
<1>3. add \in Nodes(v)
  BY <1>1, OneInput DEF add
<1>4. matmul \in Nodes(v)
  BY <1>1, <1>2, <1>3, TwoInputs DEF matmul
<1>5. 2 - m = 1 \/ 2 - m = 2
  BY <1>2
<1>6. matmul.in[1] \in Refs(v) /\ matmul.in[2] \in Refs(v) /\ add.in[2 - m] \in Refs(v)
  BY <1>1, <1>3, <1>4, <1>5, TwoInputs
<1>7. out.in \in Seq(Refs(v))
  BY <1>1, <1>6
<1>8. DOMAIN out.old = 1..1
  BY <1>1
<1>9. \A nd : nd.op = "KPFusedBatchMatMulAddSigmoid" => 1 <= OutputCount(nd)
  BY DEF OutputCount
<1> QED
  BY <1>7, <1>8, <1>9

\* What the loops over branches and comparisons have accepted when they stop.
LEMMA Accepted ==
  ASSUME NEW n \in Nat, NEW good \in SUBSET (1..n), \A k \in good : \A j \in 1..k : j \in good
  PROVE  Cardinality(good) \in Nat /\ good = 1..Cardinality(good)
PROOF
<1>1. CASE good = {}
  <2>1. Cardinality(good) = 0 /\ 1..0 = {}
    BY <1>1, FS_EmptySet
  <2> QED
    BY <1>1, <2>1
<1>2. CASE good # {}
  <2>1. PICK x \in good : \A y \in good : y <= x
    BY <1>2, Positions!LastExists
  <2>2. x \in 1..n /\ good = 1..x
    <3>1. x \in 1..n
      OBVIOUS
    <3>2. \A j \in 1..x : j \in good
      OBVIOUS
    <3>3. \A y \in good : y \in 1..n /\ y <= x
      BY <2>1
    <3>4. \A y \in good : y \in 1..x
      BY <3>1, <3>3
    <3> QED
      BY <3>1, <3>2, <3>4
  <2>3. 1 \in Int /\ x \in Int /\ 1 <= x
    BY <2>2
  <2>4. Cardinality(1..x) = x - 1 + 1
    BY <2>3, FS_Interval
  <2> QED
    BY <2>2, <2>3, <2>4
<1> QED
  BY <1>1, <1>2

\* Inputs pushed in a loop.
LEMMA PushedInputs ==
  ASSUME NEW v, NEW s \in Seq(Refs(v)), NEW m \in Nat, NEW pushed,
         pushed = [k \in 1..m |-> pushed[k]], \A k \in 1..m : pushed[k] \in Refs(v)
  PROVE  s \o pushed \in Seq(Refs(v))
PROOF
<1>1. pushed \in [1..m -> Refs(v)]
  OBVIOUS
<1>2. pushed \in Seq(Refs(v))
  BY <1>1, SeqDef
<1> QED
  BY <1>2, ConcatProperties

\* The fused node is fed by the common input and by the table of each branch accepted.
LEMMA StitchDrawn ==
  ASSUME NEW v, ViewOK(v), NEW node \in Nodes(v)
  PROVE  DrawnFrom(v, "KPFusedSparseDynamicStitch", SparseDynamicStitch(v, node))
PROOF
<1> DEFINE inputs == Len(node.in)
           parts == inputs \div 2
           partition == Arg(v, node, 0)
           range == Arg(v, partition, 0)
           size  == Arg(v, range, 1)
           gather(k) == Arg(v, node, parts + k - 1)
           slot(k) == Arg(v, gather(k), 1)
           floorDiv(k) == Arg(v, slot(k), 0)
           rightOK(k) ==
             /\ Is(gather(k), "GatherV2", 3)
             /\ CheckConstValue(Arg(v, gather(k), 2), <<0>>)
             /\ Is(slot(k), "DynamicPartition", 2)
             /\ CheckIntAttr(slot(k), "num_partitions", parts)
             /\ Is(floorDiv(k), "FloorDiv", 2)
             /\ CheckConstValue(Arg(v, floorDiv(k), 1), <<parts>>)
           good == {k \in 1..parts : \A j \in 1..k : rightOK(j)}
           pushed == [k \in 1..Cardinality(good) |-> gather(k).in[1]]
           in == <<size.in[1]>> \o pushed
           out == SparseDynamicStitch(v, node)
<1>1. CASE out = NoMatch
  BY <1>1 DEF DrawnFrom, NoMatch
<1>2. CASE out # NoMatch
  <2>1. /\ node.op = "ParallelDynamicStitch" /\ inputs % 2 = 0
        /\ Len(partition.in) = 2 /\ Len(range.in) = 3 /\ Len(size.in) = 1
        /\ out = Half(in) \/ out = FusedWith(in, <<Out(node, 0)>>, [N |-> parts])
    BY <1>2 DEF SparseDynamicStitch, Is
  <2>2. \A k : rightOK(k) => Len(gather(k).in) = 3
    BY DEF Is
  <2> HIDE DEF out, rightOK, gather, size, range, partition
  <2>3. partition \in Nodes(v)
    BY <2>1, DeclaredInputs DEF partition
  <2>4. range \in Nodes(v)
    BY <2>1, <2>3, TwoInputs DEF range
  <2>5. size \in Nodes(v)
    BY <2>1, <2>4, ThreeInputs DEF size
  <2>6. size.in[1] \in Refs(v)
    BY <2>1, <2>5, OneInput
  <2>7. inputs \in Nat /\ parts \in Nat /\ inputs = 2 * parts
    <3>1. node.in \in Seq(Reference)
      BY DEF ViewOK, NodeOK
    <3>2. inputs \in Nat
      BY <3>1, LenProperties
    <3>3. inputs % 2 = 0
      BY <2>1
    <3> HIDE DEF inputs
    <3> QED
      BY <3>2, <3>3
  <2> HIDE DEF parts, inputs
  <2>8. ASSUME NEW k \in 1..parts, rightOK(k)
        PROVE  gather(k).in[1] \in Refs(v)
    <3>1. parts + k - 1 \in Nat /\ parts + k - 1 < Len(node.in)
      BY <2>7 DEF inputs
    <3>2. gather(k) \in Nodes(v)
      BY <3>1, ArgNode DEF gather
    <3> QED
      BY <2>2, <2>8, <3>2, ThreeInputs
  <2>9. /\ good \in SUBSET (1..parts) /\ \A k \in good : \A j \in 1..k : j \in good
        /\ \A k \in good : rightOK(k)
    BY <2>7
  <2> HIDE DEF good
  <2>10. Cardinality(good) \in Nat /\ good = 1..Cardinality(good)
    BY <2>7, <2>9, Accepted
  <2>11. \A k \in 1..Cardinality(good) : pushed[k] \in Refs(v)
    BY <2>8, <2>9, <2>10
  <2>12. pushed = [k \in 1..Cardinality(good) |-> pushed[k]]
    OBVIOUS
  <2> HIDE DEF pushed
  <2>13. <<size.in[1]>> \in Seq(Refs(v))
    BY <2>6
  <2>14. in \in Seq(Refs(v))
    BY <2>10, <2>11, <2>12, <2>13, PushedInputs
  <2> HIDE DEF in
  <2>15. out.in = in /\ (DOMAIN out.old = 1..0 \/ DOMAIN out.old = 1..1)
    BY <2>1 DEF Half, FusedWith
  <2>16. \A nd : nd.op = "KPFusedSparseDynamicStitch" =>
                   0 <= OutputCount(nd) /\ 1 <= OutputCount(nd)
    BY DEF OutputCount
  <2>17. DrawnFrom(v, "KPFusedSparseDynamicStitch", out)
    BY <2>14, <2>15, <2>16 DEF DrawnFrom
  <2> QED
    BY <2>17 DEF out
<1> QED
  BY <1>1, <1>2

\* The fused node is fed by the compared values and by the constants they are compared with,
\* as far as there are any.
LEMMA SelectDrawn ==
  ASSUME NEW v, ViewOK(v), NEW node \in Nodes(v)
  PROVE  DrawnFrom(v, "KPFusedSparseSelect", SparseSelect(v, node))
PROOF
<1> DEFINE select0 == Arg(v, node, 0)
           select1 == Arg(v, select0, 2)
           cast == Arg(v, select1, 2)
           equal == Arg(v, select1, 0)
           reshape == GetOperand(v, equal, "Reshape")
           greater == Arg(v, cast, 0)
           equal1 == Arg(v, select0, 0)
           reshape1 == GetOperand(v, equal1, "Reshape")
           select2 == Arg(v, node, 1)
           equal2 == Arg(v, select2, 0)
           reshape2 == GetOperand(v, equal2, "Reshape")
           compared == <<equal, equal1, equal2, greater>>
           good == {k \in 1..4 : \A j \in 1..k : ConstOperand(v, compared[j]) # NoRef}
           pushed == [k \in 1..Cardinality(good) |-> ConstOperand(v, compared[k])]
           values == <<reshape.in[1], reshape1.in[1], reshape2.in[1]>>
           in == values \o pushed
           out == SparseSelect(v, node)
<1>1. CASE out = NoMatch
  BY <1>1 DEF DrawnFrom, NoMatch
<1>2. CASE out # NoMatch
  <2>1. /\ Len(node.in) = 3 /\ Len(select0.in) = 3 /\ Len(select1.in) = 3 /\ Len(cast.in) = 1
        /\ Len(equal.in) = 2 /\ reshape # NoNode /\ Len(greater.in) = 2 /\ Len(equal1.in) = 2
        /\ reshape1 # NoNode /\ Len(select2.in) = 3 /\ Len(equal2.in) = 2
        /\ reshape2 # NoNode
    BY <1>2 DEF SparseSelect, Is, IsConcat, IsSelect
  <2>2. \/ out = Half(in)
        \/ out = Fused(in, <<Out(reshape, 0), Out(select0, 0), Out(node, 0)>>)
    BY <1>2 DEF SparseSelect
  <2> HIDE DEF out, select0, select1, cast, equal, reshape, greater, equal1, reshape1, select2,
               equal2, reshape2
  <2>3. select0 \in Nodes(v) /\ select2 \in Nodes(v)
    BY <2>1, ThreeInputs DEF select0, select2
  <2>4. select1 \in Nodes(v) /\ equal1 \in Nodes(v) /\ equal2 \in Nodes(v)
    BY <2>1, <2>3, ThreeInputs DEF select1, equal1, equal2
  <2>5. cast \in Nodes(v) /\ equal \in Nodes(v)
    BY <2>1, <2>4, ThreeInputs DEF cast, equal
  <2>6. greater \in Nodes(v)
    BY <2>1, <2>5, OneInput DEF greater
  <2>7. reshape \in Nodes(v) /\ reshape.op = "Reshape"
    BY <2>1, <2>5, OperandNode DEF reshape
  <2>8. reshape1 \in Nodes(v) /\ reshape1.op = "Reshape"
    BY <2>1, <2>4, OperandNode DEF reshape1
  <2>9. reshape2 \in Nodes(v) /\ reshape2.op = "Reshape"
    BY <2>1, <2>4, OperandNode DEF reshape2
  <2>10. reshape.in[1] \in Refs(v) /\ reshape1.in[1] \in Refs(v) /\ reshape2.in[1] \in Refs(v)
    BY <2>7, <2>8, <2>9, DeclaredInputs
  <2>11. values \in Seq(Refs(v))
    BY <2>10
  <2>12. \A k \in 1..4 : compared[k] \in Nodes(v) /\ Len(compared[k].in) = 2
    <3>1. /\ compared[1] = equal /\ compared[2] = equal1 /\ compared[3] = equal2
          /\ compared[4] = greater
      OBVIOUS
    <3>2. \A k \in 1..4 : k = 1 \/ k = 2 \/ k = 3 \/ k = 4
      OBVIOUS
    <3> HIDE DEF compared
    <3> QED
      BY <2>1, <2>4, <2>5, <2>6, <3>1, <3>2
  <2> HIDE DEF compared, values
  <2>13. /\ good \in SUBSET (1..4) /\ \A k \in good : \A j \in 1..k : j \in good
         /\ \A k \in good : ConstOperand(v, compared[k]) # NoRef
    OBVIOUS
  <2> HIDE DEF good
  <2>14. Cardinality(good) \in Nat /\ good = 1..Cardinality(good)
    BY <2>13, Accepted
  <2>15. \A k \in 1..Cardinality(good) : ConstOperand(v, compared[k]) \in Refs(v)
    BY <2>12, <2>13, <2>14, ConstRef
  <2>16. \A k \in 1..Cardinality(good) : pushed[k] \in Refs(v)
    BY <2>15
  <2>17. pushed = [k \in 1..Cardinality(good) |-> pushed[k]]
    OBVIOUS
  <2> HIDE DEF pushed
  <2>18. in \in Seq(Refs(v))
    BY <2>11, <2>14, <2>16, <2>17, PushedInputs
  <2> HIDE DEF in
  <2>19. out.in = in /\ (DOMAIN out.old = 1..0 \/ DOMAIN out.old = 1..3)
    BY <2>2 DEF Half, Fused, FusedWith
  <2>20. \A nd : nd.op = "KPFusedSparseSelect" => 0 <= OutputCount(nd) /\ 3 <= OutputCount(nd)
    BY DEF OutputCount
  <2>21. DrawnFrom(v, "KPFusedSparseSelect", out)
    BY <2>18, <2>19, <2>20 DEF DrawnFrom
  <2> QED
    BY <2>21 DEF out
<1> QED
  BY <1>1, <1>2

\* Whatever rewriter is called.
LEMMA MatchDrawn ==
  ASSUME NEW v, ViewOK(v), NEW node \in Nodes(v), NEW op \in FusedOps
  PROVE  DrawnFrom(v, op, MatchAndRewrite(op, v, node))
PROOF
<1>1. CASE op = "KPFusedSparseDynamicStitch"
  BY <1>1, StitchDrawn DEF MatchAndRewrite
<1>2. CASE op = "KPFusedSparseSegmentReduce"
  BY <1>2, SegmentReduceDrawn DEF MatchAndRewrite
<1>3. CASE op = "KPFusedSparseSegmentReduceNonzero"
  BY <1>3, NonzeroDrawn DEF MatchAndRewrite
<1>4. CASE op = "KPFusedEmbeddingPadding"
  BY <1>4, PaddingDrawn DEF MatchAndRewrite
<1>5. CASE op = "KPFusedEmbeddingPaddingFast"
  BY <1>5, PaddingFastDrawn DEF MatchAndRewrite
<1>6. CASE op = "KPFusedSparseSelect"
  BY <1>6, SelectDrawn DEF MatchAndRewrite
<1>7. CASE op = "KPFusedGather"
  BY <1>7, GatherDrawn DEF MatchAndRewrite
<1>8. CASE op = "KPFusedSparseReshape"
  BY <1>8, SparseReshapeDrawn DEF MatchAndRewrite
<1>9. CASE op = "KPFusedEmbeddingActionIdGather"
  BY <1>9, ActionIdDrawn DEF MatchAndRewrite
<1>10. CASE op = "KPFusedBatchMatMulAddSigmoid"
  BY <1>10, SigmoidDrawn DEF MatchAndRewrite
<1> QED
  BY <1>1, <1>2, <1>3, <1>4, <1>5, <1>6, <1>7, <1>8, <1>9, <1>10 DEF FusedOps

------------------------------------------------------------------------------
(* What grappler prunes: nothing a node that stays depends on. *)

\* The names found after each round.
ReachBy(f, g, roots, len) ==
  f = [k \in 0..len |-> IF k = 0 THEN roots ELSE f[k - 1] \cup Producers(g, f[k - 1])]

\* The rounds have a solution.
LEMMA ReachExists ==
  ASSUME NEW g, NEW roots, NEW len \in Nat
  PROVE  \E f : ReachBy(f, g, roots, len)
PROOF
<1> DEFINE e(f, k) == IF k = 0 THEN roots ELSE f[k - 1] \cup Producers(g, f[k - 1])
           Long == {m \in 0..len : \E f : ReachBy(f, g, roots, m)}
<1>0. \A f, m : ReachBy(f, g, roots, m) <=> f = [k \in 0..m |-> e(f, k)]
  BY DEF ReachBy
<1>1. 0 \in Long
  <2> DEFINE f == [k \in 0..0 |-> roots]
  <2>1. ReachBy(f, g, roots, 0)
    BY DEF ReachBy
  <2> HIDE DEF f
  <2> QED
    BY <2>1
<1>2. ASSUME NEW m \in 1..len, m - 1 \in Long
      PROVE  m \in Long
  <2>1. PICK f : ReachBy(f, g, roots, m - 1)
    BY <1>2
  <2>2. PICK h : h = [k \in 0..m |-> e(f, k)]
    OBVIOUS
  <2>3. \A k \in 0..m - 1 : k \in 0..m /\ h[k] = f[k]
    <3> HIDE DEF e
    <3> QED
      BY <1>0, <2>1, <2>2
  <2>4. \A k \in 0..m : h[k] = e(h, k)
    <3> TAKE k \in 0..m
    <3>1. k # 0 => k - 1 \in 0..m - 1
      OBVIOUS
    <3> QED
      BY <2>2, <2>3, <3>1
  <2>5. ReachBy(h, g, roots, m)
    <3> HIDE DEF e
    <3> QED
      BY <1>0, <2>2, <2>4
  <2> QED
    BY <2>5
<1> HIDE DEF Long
<1>3. \A k \in 0..len : k \in Long
  BY <1>1, <1>2, Positions!StepByStep
<1>4. len \in Long
  BY <1>3
<1> QED
  BY <1>4 DEF Long

\* A graph has no more names than nodes.
LEMMA NamesFinite ==
  ASSUME NEW S, NEW g \in Seq(S)
  PROVE  IsFiniteSet(NamesOf(g)) /\ Cardinality(NamesOf(g)) <= Len(g)
PROOF
<1>1. Len(g) \in Nat /\ DOMAIN g = 1..Len(g)
  BY LenProperties
<1> DEFINE f == [i \in 1..Len(g) |-> g[i].name]
<1>2. f \in Surjection(1..Len(g), NamesOf(g))
  BY <1>1 DEF Surjection, NamesOf
<1>3. IsFiniteSet(1..Len(g)) /\ Cardinality(1..Len(g)) = Len(g)
  <2>1. 1 \in Int /\ Len(g) \in Int
    BY <1>1
  <2>2. IsFiniteSet(1..Len(g))
    BY <2>1, FS_Interval
  <2>3. Cardinality(1..Len(g)) = IF 1 > Len(g) THEN 0 ELSE Len(g) - 1 + 1
    BY <2>1, FS_Interval
  <2> QED
    BY <1>1, <2>2, <2>3
<1> HIDE DEF f
<1> QED
  BY <1>2, <1>3, FS_Surjection

\* After as many rounds as there are nodes there is nothing more to find: each round before
\* found a name the graph has.
LEMMA LiveClosed ==
  ASSUME NEW S, NEW g \in Seq(S), NEW roots,
         \A i \in DOMAIN g : \A j \in DOMAIN g[i].in : g[i].in[j].n \in NamesOf(g)
  PROVE  Producers(g, LiveNames(g, roots)) \subseteq LiveNames(g, roots)
PROOF
<1> DEFINE len == Len(g)
           N == NamesOf(g)
<1>1. len \in Nat
  BY LenProperties
<1>2. PICK f : ReachBy(f, g, roots, len) /\ LiveNames(g, roots) = f[len]
  <2>1. \E f : ReachBy(f, g, roots, len)
    BY <1>1, ReachExists
  <2> QED
    BY <2>1 DEF LiveNames, ReachBy
<1>3. \A k \in 1..len : f[k] = f[k - 1] \cup Producers(g, f[k - 1])
  <2> DEFINE e(k) == IF k = 0 THEN roots ELSE f[k - 1] \cup Producers(g, f[k - 1])
  <2>1. f = [k \in 0..len |-> e(k)]
    BY <1>2 DEF ReachBy
  <2>2. \A k \in 1..len : k \in 0..len /\ k # 0
    BY <1>1
  <2>3. \A k \in 0..len : f[k] = e(k)
    <3> HIDE DEF e
    <3> QED
      BY <2>1
  <2> QED
    BY <2>2, <2>3
<1>4. \A names : Producers(g, names) \subseteq N
  BY DEF Producers
<1>5. IsFiniteSet(N) /\ Cardinality(N) <= len /\ Cardinality(N) \in Nat
  BY NamesFinite, FS_CardinalityType
<1> HIDE DEF N, len
<1> DEFINE Closed(names) == Producers(g, names) \subseteq names
           Found(k) == f[k] \cap N
<1>6. SUFFICES ASSUME ~Closed(f[len])
               PROVE  FALSE
  BY <1>2
<1>7. \A k \in 0..len : ~Closed(f[len - k])
  <2> DEFINE T == {k \in 0..len : ~Closed(f[len - k])}
  <2>1. 0 \in T
    BY <1>1, <1>6
  <2>2. ASSUME NEW k \in 1..len, k - 1 \in T
        PROVE  k \in T
    <3>1. ~Closed(f[len - (k - 1)])
      BY <2>2
    <3>2. len - k + 1 \in 1..len /\ len - (k - 1) = len - k + 1 /\ (len - k + 1) - 1 = len - k
      BY <1>1
    <3>3. f[len - k + 1] = f[len - k] \cup Producers(g, f[len - k])
      BY <1>3, <3>2
    <3>4. Closed(f[len - k]) => f[len - k + 1] = f[len - k]
      BY <3>3
    <3>5. ~Closed(f[len - k])
      BY <3>1, <3>2, <3>4
    <3>6. k \in 0..len
      BY <1>1
    <3> QED
      BY <3>5, <3>6
  <2> HIDE DEF T
  <2>3. \A k \in 0..len : k \in T
    BY <1>1, <2>1, <2>2, Positions!StepByStep
  <2> QED
    BY <2>3 DEF T
<1>8. \A k \in 0..len : ~Closed(f[k])
  <2> TAKE k \in 0..len
  <2>1. len - k \in 0..len /\ len - (len - k) = k
    BY <1>1
  <2> QED
    BY <1>7, <2>1
<1>9. \A k \in 0..len : \E x \in N : x \in Producers(g, f[k]) /\ x \notin f[k]
  BY <1>4, <1>8
<1> HIDE DEF Closed
<1>10. \A k \in 0..len : IsFiniteSet(Found(k)) /\ Cardinality(Found(k)) \in Nat
  BY <1>5, FS_Intersection, FS_CardinalityType
<1>11. \A k \in 0..len : Cardinality(Found(k)) >= k
  <2> DEFINE T == {k \in 0..len : Cardinality(Found(k)) >= k}
  <2>1. 0 \in T
    <3>1. 0 \in 0..len
      BY <1>1
    <3> HIDE DEF Found
    <3>2. Cardinality(Found(0)) \in Nat
      BY <1>10, <3>1
    <3> QED
      BY <3>1, <3>2
  <2>2. ASSUME NEW k \in 1..len, k - 1 \in T
        PROVE  k \in T
    <3>1. k \in 0..len /\ k - 1 \in 0..len /\ k - 1 \in Nat
      BY <1>1
    <3>2. PICK x \in N : x \in Producers(g, f[k - 1]) /\ x \notin f[k - 1]
      BY <1>9, <3>1
    <3>3. Found(k - 1) \cup {x} \subseteq Found(k) /\ x \notin Found(k - 1)
      BY <1>3, <3>2
    <3> HIDE DEF Found
    <3>4. IsFiniteSet(Found(k)) /\ IsFiniteSet(Found(k - 1))
      BY <1>10, <3>1
    <3>5. Cardinality(Found(k - 1) \cup {x}) = Cardinality(Found(k - 1)) + 1
      BY <3>3, <3>4, FS_AddElement
    <3>6. Cardinality(Found(k - 1) \cup {x}) <= Cardinality(Found(k))
      BY <3>3, <3>4, FS_Subset
    <3>7. Cardinality(Found(k - 1)) >= k - 1
      BY <2>2
    <3>8. Cardinality(Found(k)) \in Nat /\ Cardinality(Found(k - 1)) \in Nat
      BY <1>10, <3>1
    <3>9. Cardinality(Found(k)) >= k
      BY <3>1, <3>5, <3>6, <3>7, <3>8
    <3> QED
      BY <3>1, <3>9
  <2> HIDE DEF T
  <2>3. \A k \in 0..len : k \in T
    BY <1>1, <2>1, <2>2, Positions!StepByStep
  <2> QED
    BY <2>3 DEF T
<1>12. len \in 0..len
  BY <1>1
<1>13. PICK x \in N : x \notin f[len]
  BY <1>9, <1>12
<1>14. Found(len) \subseteq N /\ Found(len) # N
  BY <1>13
<1> HIDE DEF Found
<1>15. Cardinality(Found(len)) <= Cardinality(N) /\ Cardinality(Found(len)) # Cardinality(N)
  BY <1>5, <1>14, FS_Subset
<1> QED
  BY <1>1, <1>5, <1>10, <1>11, <1>12, <1>15

------------------------------------------------------------------------------
(* What appending, swapping and redirecting does to the inputs. *)

NodesOf(g) == {g[i] : i \in DOMAIN g}

\* A GraphDef TensorFlow accepts: the assumption about the items, and InputsResolve.
GraphOK(g) ==
  /\ g \in Seq(NodesOf(g))
  /\ \A nd \in NodesOf(g) : /\ NodeOK(nd)
                            /\ \A j \in DOMAIN nd.in : Resolves(g, nd.in[j])

\* What an input refers to is a matter of the nodes, not of their order.
LEMMA ResolvesAmong ==
  ASSUME NEW g, NEW ref
  PROVE  Resolves(g, ref) <=> \E nd \in NodesOf(g) : nd.name = ref.n /\ ref.p < OutputCount(nd)
PROOF
  BY DEF Resolves, NodesOf

\* A graph with the same nodes, and perhaps one more.
LEMMA MoreNodes ==
  ASSUME NEW g, GraphOK(g), NEW S, NEW h \in Seq(S), NodesOf(g) \subseteq NodesOf(h),
         \A nd \in NodesOf(h) \ NodesOf(g) :
           NodeOK(nd) /\ \A j \in DOMAIN nd.in : Resolves(g, nd.in[j])
  PROVE  GraphOK(h)
PROOF
<1>1. \A ref : Resolves(g, ref) => Resolves(h, ref)
  BY ResolvesAmong
<1>2. h \in Seq(NodesOf(h))
  <2>1. Len(h) \in Nat /\ DOMAIN h = 1..Len(h) /\ h = [i \in 1..Len(h) |-> h[i]]
    BY LenProperties
  <2>2. \A i \in 1..Len(h) : h[i] \in NodesOf(h)
    BY <2>1 DEF NodesOf
  <2>3. h \in [1..Len(h) -> NodesOf(h)]
    BY <2>1, <2>2
  <2> QED
    BY <2>1, <2>3, SeqDef
<1>3. ASSUME NEW nd \in NodesOf(h)
      PROVE  NodeOK(nd) /\ \A j \in DOMAIN nd.in : Resolves(h, nd.in[j])
  <2>1. CASE nd \in NodesOf(g)
    BY <1>1, <2>1 DEF GraphOK
  <2>2. CASE nd \notin NodesOf(g)
    BY <1>1, <2>2
  <2> QED
    BY <2>1, <2>2
<1> QED
  BY <1>2, <1>3 DEF GraphOK

\* nodes->Add() with inputs the graph resolves.
LEMMA AppendOK ==
  ASSUME NEW g, GraphOK(g), NEW nd, NodeOK(nd), \A j \in DOMAIN nd.in : Resolves(g, nd.in[j])
  PROVE  GraphOK(Append(g, nd)) /\ NodesOf(Append(g, nd)) = NodesOf(g) \cup {nd}
PROOF
<1> DEFINE T == NodesOf(g) \cup {nd}
           a == Append(g, nd)
<1>1. g \in Seq(T) /\ nd \in T
  BY SeqMonotonic DEF GraphOK
<1>2. Len(g) \in Nat /\ DOMAIN g = 1..Len(g)
  BY LenProperties DEF GraphOK
<1>3. /\ a \in Seq(T) /\ Len(a) = Len(g) + 1 /\ a[Len(g) + 1] = nd
      /\ \A i \in 1..Len(g) : a[i] = g[i]
  BY <1>1, AppendProperties
<1>4. DOMAIN a = 1..Len(g) + 1
  BY <1>3, LenProperties
<1> HIDE DEF a, T
<1>5. NodesOf(a) = NodesOf(g) \cup {nd}
  <2>1. \A i \in 1..Len(g) + 1 : i \in 1..Len(g) \/ i = Len(g) + 1
    BY <1>2
  <2>2. \A i \in 1..Len(g) : i \in 1..Len(g) + 1
    BY <1>2
  <2>3. Len(g) + 1 \in 1..Len(g) + 1
    BY <1>2
  <2> QED
    BY <1>2, <1>3, <1>4, <2>1, <2>2, <2>3 DEF NodesOf
<1>6. GraphOK(a)
  BY <1>3, <1>5, MoreNodes
<1> QED
  BY <1>5, <1>6 DEF a

\* SwapElements.
LEMMA SwapOK ==
  ASSUME NEW g, GraphOK(g), NEW i \in 1..Len(g), NEW j \in 1..Len(g)
  PROVE  GraphOK(SwapElements(g, i, j)) /\ NodesOf(SwapElements(g, i, j)) = NodesOf(g)
PROOF
<1> DEFINE s == SwapElements(g, i, j)
<1>1. g \in Seq(NodesOf(g)) /\ Len(g) \in Nat /\ DOMAIN g = 1..Len(g)
      /\ \A k \in 1..Len(g) : g[k] \in NodesOf(g)
  BY LenProperties DEF GraphOK, NodesOf
<1>2. /\ DOMAIN s = 1..Len(g) /\ s = [k \in 1..Len(g) |-> s[k]]
      /\ s[j] = g[i] /\ (i # j => s[i] = g[j])
      /\ \A k \in 1..Len(g) : k # i /\ k # j => s[k] = g[k]
  BY <1>1 DEF SwapElements
<1> HIDE DEF s
<1>3. \A k \in 1..Len(g) : s[k] \in NodesOf(g)
  BY <1>1, <1>2
<1>4. s \in Seq(NodesOf(g))
  <2>1. s \in [1..Len(g) -> NodesOf(g)]
    BY <1>2, <1>3
  <2> QED
    BY <1>1, <2>1, SeqDef
<1>5. \A k \in 1..Len(g) : \E l \in 1..Len(g) : s[l] = g[k]
  <2> TAKE k \in 1..Len(g)
  <2>1. CASE k = i
    BY <1>2, <2>1
  <2>2. CASE k = j /\ k # i
    BY <1>2, <2>2
  <2>3. CASE k # i /\ k # j
    BY <1>2, <2>3
  <2> QED
    BY <2>1, <2>2, <2>3
<1>6. NodesOf(s) = NodesOf(g)
  BY <1>1, <1>2, <1>3, <1>5 DEF NodesOf
<1>7. GraphOK(s)
  BY <1>4, <1>6, MoreNodes
<1> QED
  BY <1>6, <1>7 DEF s

\* The outputs of a node are given by its op and attributes.
LEMMA SameOutputs ==
  ASSUME NEW a, NEW b, a.op = b.op, a.attr = b.attr
  PROVE  OutputCount(a) = OutputCount(b)
PROOF
<1> QED
  BY DEF OutputCount

\* A fused node has so many.
LEMMA FusedOutputs ==
  ASSUME NEW nd, nd.op \in FusedOps
  PROVE  OutputCount(nd) \in Nat
PROOF
<1>1. CASE nd.op \in {"KPFusedSparseReshape", "KPFusedSparseSegmentReduce",
                      "KPFusedEmbeddingPadding", "KPFusedEmbeddingPaddingFast"}
  BY <1>1 DEF OutputCount
<1>2. CASE nd.op \in {"KPFusedSparseSegmentReduceNonzero", "KPFusedSparseSelect",
                      "KPFusedGather"}
  BY <1>2 DEF OutputCount
<1>3. CASE nd.op \in {"KPFusedSparseDynamicStitch", "KPFusedEmbeddingActionIdGather",
                      "KPFusedBatchMatMulAddSigmoid"}
  BY <1>3 DEF OutputCount
<1> QED
  BY <1>1, <1>2, <1>3 DEF FusedOps

\* replace_all_users_with: an input stays or becomes an output the fused node has.
LEMMA RedirectOK ==
  ASSUME NEW g, GraphOK(g), NEW old, NEW m \in Nat, DOMAIN old = 1..m, NEW new \in Name,
         NEW fused \in NodesOf(g), fused.name = new, OutputCount(fused) \in Nat,
         m <= OutputCount(fused)
  PROVE  GraphOK(RedirectUsers(g, old, new))
PROOF
<1> DEFINE hit(ref) == {k \in DOMAIN old : old[k] = ref}
           first(ref) == CHOOSE k \in hit(ref) : \A l \in hit(ref) : k <= l
           Redirected(ref) == IF hit(ref) = {} THEN ref ELSE [n |-> new, p |-> first(ref) - 1]
           node(i) == [name |-> g[i].name, op |-> g[i].op, attr |-> g[i].attr, val |-> g[i].val,
                       in |-> [j \in DOMAIN g[i].in |-> Redirected(g[i].in[j])]]
           r == RedirectUsers(g, old, new)
<1>1. Len(g) \in Nat /\ DOMAIN g = 1..Len(g) /\ \A i \in 1..Len(g) : g[i] \in NodesOf(g)
  BY LenProperties DEF GraphOK, NodesOf
<1>2. r = [i \in 1..Len(g) |-> node(i)]
  BY DEF RedirectUsers
<1>3. ASSUME NEW ref, hit(ref) # {}
      PROVE  first(ref) \in 1..m
  <2>1. hit(ref) \in SUBSET (1..m)
    OBVIOUS
  <2>2. \E k \in hit(ref) : \A l \in hit(ref) : k <= l
    <3> HIDE DEF hit
    <3> QED
      BY <1>3, <2>1, Positions!FirstExists
  <2>3. first(ref) \in hit(ref)
    BY <2>2
  <2> QED
    BY <2>1, <2>3
<1> HIDE DEF first
<1>4. ASSUME NEW ref
      PROVE  \/ Redirected(ref) = ref
             \/ /\ Redirected(ref) \in Reference /\ Redirected(ref).n = new
                /\ Redirected(ref).p < OutputCount(fused)
  <2>1. CASE hit(ref) = {}
    BY <2>1
  <2>2. CASE hit(ref) # {}
    <3>1. first(ref) \in 1..m
      BY <1>3, <2>2
    <3>2. first(ref) - 1 \in Nat /\ first(ref) - 1 < OutputCount(fused)
      BY <3>1
    <3> QED
      BY <2>2, <3>2 DEF Reference
  <2> QED
    BY <2>1, <2>2
<1> HIDE DEF Redirected
<1>5. ASSUME NEW i \in 1..Len(g)
      PROVE  /\ r[i].name = g[i].name /\ r[i].op = g[i].op /\ r[i].attr = g[i].attr
             /\ r[i].in = [j \in DOMAIN g[i].in |-> Redirected(g[i].in[j])]
  BY <1>2
<1> HIDE DEF node, r
<1>6. DOMAIN r = 1..Len(g) /\ r = [i \in 1..Len(g) |-> r[i]]
  BY <1>2
<1>7. ASSUME NEW ref, Resolves(g, ref)
      PROVE  Resolves(r, ref)
  <2>1. PICK k \in 1..Len(g) : g[k].name = ref.n /\ ref.p < OutputCount(g[k])
    BY <1>1, <1>7 DEF Resolves
  <2>2. r[k].name = g[k].name /\ OutputCount(r[k]) = OutputCount(g[k])
    BY <1>5, SameOutputs
  <2> QED
    BY <1>6, <2>1, <2>2 DEF Resolves
<1>8. ASSUME NEW ref, ref.n = new, ref.p < OutputCount(fused)
      PROVE  Resolves(r, ref)
  BY <1>7, <1>8, ResolvesAmong
<1>9. ASSUME NEW i \in 1..Len(g)
      PROVE  NodeOK(r[i]) /\ \A j \in DOMAIN r[i].in : Resolves(r, r[i].in[j])
  <2> DEFINE in == g[i].in
             new_in == r[i].in
  <2>1. NodeOK(g[i]) /\ \A j \in DOMAIN in : Resolves(g, in[j])
    BY <1>1 DEF GraphOK
  <2>2. in \in Seq(Reference) /\ Len(in) \in Nat /\ DOMAIN in = 1..Len(in)
        /\ \A j \in 1..Len(in) : in[j] \in Reference
    BY <2>1, LenProperties, ElementOfSeq DEF NodeOK
  <2>3. new_in = [j \in 1..Len(in) |-> Redirected(in[j])]
    BY <1>5, <2>2
  <2>4. \A j \in 1..Len(in) : Redirected(in[j]) \in Reference /\ Resolves(r, Redirected(in[j]))
    BY <1>4, <1>7, <1>8, <2>1, <2>2
  <2>5. r[i].name = g[i].name /\ r[i].op = g[i].op
    BY <1>5
  <2> HIDE DEF in, new_in
  <2>6. new_in \in [1..Len(in) -> Reference]
    BY <2>3, <2>4
  <2>7. new_in \in Seq(Reference) /\ Len(new_in) = Len(in) /\ DOMAIN new_in = 1..Len(in)
    <3>1. new_in \in Seq(Reference)
      BY <2>2, <2>6, SeqDef
    <3> QED
      BY <2>2, <2>6, <3>1, LenProperties
  <2>8. \A j \in DOMAIN new_in : Resolves(r, new_in[j])
    BY <2>3, <2>4, <2>7
  <2>9. Declared(r[i])
    BY <2>1, <2>5, <2>7 DEF NodeOK, Declared, in, new_in
  <2>10. NodeOK(r[i])
    BY <2>1, <2>5, <2>7, <2>9 DEF NodeOK, new_in
  <2> QED
    BY <2>8, <2>10 DEF new_in
<1>10. \A i \in 1..Len(g) : r[i] \in NodesOf(r)
  BY <1>6 DEF NodesOf
<1>11. r \in Seq(NodesOf(r))
  <2>1. r \in [1..Len(g) -> NodesOf(r)]
    BY <1>6, <1>10
  <2> QED
    BY <1>1, <2>1, SeqDef
<1>12. \A nd \in NodesOf(r) : \E i \in 1..Len(g) : nd = r[i]
  BY <1>6 DEF NodesOf
<1>13. GraphOK(r)
  BY <1>9, <1>11, <1>12 DEF GraphOK
<1> QED
  BY <1>13 DEF r

------------------------------------------------------------------------------
(* The invariant of the inputs. *)

\* While optimize() runs, the index knows every name an input has.
KnownInputs ==
  pc = "scan" => \A nd \in NodesOf(graph) : \A j \in DOMAIN nd.in : nd.in[j].n \in DOMAIN indexes

CInv == GraphOK(graph) /\ KnownInputs

\* A new index, or a renewed one, knows the names of the graph, and so of its inputs.
LEMMA IndexKnows ==
  ASSUME NEW g, GraphOK(g), NEW ix, NEW nd \in NodesOf(g), NEW j \in DOMAIN nd.in
  PROVE  nd.in[j].n \in DOMAIN UpdateNodeIndexes(g, ix)
PROOF
<1>1. Len(g) \in Nat /\ DOMAIN g = 1..Len(g)
  BY LenProperties DEF GraphOK
<1>2. PICK k \in 1..Len(g) : g[k].name = nd.in[j].n
  BY <1>1 DEF GraphOK, Resolves
<1>3. NameSeq(g) = [i \in 1..Len(g) |-> g[i].name] /\ NameSeq(g)[k] = nd.in[j].n
  BY <1>2 DEF NameSeq
<1>4. Len(NameSeq(g)) = Len(g)
  <2>1. NameSeq(g) \in Seq({g[i].name : i \in 1..Len(g)})
    BY <1>1, <1>3, SeqDef
  <2>2. DOMAIN NameSeq(g) = 1..Len(g)
    BY <1>3
  <2> QED
    BY <1>1, <2>1, <2>2, LenProperties
<1> QED
  BY <1>3, <1>4 DEF UpdateNodeIndexes, Reindexed

\* What the rewriters see.
LEMMA ScanView ==
  ASSUME GInv, CInv, pc = "scan"
  PROVE  ViewOK(View(graph, indexes)) /\ Nodes(View(graph, indexes)) = NodesOf(graph)
PROOF
<1> DEFINE v == View(graph, indexes)
<1>1. v.nodes = graph /\ v.at = indexes
  BY DEF View
<1> HIDE DEF v
<1>2. Nodes(v) = NodesOf(graph)
  BY <1>1 DEF Nodes, NodesOf
<1>3. \A r \in Refs(v) : r.n \in DOMAIN indexes
  BY <1>2 DEF Refs, CInv, KnownInputs
<1>4. \A n \in DOMAIN indexes : indexes[n] \in DOMAIN graph
  <2>1. PICK S : graph \in Seq(S) /\ \A x \in S : x.name \in Name
    BY DEF GInv, Named
  <2>2. Len(NameSeq(graph)) = Len(graph) /\ DOMAIN graph = 1..Len(graph)
    BY <2>1, NameSeqFacts, LenProperties
  <2> QED
    BY <2>2 DEF GInv, LP!Inv, LP!IndexSound
<1>5. ViewOK(v)
  BY <1>1, <1>2, <1>3, <1>4 DEF ViewOK, CInv, GraphOK
<1> QED
  BY <1>2, <1>5 DEF v

\* The fused node of a match, abandoned or not: its inputs are inputs the graph has.
LEMMA FusedNodeOK ==
  ASSUME GInv, TInv, CInv, Trying, Outcome.kind # "none"
  PROVE  /\ NodeOK(FusedNode) /\ FusedNode.op \in FusedOps
         /\ \A j \in DOMAIN FusedNode.in :
              /\ Resolves(graph, FusedNode.in[j]) /\ FusedNode.in[j].n \in DOMAIN indexes
              /\ FusedNode.in[j] \in Refs(View(graph, indexes))
         /\ \E m \in Nat : DOMAIN Outcome.old = 1..m /\ m <= OutputCount(FusedNode)
PROOF
<1> DEFINE v == View(graph, indexes)
           op == rewriters[rewriter]
           nd == FusedNode
<1>1. pc = "scan" /\ node_index <= node_size
  BY DEF Trying
<1>2. node_index \in 1..Len(graph) /\ Node.name \in Name
  BY <1>1, VisitedNode
<1>3. ViewOK(v) /\ Nodes(v) = NodesOf(graph)
  BY <1>1, ScanView
<1>4. Node \in Nodes(v)
  <2>1. DOMAIN graph = 1..Len(graph)
    BY LenProperties DEF CInv, GraphOK
  <2> QED
    BY <1>2, <1>3, <2>1 DEF Node, NodesOf
<1>5. op \in FusedOps
  <2>1. rewriter \in 1..Len(rewriters) /\ rewriters \in Seq(FusedOps)
    BY LenProperties DEF Trying, TInv
  <2> QED
    BY <2>1, ElementOfSeq
<1>6. Outcome = MatchAndRewrite(op, v, Node)
  BY DEF Outcome
<1> HIDE DEF op, v
<1>7. DrawnFrom(v, op, Outcome)
  BY <1>3, <1>4, <1>5, <1>6, MatchDrawn
<1>8. nd.op = op /\ nd.in = Outcome.in /\ nd.name = FusedName(Node.name)
  BY DEF FusedNode, op
<1> HIDE DEF nd
<1>9. nd.in \in Seq(Refs(v)) /\ DOMAIN nd.in = 1..Len(nd.in)
      /\ \A j \in 1..Len(nd.in) : nd.in[j] \in Refs(v)
  BY <1>7, <1>8, LenProperties, ElementOfSeq DEF DrawnFrom
<1>10. \A r \in Refs(v) : r \in Reference /\ Resolves(graph, r) /\ r.n \in DOMAIN indexes
  <2> TAKE r \in Refs(v)
  <2>1. PICK x \in Nodes(v) : \E j \in DOMAIN x.in : r = x.in[j]
    BY DEF Refs
  <2>2. PICK j \in DOMAIN x.in : r = x.in[j]
    BY <2>1
  <2>3. x.in \in Seq(Reference)
    BY <1>3 DEF ViewOK, NodeOK
  <2>4. r \in Reference
    BY <2>2, <2>3, LenProperties, ElementOfSeq
  <2> QED
    BY <1>1, <1>3, <2>2, <2>4 DEF CInv, GraphOK, KnownInputs
<1>11. nd.in \in Seq(Reference)
  BY <1>9, <1>10, SeqMonotonic
<1>12. nd.name \in Name
  <2>1. Appendix \in STRING \cup {Appendix}
    OBVIOUS
  <2> QED
    BY <1>2, <1>8, <2>1, AppendProperties DEF FusedName, Name
<1>13. Declared(nd)
  BY <1>5, <1>8 DEF Declared, FusedOps
<1>14. \E m \in Nat : DOMAIN Outcome.old = 1..m /\ m <= OutputCount(nd)
  BY <1>7, <1>8 DEF DrawnFrom
<1> QED
  BY <1>5, <1>8, <1>9, <1>10, <1>11, <1>12, <1>13, <1>14 DEF nd, v, NodeOK

\* An abandoned match.
LEMMA AbandonKeepsInputs ==
  ASSUME GInv, TInv, CInv, AbandonRewrite
  PROVE  CInv'
PROOF
<1>1. /\ Trying /\ Outcome.kind # "none" /\ graph' = Append(graph, FusedNode)
      /\ indexes' = indexes /\ pc' = pc /\ pc = "scan"
  BY DEF AbandonRewrite, Trying
<1>2. /\ NodeOK(FusedNode)
      /\ \A j \in DOMAIN FusedNode.in :
           Resolves(graph, FusedNode.in[j]) /\ FusedNode.in[j].n \in DOMAIN indexes
  BY <1>1, FusedNodeOK
<1>3. GraphOK(graph') /\ NodesOf(graph') = NodesOf(graph) \cup {FusedNode}
  BY <1>1, <1>2, AppendOK DEF CInv
<1>4. KnownInputs'
  BY <1>1, <1>2, <1>3 DEF CInv, KnownInputs
<1> QED
  BY <1>3, <1>4 DEF CInv

\* A match.
LEMMA RewriteKeepsInputs ==
  ASSUME GInv, TInv, CInv, Rewrite
  PROVE  CInv'
PROOF
<1> DEFINE grown == Append(graph, FusedNode)
           i == indexes[Node.name]
           swapped == SwapElements(grown, i, Len(grown))
           new == FusedNode.name
<1>1. /\ Trying /\ Outcome.kind # "none" /\ pc' = "scan"
      /\ graph' = RedirectUsers(swapped, Outcome.old, new)
      /\ indexes' = UpdateNodeIndexes(graph', indexes)
  BY DEF Rewrite, Trying
<1>2. /\ NodeOK(FusedNode) /\ FusedNode.op \in FusedOps
      /\ \A j \in DOMAIN FusedNode.in : Resolves(graph, FusedNode.in[j])
  BY <1>1, FusedNodeOK
<1>3. PICK m \in Nat : DOMAIN Outcome.old = 1..m /\ m <= OutputCount(FusedNode)
  BY <1>1, FusedNodeOK
<1>4. GraphOK(grown) /\ NodesOf(grown) = NodesOf(graph) \cup {FusedNode}
  BY <1>2, AppendOK DEF CInv
<1>5. i \in 1..Len(grown) /\ Len(grown) \in 1..Len(grown)
  <2>1. i \in 1..Len(graph)
    BY <1>1, VisitedNode DEF Trying
  <2>2. Len(graph) \in Nat
    BY LenProperties DEF CInv, GraphOK
  <2>3. Len(grown) = Len(graph) + 1
    <3>1. graph \in Seq(NodesOf(graph) \cup {FusedNode})
      BY SeqMonotonic DEF CInv, GraphOK
    <3> QED
      BY <3>1, AppendProperties
  <2> HIDE DEF i, grown
  <2> QED
    BY <2>1, <2>2, <2>3
<1> HIDE DEF grown, i
<1>6. GraphOK(swapped) /\ NodesOf(swapped) = NodesOf(grown)
  BY <1>4, <1>5, SwapOK
<1>7. FusedNode \in NodesOf(swapped) /\ OutputCount(FusedNode) \in Nat /\ new \in Name
  BY <1>2, <1>4, <1>6, FusedOutputs DEF NodeOK
<1> HIDE DEF swapped
<1>8. GraphOK(graph')
  <2> DEFINE f == FusedNode
             old == Outcome.old
  <2> HIDE DEF f, old
  <2>1. /\ GraphOK(swapped) /\ f \in NodesOf(swapped) /\ OutputCount(f) \in Nat
        /\ m <= OutputCount(f) /\ DOMAIN old = 1..m /\ f.name = new /\ new \in Name
    BY <1>3, <1>6, <1>7 DEF f, old
  <2> HIDE DEF new
  <2>2. GraphOK(RedirectUsers(swapped, old, new))
    BY <2>1, RedirectOK
  <2> QED
    BY <1>1, <2>2 DEF old
<1>9. KnownInputs'
  BY <1>1, <1>8, IndexKnows DEF KnownInputs
<1> QED
  BY <1>8, <1>9 DEF CInv

\* Pruning keeps the live nodes of a graph and adds none.
LEMMA PrunedNodes ==
  ASSUME CInv, Prune
  PROVE  /\ graph' \in Seq(NodesOf(graph))
         /\ NodesOf(graph') = {nd \in NodesOf(graph) : nd.name \in LiveNames(graph, fetch)}
PROOF
<1> DEFINE live == LiveNames(graph, fetch)
           kept == NodesNamed(graph, live)
<1>1. graph' = kept
  BY DEF Prune
<1>2. graph \in Seq(NodesOf(graph))
  BY DEF CInv, GraphOK
<1> HIDE DEF live
<1>3. /\ kept \in Seq({graph[i] : i \in DOMAIN graph})
      /\ {kept[i] : i \in DOMAIN kept} =
           {nd \in {graph[i] : i \in DOMAIN graph} : nd.name \in live}
  BY <1>2, NodesNamedFacts
<1> HIDE DEF kept
<1>4. NodesOf(graph') = {kept[i] : i \in DOMAIN kept}
  BY <1>1 DEF NodesOf
<1>5. NodesOf(graph) = {graph[i] : i \in DOMAIN graph}
  BY DEF NodesOf
<1> HIDE DEF NodesOf
<1> QED
  BY <1>1, <1>3, <1>4, <1>5 DEF live

\* Pruning keeps what the nodes it keeps depend on.
LEMMA PruneKeepsInputs ==
  ASSUME GInv, CInv, Prune
  PROVE  CInv'
PROOF
<1> DEFINE live == LiveNames(graph, fetch)
<1>1. graph' = NodesNamed(graph, live) /\ pc' = "pruned"
  BY DEF Prune
<1>2. graph \in Seq(NodesOf(graph)) /\ Len(graph) \in Nat /\ DOMAIN graph = 1..Len(graph)
      /\ \A i \in DOMAIN graph : graph[i] \in NodesOf(graph)
  BY LenProperties DEF CInv, GraphOK, NodesOf
<1>3. \A i \in DOMAIN graph : \A j \in DOMAIN graph[i].in : graph[i].in[j].n \in NamesOf(graph)
  BY <1>2 DEF CInv, GraphOK, Resolves, NamesOf
<1>4. Producers(graph, live) \subseteq live
  BY <1>2, <1>3, LiveClosed
<1>5. /\ graph' \in Seq(NodesOf(graph))
      /\ NodesOf(graph') = {nd \in NodesOf(graph) : nd.name \in live}
  BY PrunedNodes DEF live
<1> HIDE DEF live
<1>6. ASSUME NEW nd \in NodesOf(graph'), NEW j \in DOMAIN nd.in
      PROVE  Resolves(graph', nd.in[j])
  <2>1. nd \in NodesOf(graph) /\ nd.name \in live
    BY <1>5, <1>6
  <2>2. PICK x \in NodesOf(graph) : x.name = nd.in[j].n /\ nd.in[j].p < OutputCount(x)
    <3>1. Resolves(graph, nd.in[j])
      BY <1>6, <2>1 DEF CInv, GraphOK
    <3> QED
      BY <3>1, ResolvesAmong
  <2>3. nd.in[j].n \in Producers(graph, live)
    BY <1>6, <2>1 DEF Producers, NodesOf
  <2>4. x \in NodesOf(graph')
    BY <1>4, <1>5, <2>2, <2>3
  <2> QED
    BY <2>2, <2>4, ResolvesAmong
<1>7. graph' \in Seq(NodesOf(graph'))
  <2>1. Len(graph') \in Nat /\ DOMAIN graph' = 1..Len(graph')
        /\ graph' = [i \in 1..Len(graph') |-> graph'[i]]
    BY <1>5, LenProperties
  <2>2. \A i \in 1..Len(graph') : graph'[i] \in NodesOf(graph')
    BY <2>1 DEF NodesOf
  <2>3. graph' \in [1..Len(graph') -> NodesOf(graph')]
    BY <2>1, <2>2
  <2> QED
    BY <2>1, <2>3, SeqDef
<1>8. GraphOK(graph')
  BY <1>5, <1>6, <1>7 DEF CInv, GraphOK
<1>9. KnownInputs'
  BY <1>1 DEF KnownInputs
<1> QED
  BY <1>8, <1>9 DEF CInv

\* One step of the optimizer or of grappler.
LEMMA CInvStep == GInv /\ TInv /\ CInv /\ [Next]_vars => CInv'
PROOF
<1> SUFFICES ASSUME GInv, TInv, CInv, [Next]_vars
             PROVE  CInv'
  OBVIOUS
<1>1. CASE Prune
  BY <1>1, PruneKeepsInputs
<1>2. CASE RunGraphOptimization
  <2>1. graph' = graph /\ indexes' = UpdateNodeIndexes(graph, <<>>)
    BY <1>2 DEF RunGraphOptimization, FirstIndexes
  <2> QED
    BY <2>1, IndexKnows DEF CInv, KnownInputs
<1>3. CASE AbandonRewrite
  BY <1>3, AbandonKeepsInputs
<1>4. CASE Rewrite
  BY <1>4, RewriteKeepsInputs
<1>5. CASE NoRewrite \/ NextNode \/ Finish \/ Optimized \/ UNCHANGED vars
  <2>1. graph' = graph /\ indexes' = indexes /\ (pc' = "scan" => pc = "scan")
    BY <1>5 DEF NoRewrite, NextNode, Finish, Optimized, vars
  <2> QED
    BY <2>1 DEF CInv, KnownInputs
<1> QED
  BY <1>1, <1>2, <1>3, <1>4, <1>5 DEF Next

\* The graphs TensorFlow hands over.
LEMMA CInvInit == Init => CInv
PROOF
<1> SUFFICES ASSUME Init
             PROVE  CInv
  OBVIOUS
<1>1. PICK item \in Items : graph = item.nodes
  BY DEF Init
<1>2. /\ graph \in Seq(NodesOf(graph))
      /\ \A i \in DOMAIN graph :
           /\ NodeOK(graph[i])
           /\ \A j \in DOMAIN graph[i].in : Resolves(graph, graph[i].in[j])
  BY <1>1, ItemsAssumption DEF NodesOf, NodeOK, Reference
<1>3. GraphOK(graph)
  BY <1>2 DEF GraphOK, NodesOf
<1> QED
  BY <1>3 DEF Init, CInv, KnownInputs

\* Every input of every node, rewritten or not, names an output some node of the graph has: for
\* every graph TensorFlow accepts, every environment and number of iterations, and after every
\* step of a pass.  Replacing the users of several tensors by the outputs of one fused node,
\* with the node swapped away that had them, leaves no reference nobody produces.
THEOREM OptimizerInputsResolve == Spec => []InputsResolve
PROOF
<1>1. CInv => InputsResolve
  BY DEF CInv, GraphOK, NodesOf, InputsResolve
<1>2. Init => GInv /\ TInv /\ CInv
  BY GInvInductive, TInvInit, CInvInit
<1>3. GInv /\ TInv /\ CInv /\ [Next]_vars => (GInv /\ TInv /\ CInv)'
  BY GInvInductive, TInvStep, CInvStep
<1> QED
  BY <1>1, <1>2, <1>3, PTL DEF Spec

------------------------------------------------------------------------------
(* The rewriters exclude each other. *)

\* What tells the patterns apart: the op of the visited node, and where two patterns share it,
\* that of a node above.
Anchored(op, v, node) ==
  /\ op = "KPFusedSparseDynamicStitch" => node.op = "ParallelDynamicStitch"
  /\ op = "KPFusedSparseSegmentReduce" =>
       /\ Is(node, "StridedSlice", 4) /\ Is(Arg(v, node, 0), "Shape", 1)
       /\ Arg(v, Arg(v, node, 0), 0).op \in {"SparseSegmentMean", "SparseSegmentSum"}
  /\ op = "KPFusedSparseSegmentReduceNonzero" => node.op = "GatherND"
  /\ op = "KPFusedEmbeddingPadding" => node.op = "Reshape"
  /\ op = "KPFusedEmbeddingPaddingFast" =>
       /\ Is(node, "StridedSlice", 4) /\ Is(Arg(v, node, 0), "Shape", 1)
       /\ Arg(v, Arg(v, node, 0), 0).op = "Reshape"
  /\ op = "KPFusedSparseSelect" => IsConcat(node) /\ IsSelect(Arg(v, node, 0))
  /\ op = "KPFusedGather" => node.op = "GatherV2"
  /\ op = "KPFusedSparseReshape" => node.op = "SparseReshape"
  /\ op = "KPFusedEmbeddingActionIdGather" => IsConcat(node) /\ Arg(v, node, 0).op = "Reshape"
  /\ op = "KPFusedBatchMatMulAddSigmoid" => node.op = "Sigmoid"

\* A rewriter that does anything has checked that.
LEMMA MatchAnchored ==
  ASSUME NEW v, NEW node, NEW op \in FusedOps, MatchAndRewrite(op, v, node).kind # "none"
  PROVE  Anchored(op, v, node)
PROOF
<1>1. CASE op = "KPFusedSparseDynamicStitch"
  <2>1. SparseDynamicStitch(v, node).kind # "none"
    BY <1>1 DEF MatchAndRewrite
  <2>2. node.op = "ParallelDynamicStitch"
    BY <2>1 DEF SparseDynamicStitch, NoMatch
  <2> QED
    BY <1>1, <2>2 DEF Anchored
<1>2. CASE op = "KPFusedSparseSegmentReduce"
  <2>1. SparseSegmentReduce(v, node).kind # "none"
    BY <1>2 DEF MatchAndRewrite
  <2>2. /\ Is(node, "StridedSlice", 4) /\ Is(Arg(v, node, 0), "Shape", 1)
        /\ Arg(v, Arg(v, node, 0), 0).op \in {"SparseSegmentMean", "SparseSegmentSum"}
    BY <2>1 DEF SparseSegmentReduce, NoMatch
  <2> QED
    BY <1>2, <2>2 DEF Anchored
<1>3. CASE op = "KPFusedSparseSegmentReduceNonzero"
  <2>1. SparseSegmentReduceNonzero(v, node).kind # "none"
    BY <1>3 DEF MatchAndRewrite
  <2>2. node.op = "GatherND"
    BY <2>1 DEF SparseSegmentReduceNonzero, NoMatch, Is
  <2> QED
    BY <1>3, <2>2 DEF Anchored
<1>4. CASE op = "KPFusedEmbeddingPadding"
  <2>1. EmbeddingPadding(v, node).kind # "none"
    BY <1>4 DEF MatchAndRewrite
  <2>2. node.op = "Reshape"
    BY <2>1 DEF EmbeddingPadding, NoMatch
  <2> QED
    BY <1>4, <2>2 DEF Anchored
<1>5. CASE op = "KPFusedEmbeddingPaddingFast"
  <2>1. EmbeddingPaddingFast(v, node).kind # "none"
    BY <1>5 DEF MatchAndRewrite
  <2>2. /\ Is(node, "StridedSlice", 4) /\ Is(Arg(v, node, 0), "Shape", 1)
        /\ Is(Arg(v, Arg(v, node, 0), 0), "Reshape", 2)
    BY <2>1 DEF EmbeddingPaddingFast, NoMatch
  <2> QED
    BY <1>5, <2>2 DEF Anchored, Is
<1>6. CASE op = "KPFusedSparseSelect"
  <2>1. SparseSelect(v, node).kind # "none"
    BY <1>6 DEF MatchAndRewrite
  <2>2. IsConcat(node) /\ IsSelect(Arg(v, node, 0))
    BY <2>1 DEF SparseSelect, NoMatch
  <2> QED
    BY <1>6, <2>2 DEF Anchored
<1>7. CASE op = "KPFusedGather"
  <2>1. Gather(v, node).kind # "none"
    BY <1>7 DEF MatchAndRewrite
  <2>2. node.op = "GatherV2"
    BY <2>1 DEF Gather, NoMatch, Is
  <2> QED
    BY <1>7, <2>2 DEF Anchored
<1>8. CASE op = "KPFusedSparseReshape"
  <2>1. SparseReshape(v, node).kind # "none"
    BY <1>8 DEF MatchAndRewrite
  <2>2. node.op = "SparseReshape"
    BY <2>1 DEF SparseReshape, NoMatch, Is
  <2> QED
    BY <1>8, <2>2 DEF Anchored
<1>9. CASE op = "KPFusedEmbeddingActionIdGather"
  <2>1. EmbeddingActionIdGather(v, node).kind # "none"
    BY <1>9 DEF MatchAndRewrite
  <2>2. IsConcat(node) /\ Is(Arg(v, node, 0), "Reshape", 2)
    BY <2>1 DEF EmbeddingActionIdGather, NoMatch
  <2> QED
    BY <1>9, <2>2 DEF Anchored, Is
<1>10. CASE op = "KPFusedBatchMatMulAddSigmoid"
  <2>1. BatchMatMulAddSigmoid(v, node).kind # "none"
    BY <1>10 DEF MatchAndRewrite
  <2>2. node.op = "Sigmoid"
    BY <2>1 DEF BatchMatMulAddSigmoid, NoMatch, Is
  <2> QED
    BY <1>10, <2>2 DEF Anchored
<1> QED
  BY <1>1, <1>2, <1>3, <1>4, <1>5, <1>6, <1>7, <1>8, <1>9, <1>10 DEF FusedOps

\* No node is where two patterns are looked for.
LEMMA AnchorsExclude ==
  ASSUME NEW v, NEW node, NEW op \in FusedOps, Anchored(op, v, node),
         NEW other \in FusedOps, Anchored(other, v, node)
  PROVE  other = op
PROOF
<1> DEFINE above == Arg(v, node, 0)
           top == Arg(v, above, 0)
           Visited(o) ==
             CASE o = "KPFusedSparseDynamicStitch" -> {"ParallelDynamicStitch"}
               [] o \in {"KPFusedSparseSegmentReduce", "KPFusedEmbeddingPaddingFast"} ->
                    {"StridedSlice"}
               [] o = "KPFusedSparseSegmentReduceNonzero" -> {"GatherND"}
               [] o = "KPFusedEmbeddingPadding" -> {"Reshape"}
               [] o \in {"KPFusedSparseSelect", "KPFusedEmbeddingActionIdGather"} ->
                    {"Concat", "ConcatV2"}
               [] o = "KPFusedGather" -> {"GatherV2"}
               [] o = "KPFusedSparseReshape" -> {"SparseReshape"}
               [] o = "KPFusedBatchMatMulAddSigmoid" -> {"Sigmoid"}
<1>1. ASSUME NEW o \in FusedOps, Anchored(o, v, node)
      PROVE  /\ node.op \in Visited(o)
             /\ o = "KPFusedSparseSegmentReduce" =>
                  top.op \in {"SparseSegmentMean", "SparseSegmentSum"}
             /\ o = "KPFusedEmbeddingPaddingFast" => top.op = "Reshape"
             /\ o = "KPFusedSparseSelect" => above.op \in {"Select", "SelectV2"}
             /\ o = "KPFusedEmbeddingActionIdGather" => above.op = "Reshape"
  BY <1>1 DEF Anchored, FusedOps, Is, IsConcat, IsSelect
<1> HIDE DEF above, top
<1>2. \/ other = op
      \/ {op, other} = {"KPFusedSparseSegmentReduce", "KPFusedEmbeddingPaddingFast"}
      \/ {op, other} = {"KPFusedSparseSelect", "KPFusedEmbeddingActionIdGather"}
  BY <1>1 DEF FusedOps
<1>3. CASE {op, other} = {"KPFusedSparseSegmentReduce", "KPFusedEmbeddingPaddingFast"}
  BY <1>1, <1>3
<1>4. CASE {op, other} = {"KPFusedSparseSelect", "KPFusedEmbeddingActionIdGather"}
  BY <1>1, <1>4
<1> QED
  BY <1>2, <1>3, <1>4

\* At most one of the ten rewriters does anything to a node, in whatever order they are
\* registered and whichever of them the environment selects.
THEOREM RewritersExclusive ==
  ASSUME NEW v, NEW node, NEW op \in FusedOps, NEW other \in FusedOps, other # op,
         MatchAndRewrite(op, v, node).kind # "none"
  PROVE  MatchAndRewrite(other, v, node).kind = "none"
PROOF
<1>1. Anchored(op, v, node) /\ ~Anchored(other, v, node)
  BY MatchAnchored, AnchorsExclude
<1> QED
  BY <1>1, MatchAnchored

\* Nor does a node that is appended behind the index's back change where a pattern is looked for.
LEMMA AnchorsStay ==
  ASSUME NEW v, ViewOK(v), NEW w, w.at = v.at,
         \A i \in DOMAIN v.nodes : w.nodes[i] = v.nodes[i],
         NEW node \in Nodes(v), NEW op \in FusedOps, Anchored(op, v, node)
  PROVE  Anchored(op, w, node)
PROOF
<1>1. ASSUME NEW nd \in Nodes(v), 0 < Len(nd.in)
      PROVE  Arg(w, nd, 0) = Arg(v, nd, 0) /\ Arg(v, nd, 0) \in Nodes(v)
  <2>1. Len(nd.in) \in Nat /\ 1 \in 1..Len(nd.in)
    BY <1>1, LenProperties DEF ViewOK, NodeOK
  <2>2. nd.in[0 + 1] \in Refs(v)
    BY <2>1, InputRef
  <2>3. v.at[nd.in[0 + 1].n] \in DOMAIN v.nodes
    BY <2>2 DEF ViewOK
  <2>4. Arg(v, nd, 0) \in Nodes(v)
    BY <1>1, ArgNode
  <2> QED
    BY <2>3, <2>4 DEF Arg, GetNode
<1> DEFINE above == Arg(v, node, 0)
<1>2. ASSUME IsConcat(node)
      PROVE  Arg(w, node, 0) = above
  <2>1. 0 < Len(node.in)
    BY <1>2 DEF IsConcat
  <2> QED
    BY <1>1, <2>1, Zenon
<1>3. ASSUME Is(node, "StridedSlice", 4), Is(above, "Shape", 1)
      PROVE  Arg(w, node, 0) = above /\ Arg(w, above, 0) = Arg(v, above, 0)
  <2>1. 0 < Len(node.in) /\ 0 < Len(above.in)
    <3>1. Len(node.in) = 4 /\ Len(above.in) = 1
      BY <1>3, Zenon DEF Is
    <3> HIDE DEF above
    <3> QED
      BY <3>1
  <2>2. Arg(w, node, 0) = above /\ above \in Nodes(v)
    BY <1>1, <2>1, Zenon
  <2> HIDE DEF above
  <2> QED
    BY <1>1, <2>1, <2>2, Zenon
<1>4. CASE op = "KPFusedSparseSegmentReduce"
  <2>1. /\ Is(node, "StridedSlice", 4) /\ Is(above, "Shape", 1)
        /\ Arg(v, above, 0).op \in {"SparseSegmentMean", "SparseSegmentSum"}
    BY <1>4 DEF Anchored
  <2> QED
    BY <1>3, <1>4, <2>1 DEF Anchored
<1>5. CASE op = "KPFusedEmbeddingPaddingFast"
  <2>1. /\ Is(node, "StridedSlice", 4) /\ Is(above, "Shape", 1)
        /\ Arg(v, above, 0).op = "Reshape"
    BY <1>5 DEF Anchored
  <2> QED
    BY <1>3, <1>5, <2>1 DEF Anchored
<1>6. CASE op = "KPFusedSparseSelect"
  <2>1. IsConcat(node) /\ IsSelect(above)
    BY <1>6 DEF Anchored
  <2> QED
    BY <1>2, <1>6, <2>1 DEF Anchored
<1>7. CASE op = "KPFusedEmbeddingActionIdGather"
  <2>1. IsConcat(node) /\ above.op = "Reshape"
    BY <1>7 DEF Anchored
  <2> QED
    BY <1>2, <1>7, <2>1 DEF Anchored
<1>8. CASE op \notin {"KPFusedSparseSegmentReduce", "KPFusedEmbeddingPaddingFast",
                      "KPFusedSparseSelect", "KPFusedEmbeddingActionIdGather"}
  BY <1>8 DEF Anchored
<1> QED
  BY <1>4, <1>5, <1>6, <1>7, <1>8

Once(s) == \A i, j \in 1..Len(s) : s[i] = s[j] => i = j

\* The first one.
LEMMA OnceFirst ==
  ASSUME NEW e, NEW op
  PROVE  RegisterRewriter(e, op) \in Seq({op}) /\ Once(RegisterRewriter(e, op))
PROOF
<1>1. <<>> \in Seq({op}) /\ Once(<<>>)
  BY EmptySeq DEF Once
<1>2. <<op>> \in Seq({op}) /\ Once(<<op>>)
  BY DEF Once
<1> QED
  BY <1>1, <1>2 DEF RegisterRewriter

\* What is not there yet may be added.
LEMMA OnceMore ==
  ASSUME NEW T, NEW s \in Seq(T), Once(s), NEW e, NEW op, op \notin T
  PROVE  s \o RegisterRewriter(e, op) \in Seq(T \cup {op}) /\ Once(s \o RegisterRewriter(e, op))
PROOF
<1>1. s \in Seq(T \cup {op}) /\ Len(s) \in Nat /\ \A i \in 1..Len(s) : s[i] \in T
  BY SeqMonotonic, LenProperties, ElementOfSeq
<1>2. CASE RegisterRewriter(e, op) = <<>>
  <2>1. s \o <<>> = s
    BY ConcatEmptySeq
  <2> QED
    BY <1>1, <1>2, <2>1
<1>3. CASE RegisterRewriter(e, op) = <<op>>
  <2> DEFINE t == s \o <<op>>
  <2>1. t = Append(s, op)
    BY <1>1, AppendIsConcat
  <2>2. /\ t \in Seq(T \cup {op}) /\ Len(t) = Len(s) + 1 /\ t[Len(s) + 1] = op
        /\ \A i \in 1..Len(s) : t[i] = s[i]
    BY <1>1, <2>1, AppendProperties
  <2> HIDE DEF t
  <2>3. ASSUME NEW i \in 1..Len(t), NEW j \in 1..Len(t), t[i] = t[j]
        PROVE  i = j
    <3>1. /\ i = Len(s) + 1 \/ i \in 1..Len(s)
          /\ j = Len(s) + 1 \/ j \in 1..Len(s)
      BY <1>1, <2>2
    <3>2. CASE i \in 1..Len(s) /\ j \in 1..Len(s)
      BY <2>2, <2>3, <3>2 DEF Once
    <3>3. CASE i = Len(s) + 1 \/ j = Len(s) + 1
      BY <1>1, <2>2, <2>3, <3>1, <3>3
    <3> QED
      BY <3>1, <3>2, <3>3
  <2>4. Once(t)
    BY <2>3 DEF Once
  <2> QED
    BY <1>3, <2>2, <2>4 DEF t
<1> QED
  BY <1>2, <1>3 DEF RegisterRewriter

\* Each of the ten is registered once or not at all.
LEMMA RegisteredOnce ==
  ASSUME NEW e
  PROVE  Once(Registered(e))
PROOF
<1> DEFINE S1 == {"KPFusedSparseDynamicStitch"}
           S2 == S1 \cup {"KPFusedSparseSegmentReduce"}
           S3 == S2 \cup {"KPFusedEmbeddingPaddingFast"}
           S4 == S3 \cup {"KPFusedEmbeddingPadding"}
           S5 == S4 \cup {"KPFusedSparseSelect"}
           S6 == S5 \cup {"KPFusedGather"}
           S7 == S6 \cup {"KPFusedSparseReshape"}
           S8 == S7 \cup {"KPFusedEmbeddingActionIdGather"}
           S9 == S8 \cup {"KPFusedSparseSegmentReduceNonzero"}
           s1 == RegisterRewriter(e, "KPFusedSparseDynamicStitch")
           s2 == s1 \o RegisterRewriter(e, "KPFusedSparseSegmentReduce")
           s3 == s2 \o RegisterRewriter(e, "KPFusedEmbeddingPaddingFast")
           s4 == s3 \o RegisterRewriter(e, "KPFusedEmbeddingPadding")
           s5 == s4 \o RegisterRewriter(e, "KPFusedSparseSelect")
           s6 == s5 \o RegisterRewriter(e, "KPFusedGather")
           s7 == s6 \o RegisterRewriter(e, "KPFusedSparseReshape")
           s8 == s7 \o RegisterRewriter(e, "KPFusedEmbeddingActionIdGather")
           s9 == s8 \o RegisterRewriter(e, "KPFusedSparseSegmentReduceNonzero")
           s10 == s9 \o RegisterRewriter(e, "KPFusedBatchMatMulAddSigmoid")
<1>0. /\ "KPFusedSparseSegmentReduce" \notin S1
      /\ "KPFusedEmbeddingPaddingFast" \notin S2
      /\ "KPFusedEmbeddingPadding" \notin S3
      /\ "KPFusedSparseSelect" \notin S4
      /\ "KPFusedGather" \notin S5
      /\ "KPFusedSparseReshape" \notin S6
      /\ "KPFusedEmbeddingActionIdGather" \notin S7
      /\ "KPFusedSparseSegmentReduceNonzero" \notin S8
      /\ "KPFusedBatchMatMulAddSigmoid" \notin S9
  OBVIOUS
<1>1. s1 \in Seq(S1) /\ Once(s1)
  BY OnceFirst
<1> HIDE DEF S1, S2, S3, S4, S5, S6, S7, S8, S9, s1, s2, s3, s4, s5, s6, s7, s8, s9, s10
<1>2. s2 \in Seq(S2) /\ Once(s2)
  BY <1>0, <1>1, OnceMore DEF S2, s2
<1>3. s3 \in Seq(S3) /\ Once(s3)
  BY <1>0, <1>2, OnceMore DEF S3, s3
<1>4. s4 \in Seq(S4) /\ Once(s4)
  BY <1>0, <1>3, OnceMore DEF S4, s4
<1>5. s5 \in Seq(S5) /\ Once(s5)
  BY <1>0, <1>4, OnceMore DEF S5, s5
<1>6. s6 \in Seq(S6) /\ Once(s6)
  BY <1>0, <1>5, OnceMore DEF S6, s6
<1>7. s7 \in Seq(S7) /\ Once(s7)
  BY <1>0, <1>6, OnceMore DEF S7, s7
<1>8. s8 \in Seq(S8) /\ Once(s8)
  BY <1>0, <1>7, OnceMore DEF S8, s8
<1>9. s9 \in Seq(S9) /\ Once(s9)
  BY <1>0, <1>8, OnceMore DEF S9, s9
<1>10. Once(s10)
  BY <1>0, <1>9, OnceMore DEF s10
<1> QED
  BY <1>10 DEF Registered, s1, s2, s3, s4, s5, s6, s7, s8, s9, s10

------------------------------------------------------------------------------
(* The invariant of the nodes that abandoned matches leave behind. *)

Reads(g, n) == \E nd \in NodesOf(g) : \E j \in DOMAIN nd.in : nd.in[j].n = FusedName(n)

\* The names the pass found, in their order.
Order == NameSeq(start)

\* Nobody reads what is left behind, nor the name a node still to be visited would be fused to.
UnreadSpare == \A n \in spare : ~Reads(graph, n)
UnreadAhead == \A k \in node_index..node_size : ~Reads(graph, Order[k])

\* Matches have been abandoned on visited nodes only; on the current one by a rewriter that has
\* had its turn, so that none that is still to come can match.
SpareBehind == \A n \in spare : \E k \in 1..node_size : k <= node_index /\ n = Order[k]
SpareAnchored ==
  node_index <= node_size /\ Node.name \in spare =>
    \E k \in 1..rewriter - 1 : Anchored(rewriters[k], View(graph, indexes), Node)

SpareInv ==
  /\ Once(rewriters)
  /\ LP!Fresh(Order) =>
       /\ UnreadSpare
       /\ pc = "scan" => UnreadAhead /\ SpareBehind /\ SpareAnchored

\* On a fresh graph, what the loop has still to visit has the names it had.
LEMMA OrderFacts ==
  ASSUME GInv, TInv, pc = "scan", LP!Fresh(Order)
  PROVE  /\ node_index \in Nat \ {0} /\ node_size \in Nat
         /\ \A i \in 1..node_size : Order[i] \in Name
         /\ \A i, j \in 1..node_size : Order[i] = Order[j] => i = j
         /\ node_index <= node_size => node_index \in 1..node_size /\ Node.name = Order[node_index]
PROOF
<1>1. node_index \in Nat \ {0} /\ node_size \in Nat /\ Order \in Seq(Name)
  BY DEF GInv, LP!Inv, LP!LoopTypeOK, Order, Name, LP!Name, Appendix, LP!Appendix
<1>2. node_size = Len(Order) /\ DOMAIN Order = 1..node_size
  BY <1>1, LenProperties DEF TInv, LP!Unreached, Order
<1>3. \A i \in 1..node_size : Order[i] \in Name
  BY <1>1, <1>2, ElementOfSeq
<1>4. \A i, j \in 1..node_size : Order[i] = Order[j] => i = j
  BY <1>2 DEF LP!Fresh
<1>5. ASSUME node_index <= node_size
      PROVE  node_index \in 1..node_size /\ Node.name = Order[node_index]
  <2>1. NameSeq(graph)[node_index] = Node.name
    BY <1>5, VisitedNode
  <2>2. node_index \in 1..node_size
    BY <1>1, <1>5
  <2> QED
    BY <1>1, <2>1, <2>2 DEF TInv, LP!Unreached, Order
<1> QED
  BY <1>1, <1>3, <1>4, <1>5

\* A pass starts on a graph in which every input is the output of a node it found.
LEMMA BeginUnread ==
  ASSUME GInv, CInv, RunGraphOptimization
  PROVE  SpareInv'
PROOF
<1>1. /\ rewriters' = Registered(env) /\ graph' = graph /\ start' = graph /\ spare' = {}
      /\ node_index' = 1 /\ node_size' = Len(graph) /\ pc' = "scan"
  BY DEF RunGraphOptimization
<1>2. Once(rewriters')
  BY <1>1, RegisteredOnce
<1>3. (UnreadSpare /\ SpareBehind /\ SpareAnchored)'
  BY <1>1 DEF UnreadSpare, SpareBehind, SpareAnchored
<1>4. ASSUME LP!Fresh(Order)'
      PROVE  UnreadAhead'
  <2>1. /\ NameSeq(graph) \in Seq(Name) /\ Len(NameSeq(graph)) = Len(graph)
        /\ \A i \in 1..Len(graph) : NameSeq(graph)[i] = graph[i].name
    BY NameSeqFacts DEF GInv, Named
  <2>2. DOMAIN NameSeq(graph) = 1..Len(graph) /\ DOMAIN graph = 1..Len(graph)
    BY <2>1, LenProperties DEF CInv, GraphOK
  <2>3. LP!Fresh(NameSeq(graph))
    BY <1>1, <1>4 DEF Order
  <2>4. \A i, k \in 1..Len(graph) : graph[i].name # FusedName(NameSeq(graph)[k])
    BY <2>1, <2>2, <2>3 DEF LP!Fresh, LP!FusedName, FusedName, LP!Appendix, Appendix
  <2>5. \A nd \in NodesOf(graph) : \A j \in DOMAIN nd.in :
          \E i \in 1..Len(graph) : graph[i].name = nd.in[j].n
    BY <2>2 DEF CInv, GraphOK, Resolves
  <2>6. \A k \in 1..Len(graph) : ~Reads(graph, NameSeq(graph)[k])
    BY <2>4, <2>5 DEF Reads
  <2> QED
    BY <1>1, <2>6 DEF UnreadAhead, Order
<1> QED
  BY <1>2, <1>3, <1>4 DEF SpareInv

\* The fused node reads what is read already.
LEMMA FusedNodeReads ==
  ASSUME GInv, TInv, CInv, Trying, Outcome.kind # "none", NEW n, Reads(Append(graph, FusedNode), n)
  PROVE  Reads(graph, n)
PROOF
<1> DEFINE f == FusedNode
           v == View(graph, indexes)
<1>1. /\ NodeOK(f)
      /\ \A j \in DOMAIN f.in : Resolves(graph, f.in[j]) /\ f.in[j] \in Refs(v)
  BY FusedNodeOK
<1>2. Nodes(v) = NodesOf(graph)
  BY ScanView DEF Trying
<1> HIDE DEF f, v
<1>3. NodesOf(Append(graph, f)) = NodesOf(graph) \cup {f}
  BY <1>1, AppendOK DEF CInv
<1>4. PICK nd \in NodesOf(graph) \cup {f} : \E j \in DOMAIN nd.in : nd.in[j].n = FusedName(n)
  BY <1>3 DEF Reads, f
<1>5. CASE nd \in NodesOf(graph)
  BY <1>4, <1>5 DEF Reads
<1>6. CASE nd = f
  <2>1. PICK j \in DOMAIN f.in : f.in[j].n = FusedName(n)
    BY <1>4, <1>6
  <2>2. \E x \in NodesOf(graph) : \E l \in DOMAIN x.in : x.in[l] = f.in[j]
    BY <1>1, <1>2 DEF Refs
  <2> QED
    BY <2>1, <2>2 DEF Reads
<1> QED
  BY <1>4, <1>5, <1>6

\* Redirecting users makes them read the node they are redirected to, and no other.
LEMMA RedirectReads ==
  ASSUME NEW g, GraphOK(g), NEW old, NEW new, NEW n, FusedName(n) # new,
         Reads(RedirectUsers(g, old, new), n)
  PROVE  Reads(g, n)
PROOF
<1> DEFINE hit(ref) == {k \in DOMAIN old : old[k] = ref}
           port(ref) == (CHOOSE k \in hit(ref) : \A l \in hit(ref) : k <= l) - 1
           Redirected(ref) == IF hit(ref) = {} THEN ref ELSE [n |-> new, p |-> port(ref)]
           r == RedirectUsers(g, old, new)
<1>1. DOMAIN g = 1..Len(g)
  BY LenProperties DEF GraphOK
<1>2. r = [i \in 1..Len(g) |->
             [name |-> g[i].name, op |-> g[i].op, attr |-> g[i].attr, val |-> g[i].val,
              in |-> [j \in DOMAIN g[i].in |-> Redirected(g[i].in[j])]]]
  BY DEF RedirectUsers
<1> HIDE DEF port, hit
<1>3. \A ref : Redirected(ref) = ref \/ Redirected(ref).n = new
  OBVIOUS
<1> HIDE DEF Redirected
<1>4. DOMAIN r = 1..Len(g)
      /\ \A i \in 1..Len(g) : r[i].in = [j \in DOMAIN g[i].in |-> Redirected(g[i].in[j])]
  BY <1>2
<1>5. PICK nd \in NodesOf(r) : \E j \in DOMAIN nd.in : nd.in[j].n = FusedName(n)
  BY DEF Reads
<1> HIDE DEF r
<1>6. PICK i \in 1..Len(g) : nd.in = [j \in DOMAIN g[i].in |-> Redirected(g[i].in[j])]
  BY <1>4 DEF NodesOf
<1>7. PICK j \in DOMAIN g[i].in : Redirected(g[i].in[j]).n = FusedName(n)
  <2>1. PICK j \in DOMAIN nd.in : nd.in[j].n = FusedName(n)
    BY <1>5
  <2>2. j \in DOMAIN g[i].in /\ nd.in[j] = Redirected(g[i].in[j])
    BY <1>6, <2>1
  <2> QED
    BY <2>1, <2>2
<1>8. g[i].in[j].n = FusedName(n)
  BY <1>3, <1>7
<1> QED
  BY <1>1, <1>7, <1>8 DEF Reads, NodesOf

\* A match abandoned: nobody read the node before, and nobody reads the new one.
LEMMA AbandonUnread ==
  ASSUME GInv, TInv, CInv, SpareInv, AbandonRewrite, LP!Fresh(Order)
  PROVE  (UnreadSpare /\ UnreadAhead /\ SpareBehind /\ SpareAnchored)'
PROOF
<1>1. /\ Trying /\ Outcome.kind # "none" /\ graph' = Append(graph, FusedNode)
      /\ indexes' = indexes /\ spare' = spare \cup {Node.name} /\ rewriter' = rewriter + 1
      /\ rewriters' = rewriters /\ node_index' = node_index /\ node_size' = node_size
      /\ start' = start /\ pc = "scan" /\ node_index <= node_size
      /\ rewriter <= Len(rewriters)
  BY DEF AbandonRewrite, Trying
<1>2. Order' = Order
  BY <1>1 DEF Order
<1>3. UnreadSpare /\ UnreadAhead /\ SpareBehind /\ SpareAnchored
  BY <1>1 DEF SpareInv
<1>4. /\ node_index \in 1..node_size /\ node_size \in Nat /\ Node.name = Order[node_index]
  BY <1>1, OrderFacts
<1>5. \A n : Reads(graph', n) => Reads(graph, n)
  BY <1>1, FusedNodeReads
<1>6. ~Reads(graph, Node.name)
  BY <1>3, <1>4 DEF UnreadAhead
<1>7. UnreadSpare'
  BY <1>1, <1>3, <1>5, <1>6 DEF UnreadSpare
<1>8. UnreadAhead'
  BY <1>1, <1>2, <1>3, <1>5 DEF UnreadAhead
<1>9. SpareBehind'
  BY <1>1, <1>2, <1>3, <1>4 DEF SpareBehind
<1>10. SpareAnchored'
  <2> DEFINE v == View(graph, indexes)
             w == View(graph', indexes)
  <2>1. ViewOK(v) /\ Nodes(v) = NodesOf(graph)
    BY <1>1, ScanView
  <2>2. node_index \in 1..Len(graph)
    BY <1>1, VisitedNode
  <2>3. /\ DOMAIN graph = 1..Len(graph) /\ \A i \in DOMAIN graph : graph'[i] = graph[i]
    <3>1. graph \in Seq(NodesOf(graph) \cup {FusedNode}) /\ DOMAIN graph = 1..Len(graph)
      BY SeqMonotonic, LenProperties DEF CInv, GraphOK
    <3> QED
      BY <1>1, <3>1, AppendProperties
  <2>4. Node \in Nodes(v) /\ Node' = Node
    BY <1>1, <2>1, <2>2, <2>3 DEF Node, NodesOf
  <2>5. /\ w.at = v.at /\ \A i \in DOMAIN v.nodes : w.nodes[i] = v.nodes[i]
    BY <2>3 DEF View
  <2>6. rewriter \in Nat \ {0} /\ rewriters[rewriter] \in FusedOps
    <3>1. rewriter \in 1..Len(rewriters) /\ rewriters \in Seq(FusedOps)
      BY <1>1, LenProperties DEF TInv
    <3> QED
      BY <3>1, ElementOfSeq DEF TInv
  <2>7. Anchored(rewriters[rewriter], v, Node)
    <3>1. MatchAndRewrite(rewriters[rewriter], v, Node).kind # "none"
      BY <1>1 DEF Outcome
    <3> QED
      BY <2>6, <3>1, MatchAnchored
  <2> HIDE DEF v, w
  <2>8. Anchored(rewriters[rewriter], w, Node)
    BY <2>1, <2>4, <2>5, <2>6, <2>7, AnchorsStay
  <2>9. View(graph, indexes)' = w /\ rewriter \in 1..rewriter' - 1
    BY <1>1, <2>6 DEF w
  <2> QED
    BY <1>1, <2>4, <2>8, <2>9 DEF SpareAnchored
<1> QED
  BY <1>7, <1>8, <1>9, <1>10

\* The loop goes on to a node nobody has given up on, with nothing more read.
LEMMA MoveOn ==
  ASSUME GInv, TInv, SpareInv, pc = "scan", LP!Fresh(Order),
         GInv', TInv', pc' = "scan",
         start' = start, spare' = spare, node_size' = node_size, node_index' > node_index,
         \A n \in Name :
           Reads(graph', n) => Reads(graph, n) \/ (n = Node.name /\ node_index <= node_size)
  PROVE  (UnreadAhead /\ SpareBehind /\ SpareAnchored)'
PROOF
<1>1. Order' = Order /\ LP!Fresh(Order)'
  BY DEF Order
<1>2. UnreadAhead /\ SpareBehind
  BY DEF SpareInv
<1>3. /\ node_index \in Nat \ {0} /\ node_size \in Nat
      /\ \A i \in 1..node_size : Order[i] \in Name
      /\ \A i, j \in 1..node_size : Order[i] = Order[j] => i = j
      /\ node_index <= node_size => node_index \in 1..node_size /\ Node.name = Order[node_index]
  BY OrderFacts
<1>4. /\ node_index' \in Nat \ {0}
      /\ node_index' <= node_size => node_index' \in 1..node_size /\ Node.name' = Order[node_index']
  <2>1. node_index' \in Nat \ {0}
    BY DEF GInv, LP!Inv, LP!LoopTypeOK
  <2>2. ASSUME node_index' <= node_size
        PROVE  node_index' \in 1..node_size /\ Node.name' = Order[node_index']
    <3> DEFINE names == NameSeq(graph')
    <3>1. node_index' \in 1..node_size /\ node_size <= Len(names)
      BY <1>3, <2>1, <2>2 DEF GInv, LP!Inv, LP!IndexCoversScan
    <3>2. names[node_index'] = Order[node_index']
      BY <1>1, <2>2, <3>1 DEF TInv, LP!Unreached, Order
    <3>3. \A i \in 1..Len(names) : names[i] = graph'[i].name
      BY NameSeqFacts DEF GInv, Named
    <3>4. Len(names) \in Nat
      BY NameSeqFacts DEF GInv, Named
    <3> HIDE DEF names
    <3>5. node_index' \in 1..Len(names)
      BY <1>3, <3>1, <3>4
    <3> QED
      BY <3>1, <3>2, <3>3, <3>5 DEF Node
  <2> QED
    BY <2>1, <2>2
<1>5. UnreadAhead'
  <2> SUFFICES ASSUME NEW k \in node_index'..node_size
               PROVE  ~Reads(graph', Order[k])
    BY <1>1 DEF UnreadAhead
  <2>1. k \in node_index..node_size /\ k \in 1..node_size /\ k # node_index
    BY <1>3, <1>4
  <2>2. ~Reads(graph, Order[k])
    BY <1>2, <2>1 DEF UnreadAhead
  <2>3. node_index <= node_size => Order[k] # Node.name
    BY <1>3, <2>1
  <2> QED
    BY <1>3, <2>1, <2>2, <2>3
<1>6. SpareBehind'
  BY <1>1, <1>2, <1>3, <1>4 DEF SpareBehind
<1>7. SpareAnchored'
  <2> SUFFICES ASSUME node_index' <= node_size, Node.name' \in spare
               PROVE  FALSE
    BY DEF SpareAnchored
  <2>1. PICK k \in 1..node_size : k <= node_index /\ Node.name' = Order[k]
    BY <1>2 DEF SpareBehind
  <2>2. node_index' = k
    BY <1>3, <1>4, <2>1
  <2> QED
    BY <1>3, <1>4, <2>1, <2>2
<1> QED
  BY <1>5, <1>6, <1>7

\* A match: no other rewriter has given up on the node, so nobody reads what is left behind.
LEMMA RewriteUnread ==
  ASSUME GInv, TInv, CInv, SpareInv, Rewrite, GInv', TInv', LP!Fresh(Order)
  PROVE  (UnreadSpare /\ UnreadAhead /\ SpareBehind /\ SpareAnchored)'
PROOF
<1> DEFINE grown == Append(graph, FusedNode)
           i == indexes[Node.name]
           swapped == SwapElements(grown, i, Len(grown))
           new == FusedName(Node.name)
<1>1. /\ Trying /\ Outcome.kind # "none" /\ pc = "scan" /\ pc' = "scan" /\ start' = start
      /\ graph' = RedirectUsers(swapped, Outcome.old, new)
      /\ spare' = spare /\ node_size' = node_size /\ node_index <= node_size
  BY DEF Rewrite, Trying, FusedNode
<1>2. node_index' > node_index
  BY RewriteProgresses
<1>3. NodeOK(FusedNode) /\ \A j \in DOMAIN FusedNode.in : Resolves(graph, FusedNode.in[j])
  BY <1>1, FusedNodeOK
<1>4. GraphOK(grown)
  BY <1>3, AppendOK DEF CInv
<1>5. i \in 1..Len(grown) /\ Len(grown) \in 1..Len(grown)
  <2>1. i \in 1..Len(graph)
    BY <1>1, VisitedNode DEF Trying
  <2>2. Len(graph) \in Nat
    BY LenProperties DEF CInv, GraphOK
  <2>3. Len(grown) = Len(graph) + 1
    <3>1. graph \in Seq(NodesOf(graph) \cup {FusedNode})
      BY SeqMonotonic DEF CInv, GraphOK
    <3> QED
      BY <3>1, AppendProperties
  <2> HIDE DEF i, grown
  <2> QED
    BY <2>1, <2>2, <2>3
<1>6. \A n : Reads(grown, n) => Reads(graph, n)
  BY <1>1, FusedNodeReads
<1> HIDE DEF grown, i
<1>7. GraphOK(swapped) /\ NodesOf(swapped) = NodesOf(grown)
  BY <1>4, <1>5, SwapOK
<1> HIDE DEF swapped
<1>8. \A n : Reads(graph', n) => FusedName(n) = new \/ Reads(graph, n)
  BY <1>1, <1>6, <1>7, RedirectReads DEF Reads
<1>9. /\ \A k \in 1..node_size : Order[k] \in Name
      /\ Node.name \in Name
  BY <1>1, OrderFacts, VisitedNode
<1>10. Node.name \notin spare
  <2> SUFFICES ASSUME Node.name \in spare
               PROVE  FALSE
    OBVIOUS
  <2>1. PICK k \in 1..rewriter - 1 : Anchored(rewriters[k], View(graph, indexes), Node)
    BY <1>1 DEF SpareInv, SpareAnchored
  <2>2. /\ rewriter \in 1..Len(rewriters) /\ k \in 1..Len(rewriters) /\ k # rewriter
        /\ rewriters \in Seq(FusedOps)
    BY <1>1, LenProperties DEF TInv, Trying
  <2>3. rewriters[k] \in FusedOps /\ rewriters[rewriter] \in FusedOps
    BY <2>2, ElementOfSeq
  <2>4. rewriters[k] # rewriters[rewriter]
    BY <2>2 DEF SpareInv, Once
  <2>5. MatchAndRewrite(rewriters[rewriter], View(graph, indexes), Node).kind # "none"
    BY <1>1 DEF Outcome
  <2> QED
    BY <2>1, <2>3, <2>4, <2>5, MatchAnchored, AnchorsExclude
<1>11. \A n \in Name : FusedName(n) = new => n = Node.name
  BY <1>9, FusedNames
<1>12. UnreadSpare'
  <2>1. UnreadSpare /\ \A n \in spare : n \in Name
    BY <1>1, <1>9 DEF SpareInv, SpareBehind
  <2> QED
    BY <1>1, <1>8, <1>10, <1>11, <2>1 DEF UnreadSpare
<1>13. (UnreadAhead /\ SpareBehind /\ SpareAnchored)'
  <2>1. \A n \in Name :
          Reads(graph', n) => Reads(graph, n) \/ (n = Node.name /\ node_index <= node_size)
    BY <1>1, <1>8, <1>11
  <2> QED
    BY <1>1, <1>2, <2>1, MoveOn
<1> QED
  BY <1>12, <1>13

\* What stays of a graph reads what it has read.
LEMMA PruneUnread ==
  ASSUME GInv, CInv, SpareInv, Prune
  PROVE  SpareInv'
PROOF
<1>1. /\ graph' = NodesNamed(graph, LiveNames(graph, fetch)) /\ pc' = "pruned"
      /\ start' = start /\ spare' = spare /\ rewriters' = rewriters
  BY DEF Prune
<1>2. NodesOf(graph') \subseteq NodesOf(graph)
  BY PrunedNodes
<1>3. \A n : Reads(graph', n) => Reads(graph, n)
  BY <1>2 DEF Reads
<1> QED
  BY <1>1, <1>3 DEF SpareInv, UnreadSpare, Order

\* One step of the optimizer or of grappler.
LEMMA SpareInvStep == GInv /\ TInv /\ CInv /\ SpareInv /\ [Next]_vars => SpareInv'
PROOF
<1> SUFFICES ASSUME GInv, TInv, CInv, SpareInv, [Next]_vars
             PROVE  SpareInv'
  OBVIOUS
<1>1. GInv' /\ TInv'
  BY GInvInductive, TInvStep
<1>2. CASE Prune
  BY <1>2, PruneUnread
<1>3. CASE RunGraphOptimization
  BY <1>3, BeginUnread
<1>4. CASE AbandonRewrite
  <2>1. rewriters' = rewriters /\ Order' = Order
    BY <1>4 DEF AbandonRewrite, Order
  <2> QED
    BY <1>4, <2>1, AbandonUnread DEF SpareInv
<1>5. CASE Rewrite
  <2>1. rewriters' = rewriters /\ Order' = Order
    BY <1>5 DEF Rewrite, Order
  <2> QED
    BY <1>1, <1>5, <2>1, RewriteUnread DEF SpareInv
<1>6. CASE NextNode
  <2>1. /\ rewriters' = rewriters /\ Order' = Order /\ graph' = graph /\ spare' = spare
        /\ start' = start /\ node_size' = node_size /\ node_index' = node_index + 1
        /\ pc = "scan" /\ pc' = "scan"
    BY <1>6 DEF NextNode, Order
  <2>2. node_index' > node_index
    BY <2>1 DEF GInv, LP!Inv, LP!LoopTypeOK
  <2>3. ASSUME LP!Fresh(Order)
        PROVE  (UnreadAhead /\ SpareBehind /\ SpareAnchored)'
    BY <1>1, <2>1, <2>2, <2>3, MoveOn
  <2> QED
    BY <2>1, <2>3 DEF SpareInv, UnreadSpare
<1>7. CASE NoRewrite
  <2>1. /\ rewriters' = rewriters /\ Order' = Order /\ graph' = graph /\ spare' = spare
        /\ node_size' = node_size /\ node_index' = node_index /\ rewriter' = rewriter + 1
        /\ indexes' = indexes /\ pc = "scan" /\ pc' = "scan" /\ Node' = Node
    BY <1>7 DEF NoRewrite, Trying, Order, Node
  <2>2. rewriter \in Nat \ {0}
    BY DEF TInv
  <2>3. SpareAnchored => SpareAnchored'
    BY <2>1, <2>2 DEF SpareAnchored
  <2> QED
    BY <2>1, <2>3 DEF SpareInv, UnreadSpare, UnreadAhead, SpareBehind
<1>8. CASE Finish
  <2>1. /\ rewriters' = rewriters /\ Order' = Order /\ graph' = graph /\ spare' = spare
        /\ pc' = "meta"
    BY <1>8 DEF Finish, Order
  <2> QED
    BY <2>1 DEF SpareInv, UnreadSpare
<1>9. CASE Optimized \/ UNCHANGED vars
  <2>1. UNCHANGED vars
    BY <1>9 DEF Optimized
  <2> QED
    BY <2>1 DEF vars, SpareInv, UnreadSpare, UnreadAhead, SpareBehind, SpareAnchored, Order, Node
<1> QED
  BY <1>2, <1>3, <1>4, <1>5, <1>6, <1>7, <1>8, <1>9 DEF Next

\* In a pass over a graph no earlier pass has fused anything in, and until the next one, the
\* node an abandoned match leaves behind is read by nobody, whatever the graph: the branches
\* that return false run before any user is redirected, no other rewriter matches the node
\* afterwards, and no node had the name before.  (Without the condition the loop does not rule
\* it out: a fetched node that was fused is met again, and a match abandoned on it leaves a node
\* behind whose name is that of the first fused node, which others read.)
THEOREM OptimizerSpareUnread == Spec => [](Loop!Fresh(NameSeq(start)) => SpareUnread)
PROOF
<1>1. ASSUME GInv, CInv, SpareInv, Loop!Fresh(NameSeq(start))
      PROVE  SpareUnread
  <2>1. LP!Fresh(Order)
    BY <1>1 DEF Loop!Fresh, LP!Fresh, Loop!FusedName, LP!FusedName, Loop!Appendix, LP!Appendix,
       Order
  <2>2. UnreadSpare
    BY <1>1, <2>1 DEF SpareInv
  <2> QED
    BY <2>2 DEF SpareUnread, UnreadSpare, Reads, NodesOf
<1>2. Init => SpareInv
  BY EmptySeq DEF Init, SpareInv, UnreadSpare, Once
<1>3. Init => GInv /\ TInv /\ CInv /\ SpareInv
  BY <1>2, GInvInductive, TInvInit, CInvInit
<1>4. GInv /\ TInv /\ CInv /\ SpareInv /\ [Next]_vars => (GInv /\ TInv /\ CInv /\ SpareInv)'
  BY GInvInductive, TInvStep, CInvStep, SpareInvStep
<1> QED
  BY <1>1, <1>3, <1>4, PTL DEF Spec
====
