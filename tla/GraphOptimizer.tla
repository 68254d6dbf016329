---------------------------- MODULE GraphOptimizer ----------------------------
(***************************************************************************)
(* annc::run_graph_optimization and GraphOptimizer::optimize, the pass     *)
(* ANNC adds in front of grappler's remapper.  The environment selects the *)
(* rewriters; the pass builds the name index and walks over the nodes the  *)
(* graph had when it started, offering each one to the rewriters in the    *)
(* order of registration.  One step of the model is one call of            *)
(* match_and_rewrite, or one move of the loop.  Grappler's meta optimizer  *)
(* runs the remapper once per iteration, with the model pruner before it.  *)
(***************************************************************************)
EXTENDS FusionRewriters

CONSTANTS
  Items,        \* grappler items: [nodes |-> the GraphDef, fetch |-> the names fetched]
  Environments, \* [all |-> ANNC_FUSED_ALL = "1", on |-> the ops whose own variable is "1"]
  Iterations    \* iterations of the meta optimizer

OutputCount(nd) ==
  CASE nd.op \in {"Unique", "SparseReshape", "KPFusedSparseReshape",
                  "KPFusedSparseSegmentReduce", "KPFusedEmbeddingPadding",
                  "KPFusedEmbeddingPaddingFast"} -> 2
    [] nd.op \in {"KPFusedSparseSegmentReduceNonzero", "KPFusedSparseSelect",
                  "KPFusedGather"} -> 3
    [] nd.op = "DynamicPartition" -> nd.attr["num_partitions"]
    [] OTHER -> 1

\* The node is there and has that output, or can be awaited.
Resolves(g, ref) == \E k \in DOMAIN g : g[k].name = ref.n /\ ref.p < OutputCount(g[k])

\* The inputs TensorFlow declares for the ops whose arity a rewriter takes for granted.
Declared(nd) ==
  /\ nd.op = "Cast" => Len(nd.in) >= 1
  /\ nd.op = "Reshape" => Len(nd.in) >= 2
  /\ nd.op = "StridedSlice" => Len(nd.in) >= 4
  /\ nd.op = "ParallelDynamicStitch" => Len(nd.in) >= 2

\* What TensorFlow has checked of a GraphDef: it is a sequence of named nodes, each with the
\* inputs its op declares, each of which another node produces; what is fetched has a name.
ASSUME ItemsAssumption ==
  \A item \in Items :
    LET g == item.nodes
    IN  /\ g \in Seq({g[i] : i \in DOMAIN g})
        /\ \A i \in DOMAIN g :
             /\ g[i].name \in Name
             /\ g[i].in \in Seq([n : Name, p : Nat \cup {Control}]) /\ Declared(g[i])
             /\ \A j \in DOMAIN g[i].in : Resolves(g, g[i].in[j])
        /\ item.fetch \subseteq Name

ASSUME IterationsAssumption == Iterations \in Nat

VARIABLES
  graph, fetch,
  env, rewriters,          \* the environment, and what was registered from it
  indexes,                 \* node_indexes_
  node_index, node_size,   \* the loop of optimize()
  rewriter,                \* position in rewriters_ of the inner loop
  pc,                      \* "meta", "pruned" or "scan"
  iteration,
  start,                   \* history: the graph this pass was given
  spare                    \* history: nodes that left a half-built fused node behind in this pass

vars == <<graph, fetch, env, rewriters, indexes, node_index, node_size, rewriter, pc,
          iteration, start, spare>>

\* The two whose condition does not mention enable_all.
NotInAll == {"KPFusedEmbeddingActionIdGather", "KPFusedSparseSegmentReduceNonzero"}

RegisterRewriter(e, op) ==
  IF op \in e.on \/ (e.all /\ op \notin NotInAll) THEN <<op>> ELSE <<>>

Registered(e) ==
  RegisterRewriter(e, "KPFusedSparseDynamicStitch")
    \o RegisterRewriter(e, "KPFusedSparseSegmentReduce")
    \o RegisterRewriter(e, "KPFusedEmbeddingPaddingFast")
    \o RegisterRewriter(e, "KPFusedEmbeddingPadding")
    \o RegisterRewriter(e, "KPFusedSparseSelect")
    \o RegisterRewriter(e, "KPFusedGather")
    \o RegisterRewriter(e, "KPFusedSparseReshape")
    \o RegisterRewriter(e, "KPFusedEmbeddingActionIdGather")
    \o RegisterRewriter(e, "KPFusedSparseSegmentReduceNonzero")
    \o RegisterRewriter(e, "KPFusedBatchMatMulAddSigmoid")

Init ==
  /\ \E item \in Items : graph = item.nodes /\ fetch = item.fetch
  /\ env \in Environments
  /\ rewriters = <<>>
  /\ indexes = <<>>
  /\ node_index = 1 /\ node_size = 0 /\ rewriter = 1
  /\ pc = "meta"
  /\ iteration = 0
  /\ start = <<>>
  /\ spare = {}

(* The names some fetch depends on, by as many steps as there are nodes. *)
Producers(g, names) ==
  UNION {{g[i].in[j].n : j \in DOMAIN g[i].in} : i \in {k \in DOMAIN g : g[k].name \in names}}

LiveNames(g, roots) ==
  LET reach[k \in 0..Len(g)] ==
        IF k = 0 THEN roots
        ELSE LET names == reach[k - 1] IN names \cup Producers(g, names)
  IN  reach[Len(g)]

\* The nodes with one of the names, in the order the graph has them.
NodesNamed(g, names) ==
  LET kept[k \in 0..Len(g)] ==
        IF k = 0 THEN <<>>
        ELSE IF g[k].name \in names THEN Append(kept[k - 1], g[k])
        ELSE kept[k - 1]
  IN  kept[Len(g)]

\* Grappler's model pruner keeps what the fetches need.
Prune ==
  /\ pc = "meta" /\ iteration < Iterations
  /\ graph' = NodesNamed(graph, LiveNames(graph, fetch))
  /\ pc' = "pruned"
  /\ UNCHANGED <<fetch, env, rewriters, indexes, node_index, node_size, rewriter, iteration,
                 start, spare>>

\* A pass that keeps the index of the pass before (a mutant of FirstIndexes).
StaleIndexes == UpdateNodeIndexes(graph, indexes)

FirstIndexes == UpdateNodeIndexes(graph, <<>>)

\* run_graph_optimization: a new GraphOptimizer, so an empty index that optimize() fills.
RunGraphOptimization ==
  /\ pc = "pruned"
  /\ rewriters' = Registered(env)
  /\ indexes' = FirstIndexes
  /\ node_index' = 1 /\ node_size' = Len(graph) /\ rewriter' = 1
  /\ pc' = "scan"
  /\ iteration' = iteration + 1
  /\ start' = graph
  /\ spare' = {}
  /\ UNCHANGED <<graph, fetch, env>>

Node == graph[node_index]

Trying == pc = "scan" /\ node_index <= node_size /\ rewriter <= Len(rewriters)

Outcome == MatchAndRewrite(rewriters[rewriter], View(graph, indexes), Node)

FusedNode ==
  [name |-> FusedName(Node.name), op |-> rewriters[rewriter], attr |-> Outcome.attr,
   in |-> Outcome.in, val |-> NoTensor]

NoRewrite ==
  /\ Trying /\ Outcome.kind = "none"
  /\ rewriter' = rewriter + 1
  /\ UNCHANGED <<graph, fetch, env, rewriters, indexes, node_index, node_size, pc, iteration,
                 start, spare>>

\* Mutants of AbandonRewrite: the users are redirected, or the elements swapped, before the
\* guard that fails.
AbandonRedirected ==
  /\ Trying /\ Outcome.kind = "half"
  /\ graph' = RedirectUsers(Append(graph, FusedNode), <<Out(Node, 0)>>, FusedNode.name)
  /\ rewriter' = rewriter + 1
  /\ spare' = spare \cup {Node.name}
  /\ UNCHANGED <<fetch, env, rewriters, indexes, node_index, node_size, pc, iteration, start>>
AbandonSwapped ==
  /\ Trying /\ Outcome.kind = "half"
  /\ graph' = SwapElements(Append(graph, FusedNode), node_index, Len(graph) + 1)
  /\ rewriter' = rewriter + 1
  /\ spare' = spare \cup {Node.name}
  /\ UNCHANGED <<fetch, env, rewriters, indexes, node_index, node_size, pc, iteration, start>>

\* The rewriter returns false after nodes->Add(): the node stays at the end of the graph and
\* the index does not know it.
AbandonRewrite ==
  /\ Trying /\ Outcome.kind = "half"
  /\ graph' = Append(graph, FusedNode)
  /\ rewriter' = rewriter + 1
  /\ spare' = spare \cup {Node.name}
  /\ UNCHANGED <<fetch, env, rewriters, indexes, node_index, node_size, pc, iteration, start>>

\* The loop looks at the fused node itself (a mutant of ResumeAt).
ResumeOn(ix, nd) == ix[FusedName(nd.name)]

ResumeAt(ix, nd) == ix[FusedName(nd.name)] + 1

\* The rewriter returns true; optimize() renews the index and resumes behind the fused node.
Rewrite ==
  /\ Trying /\ Outcome.kind = "fused"
  /\ LET grown == Append(graph, FusedNode)
     IN  graph' = RedirectUsers(SwapElements(grown, indexes[Node.name], Len(grown)),
                                Outcome.old, FusedNode.name)
  /\ indexes' = UpdateNodeIndexes(graph', indexes)
  /\ node_index' = ResumeAt(indexes', Node)
  /\ rewriter' = 1
  /\ UNCHANGED <<fetch, env, rewriters, node_size, pc, iteration, start, spare>>

\* The inner loop is over without a match.
NextNode ==
  /\ pc = "scan" /\ node_index <= node_size /\ rewriter > Len(rewriters)
  /\ node_index' = node_index + 1
  /\ rewriter' = 1
  /\ UNCHANGED <<graph, fetch, env, rewriters, indexes, node_size, pc, iteration, start, spare>>

\* optimize() returns and the optimizer is destroyed.
Finish ==
  /\ pc = "scan" /\ node_index > node_size
  /\ pc' = "meta"
  /\ UNCHANGED <<graph, fetch, env, rewriters, indexes, node_index, node_size, rewriter,
                 iteration, start, spare>>

\* The meta optimizer is done: the only state in which the model may stop.
Optimized == pc = "meta" /\ iteration = Iterations /\ UNCHANGED vars

Next ==
  \/ Prune \/ RunGraphOptimization
  \/ NoRewrite \/ AbandonRewrite \/ Rewrite
  \/ NextNode \/ Finish
  \/ Optimized

Spec == Init /\ [][Next]_vars

------------------------------------------------------------------------------
(* Properties. *)

TypeOK ==
  /\ fetch \subseteq Name
  /\ rewriters \in Seq(FusedOps)
  /\ node_index \in Nat \ {0} /\ node_size \in Nat /\ rewriter \in Nat \ {0}
  /\ pc \in {"meta", "pruned", "scan"}
  /\ iteration \in 0..Iterations
  /\ NamesOf(graph) \subseteq Name /\ spare \subseteq NamesOf(start)
  /\ pc = "scan" => indexes \in [DOMAIN indexes -> 1..Len(graph)]

\* The loop over names that this one implements.
Loop == INSTANCE RewriteLoop WITH
  names <- NameSeq(graph), index <- indexes, at <- node_index, size <- node_size,
  on <- pc = "scan", start <- NameSeq(start), spare <- spare

\* optimize() with ANNC's ten rewriters keeps to the loop's specification: whatever they
\* match, nodes are only appended and swapped, and the index is renewed after a match.
ImplementsLoop == Loop!LoopSpec

\* Two nodes have one name only if a rewriter gave up on the node half-way.
UniqueNames == Loop!UniqueNames

\* node_indexes_.at(node->name()) and get_node never meet a missing or a moved name.
IndexSound == Loop!IndexSound

\* Every input, rewritten or not, names an output that exists: replacing the users of several
\* tensors by the outputs of one fused node leaves no reference to a port nobody produces.
InputsResolve ==
  \A i \in DOMAIN graph : \A j \in DOMAIN graph[i].in : Resolves(graph, graph[i].in[j])

\* Names whose inputs are all computable, by as many rounds as there are nodes.
Computable(g) ==
  LET ready[k \in 0..Len(g)] ==
        IF k = 0 THEN {}
        ELSE LET done == ready[k - 1]
             IN  {g[i].name : i \in {l \in DOMAIN g :
                    \A j \in DOMAIN g[l].in : g[l].in[j].n \in done}}
  IN  ready[Len(g)]

\* A fused node is fed by what fed the pattern and feeds what used it: replacing users never
\* closes a cycle.
Acyclic == Computable(graph) = NamesOf(graph)

\* The node an abandoned match leaves behind is read by nobody: the branch that returns false
\* runs before any user is redirected.
SpareUnread ==
  \A n \in spare : \A i \in DOMAIN graph : \A j \in DOMAIN graph[i].in :
    graph[i].in[j].n # FusedName(n)

\* What REGISTER_OP demands of the graph TensorFlow is given in the end: each fused node has
\* the inputs its op declares.
FusedWellFormed ==
  pc = "meta" /\ iteration = Iterations =>
    \A i \in DOMAIN graph : graph[i].op \in FusedOps =>
      LET nd == graph[i]
      IN  Len(nd.in) = RegisteredInputs(nd.op, IF "N" \in DOMAIN nd.attr THEN nd.attr["N"] ELSE 0)

\* What is left to do: phases of the meta optimizer, nodes to visit, rewriters to try.
Phase == (CASE pc = "scan" -> 3 [] pc = "meta" -> 2 [] pc = "pruned" -> 1)
           + 3 * (Iterations - iteration)
NodesLeft == IF pc = "scan" /\ node_index <= node_size THEN node_size + 1 - node_index ELSE 0
RewritersLeft == IF pc = "scan" THEN Len(rewriters) + 1 - rewriter ELSE 0

\* The optimizer comes to an end although every match makes the graph longer and moves the
\* loop: each step leaves less to do, and never less than nothing.  (No other state than
\* Optimized is without a step: the run checks deadlock.)
Terminates ==
  [][/\ Phase' >= 0 /\ NodesLeft' >= 0 /\ RewritersLeft' >= 0
     /\ \/ Phase' < Phase
        \/ Phase' = Phase /\ NodesLeft' < NodesLeft
        \/ Phase' = Phase /\ NodesLeft' = NodesLeft /\ RewritersLeft' < RewritersLeft]_vars
=============================================================================
