----------------------------- MODULE RewriteLoop -----------------------------
(***************************************************************************)
(* What GraphOptimizer::optimize promises whatever its rewriters match:    *)
(* the graph reduced to the names of its nodes, in order, and the loop     *)
(* that walks over it while nodes are appended, swapped and indexed.       *)
(* GraphOptimizer implements this specification.                           *)
(***************************************************************************)
EXTENDS NodeGraph

VARIABLES
  names,   \* the name of the node at each position
  index,   \* node_indexes_
  at,      \* node_index: the position the loop looks at
  size,    \* node_size: the positions the loop covers
  on,      \* optimize() is running
  start,   \* names when it started
  spare    \* nodes for which a rewriter added a fused node and then gave up

loopVars == <<names, index, at, size, on, start, spare>>

LoopInit ==
  /\ names \in Seq(Name)
  /\ index = <<>> /\ at = 1 /\ size = 0 /\ on = FALSE
  /\ start = <<>> /\ spare = {}

\* Between two passes other optimizers hand over another graph.
HandOver ==
  /\ ~on
  /\ names' \in Seq(Name)
  /\ UNCHANGED <<index, at, size, on, start, spare>>

Begin ==
  /\ ~on
  /\ on' = TRUE
  /\ index' = Reindexed(names, <<>>)
  /\ at' = 1 /\ size' = Len(names)
  /\ start' = names /\ spare' = {}
  /\ UNCHANGED names

Abandon ==
  /\ on /\ at <= size
  /\ names' = Append(names, FusedName(names[at]))
  /\ spare' = spare \cup {names[at]}
  /\ UNCHANGED <<index, at, size, on, start>>

\* The fused node takes the position the index gives for the node, the node goes to the end,
\* and the loop resumes behind the position the new index gives for the fused node.
Replace ==
  /\ on /\ at <= size
  /\ LET grown == Append(names, FusedName(names[at]))
     IN  names' = SwapElements(grown, index[names[at]], Len(grown))
  /\ index' = Reindexed(names', index)
  /\ at' = index'[FusedName(names[at])] + 1
  /\ UNCHANGED <<size, on, start, spare>>

Advance ==
  /\ on /\ at <= size
  /\ at' = at + 1
  /\ UNCHANGED <<names, index, size, on, start, spare>>

End ==
  /\ on /\ at > size
  /\ on' = FALSE
  /\ UNCHANGED <<names, index, at, size, start, spare>>

LoopNext == HandOver \/ Begin \/ Abandon \/ Replace \/ Advance \/ End

LoopSpec == LoopInit /\ [][LoopNext]_loopVars

------------------------------------------------------------------------------
NamesIn(s) == {s[i] : i \in DOMAIN s}

\* A graph TensorFlow accepts, that no earlier pass fused anything in: names are unique and
\* no node has the name another node would get when fused.
Fresh(s) ==
  /\ \A i, j \in DOMAIN s : s[i] = s[j] => i = j
  /\ \A i, j \in DOMAIN s : s[i] # FusedName(s[j])

LoopTypeOK ==
  /\ names \in Seq(Name)
  /\ start \in Seq(Name)
  /\ at \in Nat \ {0} /\ size \in Nat
  /\ on \in BOOLEAN
  /\ spare \subseteq Name

\* node_indexes_ is never wrong about a name it holds: not after nodes were appended behind
\* its back (Abandon), not after elements were swapped.
IndexSound ==
  on => \A n \in DOMAIN index : index[n] \in 1..Len(names) /\ names[index[n]] = n

\* The unguarded lookup node_indexes.at(node->name()) of a rewriter finds its key for every
\* position the loop covers, and never leads to a position before it.
IndexCoversScan ==
  on => /\ size <= Len(names)
        /\ \A i \in 1..size : names[i] \in DOMAIN index /\ i <= index[names[i]]

\* A match never removes a node: whatever was in the graph is still there.
NodesKept == on => NamesIn(start) \subseteq NamesIn(names)

\* Two nodes have one name only after a rewriter gave up half-way, and then it is the name of
\* a fused node for the node that rewriter looked at.
UniqueNames ==
  on /\ Fresh(start) =>
    \A i, j \in DOMAIN names :
      names[i] = names[j] => i = j \/ \E n \in spare : names[i] = FusedName(n)

\* Where everything is, on a fresh graph: what the loop has not reached is as it was, what it
\* has passed is fused or as it was, and behind what it covers are the nodes that were fused
\* and the fused nodes of rewriters that gave up.
ScanOrder ==
  on /\ Fresh(start) =>
    /\ size = Len(start)
    /\ \A i \in 1..size : i >= at => names[i] = start[i]
    /\ \A i \in 1..size : names[i] \in {start[i], FusedName(start[i])}
    /\ \A k \in size + 1..Len(names) : \E i \in 1..size :
         \/ i < at /\ names[k] = start[i]
         \/ start[i] \in spare /\ names[k] = FusedName(start[i])

\* The loop never goes back, so it ends: node_indexes_.at(new_node_name) is no position the
\* loop has been at.
ScanProgresses == [][on /\ on' /\ at' # at => at' > at]_loopVars

\* On a fresh graph, and unless a rewriter gave up half-way, no node is jumped over.
ScanInOrder ==
  [][on /\ on' /\ at' # at /\ Fresh(start) /\ spare = {} => at' = at + 1]_loopVars
=============================================================================
