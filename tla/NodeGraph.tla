------------------------------ MODULE NodeGraph ------------------------------
(***************************************************************************)
(* The part of TensorFlow's GraphDef that ANNC's graph optimizer touches,  *)
(* and the helpers of PatternRewriter over it (graph_optimizer/graph_opt). *)
(*                                                                         *)
(* A graph is a sequence of nodes, in the order of GraphDef.node; a node   *)
(* is a record of its name, op, integer attributes, inputs and, for a      *)
(* constant, its tensor.  An input is a reference [n, p]: the name of the  *)
(* producing node and the output port, with p = Control for "^name".       *)
(* "name" and "name:0" are one reference, as grappler normalises them.     *)
(* Names are sequences of strings, so that name + "/kp_fused" is Append.   *)
(* Positions are 1-based here and 0-based in the code.                     *)
(***************************************************************************)
EXTENDS Integers, Sequences, FiniteSets

Control == -1

NoTensor == [dims |-> <<>>, data |-> <<>>]

\* What the code's helpers return as nullptr.
NoNode == [name |-> <<>>, op |-> "", attr |-> <<>>, in |-> <<>>, val |-> NoTensor]

\* fusion_appendix.  A name is the sequence of its parts; that a literal is in STRING is
\* nothing the provers know.
Appendix == "kp_fused"
Name == Seq(STRING \cup {Appendix})
FusedName(n) == Append(n, Appendix)

NamesOf(g) == {g[i].name : i \in DOMAIN g}

\* std::unordered_map filled front to back, from the names of the nodes in order: a later node
\* of the same name wins, and a name that is already there and not in the graph stays.
Reindexed(s, ix) ==
  LET names == {s[i] : i \in 1..Len(s)}
      LastPosition(n) == LET hits == {i \in 1..Len(s) : s[i] = n}
                         IN  CHOOSE i \in hits : \A j \in hits : j <= i
  IN  [n \in DOMAIN ix \cup names |-> IF n \in names THEN LastPosition(n) ELSE ix[n]]

NameSeq(g) == [i \in 1..Len(g) |-> g[i].name]

\* emplace() in place of operator[] (a mutant of UpdateNodeIndexes): a known name keeps the
\* position it had.
KeepNodeIndexes(g, ix) ==
  LET new == Reindexed(NameSeq(g), ix)
  IN  [n \in DOMAIN new |-> IF n \in DOMAIN ix THEN ix[n] ELSE new[n]]

UpdateNodeIndexes(g, ix) == Reindexed(NameSeq(g), ix)

\* A view is what a rewriter works on: the graph, and the index map it was given.
View(g, ix) == [nodes |-> g, at |-> ix]

\* get_node / get_mutable_node.  The map's at() throws for an unknown name.
GetNode(v, ref) == v.nodes[v.at[ref.n]]
Known(v, ref) == ref.p # Control /\ ref.n \in DOMAIN v.at

\* The node behind input k (0-based, as in the code).
Arg(v, nd, k) == GetNode(v, nd.in[k + 1])

\* get_operand: the first input whose producer has the given op.
GetOperand(v, nd, op) ==
  LET fits == {k \in DOMAIN nd.in : Known(v, nd.in[k]) /\ GetNode(v, nd.in[k]).op = op}
  IN  IF fits = {} THEN NoNode
      ELSE GetNode(v, nd.in[CHOOSE k \in fits : \A j \in fits : k <= j])

\* get_user with index 0 (the only one it is called with): the first node of the graph with
\* that op that reads output 0 of nd.
GetUser(v, nd, op) ==
  LET fits == {i \in DOMAIN v.nodes :
                 /\ v.nodes[i].op = op
                 /\ \E k \in DOMAIN v.nodes[i].in : v.nodes[i].in[k] = [n |-> nd.name, p |-> 0]}
  IN  IF fits = {} THEN NoNode
      ELSE v.nodes[CHOOSE i \in fits : \A j \in fits : i <= j]

\* Ports counted from one (a mutant of RedirectUsers).
RedirectFromOne(g, old, new) ==
  [i \in 1..Len(g) |->
     [g[i] EXCEPT !.in = [j \in DOMAIN @ |->
        IF \E k \in DOMAIN old : old[k] = @[j]
        THEN [n |-> new, p |-> CHOOSE k \in DOMAIN old : old[k] = @[j]]
        ELSE @[j]]]]

\* The calls of replace_all_users_with after a match: old[k] becomes port k-1 of the fused
\* node, in the inputs of every node of the graph, the fused node's own included.
\* "^name" inputs are never equal to an old name and stay.
RedirectUsers(g, old, new) ==
  LET Redirected(ref) ==
        LET hit == {k \in DOMAIN old : old[k] = ref}
        IN  IF hit = {} THEN ref
            ELSE [n |-> new, p |-> (CHOOSE k \in hit : \A l \in hit : k <= l) - 1]
  IN  [i \in 1..Len(g) |->
         [name |-> g[i].name, op |-> g[i].op, attr |-> g[i].attr, val |-> g[i].val,
          in |-> [j \in DOMAIN g[i].in |-> Redirected(g[i].in[j])]]]

\* The last element is copied over the other (a mutant of SwapElements).
CopyElement(g, i, j) == [g EXCEPT ![i] = g[j]]

\* RepeatedPtrField::SwapElements.
SwapElements(g, i, j) == [g EXCEPT ![i] = g[j], ![j] = g[i]]

(* Guards of PatternRewriter. *)
IsConst(nd) == nd.op \in {"Const", "HostConst"}

CheckConstShape(nd, dims) == IsConst(nd) /\ nd.val.dims = dims

\* Compares a prefix: the tensor may hold more elements than cmp.
CheckConstValue(nd, cmp) ==
  /\ IsConst(nd)
  /\ Len(nd.val.data) >= Len(cmp)
  /\ \A k \in DOMAIN cmp : nd.val.data[k] = cmp[k]

CheckIntAttr(nd, a, value) == a \in DOMAIN nd.attr /\ nd.attr[a] = value

Is(nd, op, arity) == nd.op = op /\ Len(nd.in) = arity
=============================================================================
