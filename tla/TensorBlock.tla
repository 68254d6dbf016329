----------------------------- MODULE TensorBlock -----------------------------
(***************************************************************************)
(* A block of MLIR operations on tensors, as ANNC's passes use it.         *)
(* External to the repository.                                             *)
(*                                                                         *)
(* A block is [ops: its operations in order, next: the next number]; an    *)
(* operation has one result and is [id: its number, op, in: the operations *)
(* whose results it reads, shape, elem: of the result, attr].  Arguments   *)
(* of the block are operations that come first, "arg"; the last operation  *)
(* is the "return".  The dimensions of shapes are counted from 1.          *)
(***************************************************************************)
EXTENDS FiniteSets, RowMajor

OperationFields == {"id", "op", "in", "shape", "elem", "attr"}
Operation(op, in, shape, elem, attr) ==
  [id |-> 0, op |-> op, in |-> in, shape |-> shape, elem |-> elem, attr |-> attr]

\* The part of a tensor that a slice takes or fills.
Region(off, size) == [off |-> off, size |-> size, stride |-> [d \in DOMAIN off |-> 1]]

Positions(b, v) == {p \in DOMAIN b.ops : b.ops[p].id = v}
Position(b, v) == CHOOSE p \in Positions(b, v) : TRUE
DefiningOp(b, v) == b.ops[Position(b, v)]
ShapeOf(b, v) == DefiningOp(b, v).shape

\* An operand used twice is two uses.
Uses(b, v) == {use \in UNION {{p} \X DOMAIN b.ops[p].in : p \in DOMAIN b.ops} :
                 b.ops[use[1]].in[use[2]] = v}

\* setInsertionPointToStart: behind the arguments.
Start(b) == Cardinality({p \in DOMAIN b.ops : b.ops[p].op = "arg"}) + 1

\* A new operation, which gets number b.next, at position p.
Insert(b, p, operation) ==
  [b EXCEPT !.ops = InsertAt(@, p, [operation EXCEPT !.id = b.next]), !.next = @ + 1]

SetOperands(b, v, in) == [b EXCEPT !.ops[Position(b, v)].in = in]
SetInit(b, v, init) == SetOperands(b, v, ReplaceAt(DefiningOp(b, v).in,
                                                   Len(DefiningOp(b, v).in), init))
ReplaceUses(b, old, new) ==
  [b EXCEPT !.ops = [p \in DOMAIN b.ops |-> [b.ops[p] EXCEPT !.in = ReplaceAll(@, old, new)]]]
Erase(b, v) == [b EXCEPT !.ops = RemoveAt(@, Position(b, v))]
ReplaceOp(b, old, new) == Erase(ReplaceUses(b, old, new), old)

\* What the greedy driver leaves: operations without side effects have to be read.
Needed(b) ==
  LET Reading(needed, o) ==
        IF o.id \in needed \/ o.op \in {"arg", "return", "call"}
        THEN needed \cup {o.id} \cup ToSet(o.in) ELSE needed
  IN  FoldLeft(Reading, {}, Reverse(b.ops))
Keeping(b, needed) == [b EXCEPT !.ops = Selected(@, LAMBDA o : o.id \in needed)]
DropDead(b) == Keeping(b, Needed(b))

\* The last operand of a destination-style operation is its init.
Kernels == {"fusion", "linalg"}
DestinationStyle == Kernels \cup {"insert_slice"}
DestinationOf(o) == Last(o.in)

------------------------------------------------------------------------------
(* What the verifier demands. *)

\* Every operand is the result of an earlier operation.
Dominates(b) ==
  \A p \in DOMAIN b.ops : \A v \in ToSet(b.ops[p].in) :
    \E q \in Positions(b, v) : q < p

\* A block as it is given to a pass: numbers are given once, arguments come first, and what
\* writes into a tensor has one to write into.
IsBlock(b) ==
  /\ DOMAIN b = {"ops", "next"} /\ b.next \in Nat \ {0} /\ b.ops \in Seq(ToSet(b.ops))
  /\ \A p \in DOMAIN b.ops : LET o == b.ops[p] IN
       /\ DOMAIN o = OperationFields /\ o.id \in 1..b.next - 1 /\ o.in \in Seq(Nat)
       /\ \A q \in 1..p - 1 : b.ops[q].id # o.id /\ (o.op = "arg" => b.ops[q].op = "arg")
       /\ o.op \in DestinationStyle => o.in # <<>>
  /\ Dominates(b)

\* Groups of dimensions of the wide shape make up the dimensions of the narrow one.
Reassociates(groups, wide, narrow) ==
  /\ FlattenSeq(groups) = [d \in DOMAIN wide |-> d]
  /\ Len(groups) = Len(narrow)
  /\ \A g \in DOMAIN groups :
       narrow[g] = Product([k \in DOMAIN groups[g] |-> wide[groups[g][k]]])

WithinBounds(region, shape) ==
  /\ Len(region.off) = Len(shape)
  /\ \A d \in DOMAIN shape :
       region.off[d] + (region.size[d] - 1) * region.stride[d] < shape[d]

ShapeAgrees(b, o) ==
  LET In(k) == ShapeOf(b, o.in[k])
  IN  CASE o.op = "extract_slice" -> WithinBounds(o.attr, In(1)) /\ o.shape = o.attr.size
        [] o.op = "insert_slice" -> /\ WithinBounds(o.attr, In(2)) /\ o.shape = In(2)
                                    /\ o.attr.size = In(1)
        [] o.op \in {"concat", "thlo.concatenate"} ->
             \A d \in DOMAIN o.shape :
               IF d = o.attr.dim
               THEN o.shape[d] = FoldLeft(LAMBDA x, v : x + ShapeOf(b, v)[d], 0, o.in)
               ELSE \A k \in DOMAIN o.in : In(k)[d] = o.shape[d]
        [] o.op = "collapse_shape" -> Reassociates(o.attr.groups, In(1), o.shape)
        [] o.op = "expand_shape" -> Reassociates(o.attr.groups, o.shape, In(1))
        [] o.op \in Kernels -> ShapeOf(b, DestinationOf(o)) = o.shape
        [] o.op \in {"cast", "return"} -> In(1) = o.shape
        [] OTHER -> TRUE

\* Products may be of other types than their operands.
ElemAgrees(b, o) ==
  o.op \notin {"return", "dot", "dot_general"} => \A v \in ToSet(o.in) : DefiningOp(b, v).elem = o.elem
=============================================================================
