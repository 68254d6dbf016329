--------------------------------- MODULE Hlo ---------------------------------
(***************************************************************************)
(* XLA's HloComputation, as ANNC's passes use it: instructions numbered in *)
(* the order of their creation, their operands, users and replacement,     *)
(* fusion, and the shapes XLA demands.  External to the repository.        *)
(*                                                                         *)
(* A computation is [instrs: number -> instruction, root, next: the next   *)
(* number].  An instruction is [op, in: its operands, type, shape, attr,   *)
(* major: its layout is row-major, control: it has control dependencies].  *)
(***************************************************************************)
EXTENDS FiniteSets, RowMajor

Fields == {"op", "in", "type", "shape", "attr", "major", "control"}

Instr(op, in, type, shape, attr) ==
  [op |-> op, in |-> in, type |-> type, shape |-> shape, attr |-> attr,
   major |-> TRUE, control |-> FALSE]

Ids(c) == DOMAIN c.instrs
Op(c, i) == c.instrs[i].op
Shape(c, i) == c.instrs[i].shape
Type(c, i) == c.instrs[i].type
Attr(c, i) == c.instrs[i].attr

\* The instruction reached from i by operand(path[1])->operand(path[2])..., counted from 0.
Operand(c, i, path) == FoldLeft(LAMBDA at, k : c.instrs[at].in[k + 1], i, path)

\* The opcodes of all operands.
OperandOps(c, i) == [k \in DOMAIN c.instrs[i].in |-> Op(c, c.instrs[i].in[k])]

\* users(): every replacement here is by a new instruction, so their order is that of creation.
Uses(c, u, i) == \E k \in DOMAIN c.instrs[u].in : c.instrs[u].in[k] = i
Users(c, i) == Selected([u \in 1..c.next - 1 |-> u], LAMBDA u : u \in Ids(c) /\ Uses(c, u, i))
UserCount(c, i) == Cardinality({u \in Ids(c) : Uses(c, u, i)})

\* Everything reached from a set of instructions over their operands.
Reached(c, from) ==
  LET upto[seen \in SUBSET Ids(c)] ==
        LET more == seen \cup UNION {ToSet(c.instrs[i].in) : i \in seen}
        IN  IF more = seen THEN seen ELSE upto[more]
  IN  upto[from]
Ancestors(c, i) == Reached(c, ToSet(c.instrs[i].in))

\* Every instruction comes at last to have all its operands ordered before it.
Acyclic(c) ==
  LET upto[ordered \in SUBSET Ids(c)] ==
        LET more == ordered \cup {i \in Ids(c) : ToSet(c.instrs[i].in) \subseteq ordered}
        IN  IF more = ordered THEN ordered ELSE upto[more]
  IN  upto[{}] = Ids(c)

------------------------------------------------------------------------------
(* AddInstruction, CloneWithNewOperands, ReplaceInstruction, HloDCE. *)

\* Adds the instructions of a sequence; the k-th gets number c.next + k - 1.
Add(c, added) ==
  [c EXCEPT !.instrs = [i \in Ids(c) \cup c.next..c.next + Len(added) - 1 |->
                          IF i < c.next THEN c.instrs[i] ELSE added[i - c.next + 1]],
            !.next = @ + Len(added)]

Clone(c, i, shape, in) == [c.instrs[i] EXCEPT !.shape = shape, !.in = in]

Without(c, gone) == [c EXCEPT !.instrs = [i \in Ids(c) \ gone |-> c.instrs[i]]]

\* The new instruction may itself use the old one.
ReplaceAllUses(c, old, new) ==
  [c EXCEPT !.instrs = [i \in Ids(c) |->
                          IF i = new THEN c.instrs[i]
                          ELSE [c.instrs[i] EXCEPT !.in = ReplaceAll(@, old, new)]],
            !.root = IF @ = old THEN new ELSE @]

Removable(c, i) ==
  i # c.root /\ Op(c, i) # "Parameter" /\ ~c.instrs[i].control

\* RemoveInstructionAndUnusedOperands: i, which has no users, and what is dead without it.
RemoveWithUnused(c, i) ==
  LET gone[dead \in SUBSET Ids(c)] ==
        LET more == dead \cup {o \in UNION {ToSet(c.instrs[d].in) : d \in dead} :
                                 Removable(c, o) /\ ToSet(Users(c, o)) \subseteq dead}
        IN  IF more = dead THEN dead ELSE gone[more]
  IN  Without(c, gone[{i}])

ReplaceInstruction(c, old, new) == RemoveWithUnused(ReplaceAllUses(c, old, new), old)

HloDCE(c) ==
  Without(c, {i \in Ids(c) \ Reached(c, {c.root}) : Op(c, i) # "Parameter"})

------------------------------------------------------------------------------
(* CreateFusionInstruction(fused): the first one is the root.  Each is taken out of the   *)
(* operands of the fusion and brings in those of its own that are not among them yet; it  *)
(* is removed from the computation unless it has users left.                              *)

FusionOperands(c, fused) ==
  LET Fuse(operands, i) ==
        FoldLeft(LAMBDA s, o : IF Contains(s, o) THEN s ELSE Append(s, o),
                 Selected(operands, LAMBDA o : o # i), c.instrs[i].in)
  IN  FoldLeft(Fuse, <<>>, fused)

\* The fusion is the last instruction, number c.next.
CreateFusion(c, fused) ==
  LET root     == fused[1]
      operands == FusionOperands(c, fused)
      fusion   == Instr("Fusion", operands, Type(c, root), Shape(c, root),
                        [body |-> [i \in ToSet(fused) |-> c.instrs[i]],
                         root |-> root, params |-> operands])
      RemoveDead(d, i) == IF UserCount(d, i) = 0 /\ i # d.root THEN Without(d, {i}) ELSE d
  IN  FoldLeft(RemoveDead, ReplaceAllUses(Add(c, <<fusion>>), root, c.next), fused)

------------------------------------------------------------------------------
(* What XLA's verifier demands of every computation; reductions are of one array. *)

Unary   == {"Broadcast", "Convert", "Slice", "Reshape", "Exp"}
Binary  == {"Dot", "Gather", "Reduce", "ReduceWindow", "Compare", "And", "Divide", "Maximum",
            "Subtract", "Multiply", "Add"}

\* The number of its operands is the one its operation takes.
TakesAsMany(instr) ==
  /\ instr.op = "Parameter" => Len(instr.in) = 0
  /\ instr.op \in Unary => Len(instr.in) = 1
  /\ instr.op \in Binary => Len(instr.in) = 2
  /\ instr.op = "Select" => Len(instr.in) = 3

\* Operands exist, as many as it takes.
IsInstruction(c, i) ==
  /\ DOMAIN c.instrs[i] = Fields
  /\ c.instrs[i].in \in Seq(Ids(c))
  /\ TakesAsMany(c.instrs[i])

\* Nothing depends on itself.
IsComputation(c) ==
  /\ DOMAIN c = {"instrs", "root", "next"}
  /\ c.next \in Nat /\ Ids(c) \subseteq 1..c.next - 1 /\ c.root \in Ids(c)
  /\ \A i \in Ids(c) : IsInstruction(c, i)
  /\ Acyclic(c)

------------------------------------------------------------------------------
(* Shapes, as XLA's verifier demands them. *)

WithoutDims(shape, dims) ==
  LET kept == SetToSortSeq(DOMAIN shape \ dims, <)
  IN  [k \in DOMAIN kept |-> shape[kept[k]]]

\* Dimensions in attributes are counted from 1.
ShapeAgrees(c, i) ==
  LET s   == Shape(c, i)
      a   == Attr(c, i)
      In(k) == Shape(c, c.instrs[i].in[k])
      n   == Len(c.instrs[i].in)
  IN  CASE Op(c, i) \in {"Parameter", "Fusion", "CustomCall"} -> TRUE
        [] Op(c, i) = "Constant"  -> Len(a.data) = Product(s)
        [] Op(c, i) = "Broadcast" -> /\ Len(a.dims) = Len(In(1))
                                     /\ \A k \in DOMAIN a.dims : s[a.dims[k]] = In(1)[k]
        [] Op(c, i) = "Reshape"   -> Product(s) = Product(In(1))
        [] Op(c, i) = "Concatenate" ->
             /\ n > 0
             /\ s[a.dim] = FoldLeft(LAMBDA x, o : x + Shape(c, o)[a.dim], 0, c.instrs[i].in)
             /\ \A k \in 1..n : \A d \in DOMAIN s \ {a.dim} : In(k)[d] = s[d]
        [] Op(c, i) = "Slice"     -> \A d \in DOMAIN s : /\ s[d] = a.limits[d] - a.starts[d]
                                                         /\ a.limits[d] <= In(1)[d]
        [] Op(c, i) = "Gather"    -> s = In(2) \o <<In(1)[2]>>
        [] Op(c, i) = "Dot"       -> /\ Len(s) = Len(In(1)) /\ Len(s) = Len(In(2))
                                     /\ In(1)[a.lc] = In(2)[a.rc]
                                     /\ Product(s) * In(1)[a.lc] * In(2)[a.rc]
                                          * (IF Len(s) = 3 THEN s[1] ELSE 1)
                                          = Product(In(1)) * Product(In(2))
        [] Op(c, i) = "Reduce"    -> s = WithoutDims(In(1), a.dims)
        [] Op(c, i) = "ReduceWindow" -> \A d \in DOMAIN s :
             s[d] = (In(1)[d] + a.low[d] + a.high[d] - a.size[d]) \div a.stride[d] + 1
        [] OTHER -> \A k \in 1..n : In(k) = s   \* elementwise
=============================================================================
