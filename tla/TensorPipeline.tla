---------------------------- MODULE TensorPipeline ----------------------------
(***************************************************************************)
(* ANNC's MLIR passes over a block of tensor operations, one after the     *)
(* other as a pipeline names them.  The passes over concatenations rewrite *)
(* one concatenation at a time, in any order, until none can be rewritten, *)
(* as the greedy driver does; the other two walk over the operations there *)
(* are when they start.                                                    *)
(***************************************************************************)
EXTENDS ConcatPasses, MatmulCalls, OutputReuse, TensorSemantics

CONSTANTS
  Pipelines  \* a set of [block, passes: a sequence of the names of passes, selector:
             \* XLA_MLIR_MATMUL_SELECTOR, a sequence of types or Unset]

ASSUME PipelinesAssumption ==
  \A r \in Pipelines : IsBlock(r.block) /\ r.passes \in Seq(ToSet(r.passes))

\* No concatenation has an operand twice.  (A hypothesis of proofs: ConcatRemoval would give the
\* operation behind such an operand an init that is made below it.)
DistinctOperands ==
  \A r \in Pipelines : \A p \in DOMAIN r.block.ops :
    r.block.ops[p].op \in {"concat", "thlo.concatenate"} => IsInjective(r.block.ops[p].in)

VARIABLES
  request,     \* one of Pipelines
  pass,        \* how many passes are done, with the one that runs
  block,       \* the block
  todo,        \* what a walk has still to come to, in order
  matmul_idx,  \* how many entries of the selector the pass that runs has used up
  callees,     \* the types each function was declared with (see Callee)
  failed       \* signalPassFailure, and what follows it there

vars == <<request, pass, block, todo, matmul_idx, callees, failed>>

Current == IF pass = 0 THEN "" ELSE request.passes[pass]
OpsOf(op) == {v \in {block.ops[p].id : p \in DOMAIN block.ops} : DefiningOp(block, v).op = op}

\* The concatenations the pass that runs rewrites.
Rewritable ==
  CASE Current = "thlo-legalize-concat" -> OpsOf("thlo.concatenate")
    [] Current = "simplify-tensor-concat" -> {c \in OpsOf("concat") : SimplifiesConcat(block, c)}
    [] Current = "concat-removal" -> {c \in OpsOf("concat") : RemovesConcat(block, c)}
    [] Current = "decompose-tensor-concat" -> OpsOf("concat")
    [] OTHER -> {}

Init ==
  /\ request \in Pipelines
  /\ pass = 0
  /\ block = request.block
  /\ todo = <<>>
  /\ matmul_idx = 0
  /\ callees = <<>>
  /\ failed = FALSE

PassEnded == todo = <<>> /\ Rewritable = {} /\ ~failed
Ended == failed \/ (PassEnded /\ pass = Len(request.passes))

NextPass ==
  /\ PassEnded /\ ~Ended
  /\ pass' = pass + 1
  /\ matmul_idx' = 0
  /\ UNCHANGED <<request, block, callees, failed>>
  /\ todo' = CASE Current' = "dot-to-function-call" -> DotsOf(block)
               [] Current' = "gml-st-reuse-output-tensor" -> FusionsOf(block)
               [] OTHER -> <<>>

Rewritten(c) ==
  CASE Current = "thlo-legalize-concat" -> LegalizeConcat(block, c)
    [] Current = "simplify-tensor-concat" -> SimplifyConcat(block, c)
    [] Current = "concat-removal" -> ConcatRemoval(block, c)
    [] Current = "decompose-tensor-concat" -> DecomposeConcat(block, c)

Rewrite ==
  /\ \E c \in Rewritable : block' = Rewritten(c)
  /\ UNCHANGED <<request, pass, todo, matmul_idx, callees, failed>>

\* Operands of different types and an entry of the selector that is missing end in undefined
\* behaviour: the model follows them no further.
VisitDot ==
  /\ Current = "dot-to-function-call" /\ todo # <<>> /\ ~failed
  /\ LET o == DefiningOp(block, Head(todo))
         lacks == EntryLacks(block, o, request.selector, matmul_idx)
         types == IF lacks THEN {InvalidType(o)}
                  ELSE MatmulTypes(block, o, request.selector, matmul_idx)
     IN  /\ matmul_idx' = NextIdx(block, o, request.selector, matmul_idx)
         /\ \E type \in types : LET handled == Replaced(block, o, type) IN
              /\ callees' = IF handled THEN Declared(callees, block, o, type) ELSE callees
              /\ failed' = \/ lacks \/ TypesUnknown(block, o)
                           \/ handled /\ CannotCall(block, o, type)
              /\ block' = IF handled /\ ~failed' THEN CallInstead(block, o, type) ELSE block
  /\ todo' = Tail(todo)
  /\ UNCHANGED <<request, pass>>

VisitFusion ==
  /\ Current = "gml-st-reuse-output-tensor" /\ todo # <<>>
  /\ block' = ReuseOutputTensor(block, Head(todo))
  /\ todo' = Tail(todo)
  /\ UNCHANGED <<request, pass, matmul_idx, callees, failed>>

Next ==
  \/ NextPass \/ Rewrite \/ VisitDot \/ VisitFusion
  \/ Ended /\ UNCHANGED vars

Spec == Init /\ [][Next]_vars

------------------------------------------------------------------------------
(* Properties. *)

Numbers == {block.ops[p].id : p \in DOMAIN block.ops}

TypeOK ==
  /\ pass \in 0..Len(request.passes)
  /\ Cardinality(Numbers) = Len(block.ops) /\ Numbers \subseteq 1..block.next - 1
  /\ ToSet(todo) \subseteq Numbers
  /\ matmul_idx \in 0..Len(DotsOf(request.block))
  /\ failed \in BOOLEAN

\* No rewrite reads a result above the operation that makes it: operations whose results are
\* concatenated are written into the result in the order of the block, wherever they stand in
\* the concatenation.
Dominated == Dominates(block)

TypesAgree ==
  \A p \in DOMAIN block.ops : LET o == block.ops[p] IN
    ShapeAgrees(block, o) /\ ElemAgrees(block, o) /\ CallAgrees(callees, block, o)

\* The concatenations some of whose operands a step merges.
Merged == {c \in OpsOf("concat") \cap Numbers' : DefiningOp(block, c).in # DefiningOp(block', c).in}

\* What a merge of slices is made for: elements of f32, and slices one thick in the dimension
\* they are merged in, next to that of the concatenation, if it is not that one itself.
MergeFits(c) ==
  \A dst \in ToSet(MergeOpportunities(block, DefiningOp(block, c).in)) :
    LET dim == Dim(DefiningOp(block, c))
        merge_dim == MergeDim(block, dst)
    IN  /\ DefiningOp(block, dst[1]).elem = "f32"
        /\ \/ merge_dim = dim
           \/ merge_dim \in {dim - 1, dim + 1} /\ ShapeOf(block, dst[1])[merge_dim] = 1

\* The shapes and element types of all operations agree with those of their operands, and every
\* call with the function as it was declared, as they do in the block that is given, after every
\* single rewrite but the merges that do not fit, which nothing rules out: these are just the
\* ones that spoil them.
WellTyped ==
  [][/\ pass = 0 => TypesAgree
     /\ TypesAgree => (TypesAgree' <=> \A c \in Merged : MergeFits(c))]_vars

\* What the block returns is never another tensor, and nothing nobody has written.  (A block
\* whose types do not agree MLIR's verifier turns down after the pass.)
ValuePreserved == TypesAgree => Value(block) = Value(request.block)

\* The code that overwrites inits returns what the block does by its values, and writes to no
\* argument that may not be written to.
OverwritesNothingRead ==
  TypesAgree =>
  LET mem == Execute(block)
  IN  /\ Returned(block, mem) = Value(block)
      /\ \A v \in OpsOf("arg") : LET o == DefiningOp(block, v) IN
           o.attr.writable \/ mem.store[v] = Computes(o, <<>>, <<>>)

Done == ToSet(SubSeq(request.passes, 1, pass))

\* ConcatRemoval spares the copies: an operation that could write into the result of the
\* concatenation does, and none computes into a tensor of its own to be copied from it.  (What
\* was taken apart before is not there any more.)
NoCopies ==
  (PassEnded /\ Current = "concat-removal" /\ "decompose-tensor-concat" \notin Done) =>
    \A p \in DOMAIN block.ops : block.ops[p].op = "insert_slice" =>
      LET o == DefiningOp(block, block.ops[p].in[1]) IN
        o.op \in DestinationStyle => DefiningOp(block, DestinationOf(o)).op # "empty"

\* What is left to do of a concatenation: an operand at a time, and one step more to be rid of
\* it; legalization is a step of its own.
Steps(o) ==
  CASE o.op = "thlo.concatenate" -> -1..Len(o.in)
    [] o.op = "concat" -> 0..Len(o.in)
    [] OTHER -> {}

Open(b) == UNION {{o.id} \X Steps(o) : o \in ToSet(b.ops)}

\* What is left to do in a pass, together with what a walk has still to come to.
Left == Cardinality(Open(block)) + Len(todo)

\* Every pass comes to an end: each rewrite leaves less to do, so that the greedy driver, which
\* goes on until no concatenation can be rewritten, never rewrites for ever what it has made.
Ends == [][pass' = pass => Left' < Left]_vars
=============================================================================
