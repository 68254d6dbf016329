---------------------------- MODULE KDnnRewriters ----------------------------
(***************************************************************************)
(* kdnn_rewriter.{h,cc}, gemm_rewriter.cc and graph_opt.cc: the rewriters  *)
(* that KDnnFusionAfterHloLayoutAssign tries on an instruction.  A match   *)
(* is fused, and the fusion replaced by a call of a kernel, whose          *)
(* operands are those of the fusion and the shapes of these.               *)
(***************************************************************************)
EXTENDS Hlo, AnncFlags

\* A link of RewritePattern: every registered pattern is a chain of next_patterns.
Link(op, dims, min_dims) == [op |-> op, dims |-> dims, min_dims |-> min_dims]

\* register_matmul and its like.  The dtypes are F32 throughout; only as many operands are
\* looked at as there are dims, and maximal dimensions are no limit.
Pattern(name) ==
  CASE name = "__matmul"       -> <<Link("Dot", <<2, 2>>, <<12, 12>>)>>
    [] name = "__batch_matmul" -> <<Link("Dot", <<3, 3>>, <<1, 8, 8>>)>>
    [] name = "__matmul_add"   -> <<Link("Dot", <<2, 2>>, <<>>), Link("Add", <<>>, <<>>)>>
    [] name = "__matmul_add_relu" ->
         <<Link("Dot", <<2, 2>>, <<>>), Link("Add", <<>>, <<>>), Link("Maximum", <<>>, <<>>)>>

\* match_op_pattern, without the users.
FitsLink(c, i, link) ==
  /\ Op(c, i) = link.op
  /\ Len(c.instrs[i].in) >= Len(link.dims)
  /\ \A k \in DOMAIN link.dims :
       LET operand == c.instrs[c.instrs[i].in[k]]
       IN  operand.major /\ Len(operand.shape) = link.dims[k] /\ operand.type = "F32"
  /\ \A d \in DOMAIN link.min_dims : Shape(c, i)[d] >= link.min_dims[d]

\* Only the first user is followed, and none after a miss.
Follow(c, i, links, found, k) ==
  LET at == IF k = 1 THEN <<i>> ELSE IF found = <<>> THEN <<>> ELSE Users(c, found[1])
  IN  IF at # <<>> /\ FitsLink(c, at[1], links[k]) THEN <<at[1]>> \o found ELSE <<>>

\* The instructions of a match, the root of the fusion, which is the last user, first; or none.
Matched(c, i, links) ==
  LET upto[k \in 0..Len(links)] ==
        IF k = 0 THEN <<>> ELSE Follow(c, i, links, upto[k - 1], k)
  IN  upto[Len(links)]

\* get_param_info: the dimensions, then minor_to_major.
Vector(data) == Instr("Constant", <<>>, "S64", <<Len(data)>>, [data |-> data])
ParamInfo(instr) ==
  LET rank == Len(instr.shape)
  IN  Vector(instr.shape \o [d \in 1..rank |-> IF instr.major THEN rank - d ELSE d - 1])

\* Replaces the last instruction, a fusion, by a call of the kernel on these operands and
\* constants.
ReplaceByCall(c, target, operands, constants) ==
  LET fusion == c.next - 1
      call == Instr("CustomCall",
                    operands \o [k \in DOMAIN constants |-> c.next + k - 1],
                    Type(c, fusion), Shape(c, fusion), [target |-> target])
  IN  ReplaceInstruction(Add(c, Append(constants, call)), fusion, c.next + Len(constants))

\* KDnnRewriter::execute with a pattern, of type DNN_CUSTOM_CALL; add_extra_operands.
MatchesPattern(c, i, name) == Matched(c, i, Pattern(name)) # <<>>

FusePattern(c, i, name) ==
  LET fused == CreateFusion(c, Matched(c, i, Pattern(name)))
      operands == fused.instrs[c.next].in
  IN  ReplaceByCall(fused, name, operands,
                    [k \in DOMAIN operands |-> ParamInfo(fused.instrs[operands[k]])])

MatchesLayoutMatmul(c, i) ==
  LET lhs == Operand(c, i, <<0>>)
      rhs == Operand(c, i, <<1>>)
  IN  /\ Op(c, i) = "Dot"
      /\ Op(c, rhs) = "Parameter"
      /\ Len(Shape(c, lhs)) = 2 /\ Len(Shape(c, rhs)) = 2
      /\ \A d \in 1..2 : Shape(c, lhs)[d] >= 12 /\ Shape(c, rhs)[d] >= 12

\* match_layout_matmul
FuseLayoutMatmul(c, i) ==
  LET param == Operand(c, i, <<1>>)
      fused == CreateFusion(c, <<i>>)
      lhs   == fused.instrs[c.next].in[1]
  IN  ReplaceByCall(fused, "__layout_matmul", <<lhs, param>>,
                    <<ParamInfo(c.instrs[lhs]), ParamInfo(c.instrs[param])>>)

\* fused_sparse_embedding2
MatchesEmbedding2(c, mul) ==
  /\ Op(c, mul) = "Multiply"
  /\ OperandOps(c, mul) = <<"Broadcast", "Gather">>
  /\ Op(c, Operand(c, mul, <<1, 1>>)) = "Select"
  /\ Op(c, Operand(c, mul, <<0, 0>>)) = "Convert"
  /\ LET and_op == Operand(c, mul, <<0, 0, 0>>)
     IN  /\ Op(c, and_op) = "And"
         /\ OperandOps(c, and_op) = <<"Compare", "Compare">>
         /\ OperandOps(c, Operand(c, and_op, <<1>>)) = <<"Convert", "Broadcast">>
         /\ Op(c, Operand(c, and_op, <<1, 1, 0>>)) = "Constant"
         /\ Op(c, Operand(c, and_op, <<0, 1, 0>>)) = "Constant"

FuseEmbedding2(c, mul) ==
  LET and_op == Operand(c, mul, <<0, 0, 0>>)
  IN  CreateFusion(c,
        <<mul, Operand(c, mul, <<0>>), Operand(c, mul, <<1>>), Operand(c, mul, <<1, 1>>),
          Operand(c, mul, <<0, 0>>), and_op, Operand(c, and_op, <<0>>),
          Operand(c, and_op, <<1>>), Operand(c, and_op, <<1, 1>>),
          Operand(c, and_op, <<1, 1, 0>>), Operand(c, and_op, <<0, 1>>),
          Operand(c, and_op, <<0, 1, 0>>)>>)

\* fused_pooling
MatchesPooling(c, select) ==
  /\ Op(c, select) = "Select"
  /\ OperandOps(c, select) = <<"Broadcast", "Broadcast", "Divide">>
  /\ OperandOps(c, Operand(c, select, <<2>>)) = <<"Reshape", "Broadcast">>
  /\ Op(c, Operand(c, select, <<2, 0, 0>>)) = "Reduce"
  /\ LET select_1 == Operand(c, select, <<2, 0, 0, 0>>)
     IN  /\ Op(c, select_1) = "Select"
         /\ OperandOps(c, select_1) = <<"Broadcast", "Slice", "Broadcast">>
         /\ Op(c, Operand(c, select_1, <<0, 0>>)) = "Compare"
  /\ Op(c, Operand(c, select, <<0, 0>>)) = "Compare"
  /\ Op(c, Operand(c, select, <<0, 0, 0>>)) = "Reduce"
  /\ Op(c, Operand(c, select, <<0, 0, 0, 0>>)) = "Convert"
  /\ Op(c, Operand(c, select, <<0, 0, 0, 0, 0>>)) = "Compare"

\* The zeros that are selected are fused as well (a mutant of PoolingParts).
PoolingPartsAndZeros(c, select) ==
  LET select_1 == Operand(c, select, <<2, 0, 0, 0>>)
  IN  <<select, Operand(c, select, <<2>>), Operand(c, select, <<2, 1>>),
        Operand(c, select, <<2, 0>>), Operand(c, select, <<2, 0, 0>>), select_1,
        Operand(c, select_1, <<1>>), Operand(c, select_1, <<0>>), Operand(c, select, <<0>>),
        Operand(c, select, <<0, 0>>), Operand(c, select, <<0, 0, 0>>),
        Operand(c, select, <<0, 0, 0, 0>>), Operand(c, select_1, <<0, 0>>),
        Operand(c, select, <<1>>), Operand(c, select_1, <<2>>)>>

PoolingParts(c, select) ==
  LET select_1 == Operand(c, select, <<2, 0, 0, 0>>)
  IN  <<select, Operand(c, select, <<2>>), Operand(c, select, <<2, 1>>),
        Operand(c, select, <<2, 0>>), Operand(c, select, <<2, 0, 0>>), select_1,
        Operand(c, select_1, <<1>>), Operand(c, select_1, <<0>>), Operand(c, select, <<0>>),
        Operand(c, select, <<0, 0>>), Operand(c, select, <<0, 0, 0>>),
        Operand(c, select, <<0, 0, 0, 0>>), Operand(c, select_1, <<0, 0>>)>>

FusePooling(c, select) ==
  LET slice    == Operand(c, select, <<2, 0, 0, 0, 1>>)
      fused    == CreateFusion(c, PoolingParts(c, select))
      arg      == Operand(fused, c.next, <<5>>)
      mul_out  == Operand(fused, c.next, <<3>>)
  IN  ReplaceByCall(fused, "__pooling", <<arg, mul_out>>,
        <<Vector(Attr(c, slice).starts), Vector(Attr(c, slice).limits),
          ParamInfo(fused.instrs[arg]), ParamInfo(fused.instrs[mul_out])>>)

------------------------------------------------------------------------------

\* KDnnRewriter::execute, up to what it changes; an instruction with control dependencies is
\* left to itself.
Matches(c, i, name) ==
  /\ ~c.instrs[i].control
  /\ CASE name = "layout_matmul"     -> MatchesLayoutMatmul(c, i)
       [] name = "sparse_embedding2" -> MatchesEmbedding2(c, i)
       [] name = "pooling"           -> MatchesPooling(c, i)
       [] OTHER                      -> MatchesPattern(c, i, name)

Fuse(c, i, name) ==
  CASE name = "layout_matmul"     -> FuseLayoutMatmul(c, i)
    [] name = "sparse_embedding2" -> FuseEmbedding2(c, i)
    [] name = "pooling"           -> FusePooling(c, i)
    [] OTHER                      -> FusePattern(c, i, name)

\* Every rewriter with the benefit that is the parameters' default (a mutant of Benefit).
SameBenefit(name) == 1

Benefit(name) ==
  CASE name \in {"sparse_embedding2", "pooling", "__matmul_add_relu"} -> 3
    [] name = "__matmul_add" -> 2
    [] OTHER -> 1

GraphOptRewriters(flags) ==
  {name \in {"sparse_embedding2", "pooling"} :
     IsEnabled(flags, IF name = "pooling" THEN "pooling" ELSE "sps-emd-2")}

GemmFlag(name) ==
  CASE name = "layout_matmul"     -> "layout-matmul"
    [] name = "__matmul"          -> "matmul"
    [] name = "__batch_matmul"    -> "batch-matmul"
    [] name = "__matmul_add"      -> "matmul-add"
    [] name = "__matmul_add_relu" -> "matmul-add-relu"

GemmRewriters(flags) ==
  {name \in {"layout_matmul", "__matmul", "__batch_matmul", "__matmul_add",
             "__matmul_add_relu"} : IsEnabled(flags, GemmFlag(name))}

\* HandleDot, HandleMultiply, HandleSelect; HandleReduceWindow registers no rewriter.
Rewriters(flags, op) ==
  CASE op = "Dot" -> GraphOptRewriters(flags) \cup GemmRewriters(flags)
    [] op \in {"Multiply", "Select"} -> GraphOptRewriters(flags)
    [] OTHER -> {}

\* Those that may be the first one to match: the registered ones are sorted by benefit, and
\* std::sort may leave equals, such as layout_matmul and __matmul, in any order.
FirstRewriters(flags, c, i) ==
  LET matching == {name \in Rewriters(flags, Op(c, i)) : Matches(c, i, name)}
  IN  {name \in matching : \A other \in matching : Benefit(other) <= Benefit(name)}

\* What a handler may make of the computation: the first rewriter that matches rewrites.
KDnnHandle(flags, c, i) ==
  IF FirstRewriters(flags, c, i) = {} THEN {c}
  ELSE {Fuse(c, i, name) : name \in FirstRewriters(flags, c, i)}
=============================================================================
