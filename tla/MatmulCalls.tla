----------------------------- MODULE MatmulCalls -----------------------------
(***************************************************************************)
(* ANNC's dot_to_func_call_pass.cpp: every product of two tensors becomes  *)
(* a call of a library's function, picked by the sizes of the product or   *)
(* by XLA_MLIR_MATMUL_SELECTOR.  A function is declared when it is first   *)
(* called for.                                                             *)
(*                                                                         *)
(* The dimension numbers of a dot_general, in its attr, count from 1:      *)
(* lhs_batching, rhs_batching, lhs_contracting, rhs_contracting, each a    *)
(* sequence.                                                               *)
(***************************************************************************)
EXTENDS TensorBlock

CONSTANTS
  MatmulSizesToMatmulType,            \* <<m, n, k>> -> a type of product
  BatchMatmulSizesToBatchMatmulType,  \* <<b, m, n, k>> -> a type of batch product
  Unset                               \* the selector's value when it is not set

SGEMM_BLASKERNEL == 2
BATCH_SGEMM_NN == 3
BATCH_SGEMM_NT_FUSED_MUL_C == 5
BATCH_SGEMM_NT_FUSED_MUL_C_CST == 6
BATCH_SGEMM_INVALID == 9
SGEMM_INVALID == 10

\* The functions of the two kinds of product, by their types in enum MatmulType.
MatmulToMeta ==
  0 :> "sgemm_mlirlib" @@ 1 :> "sgemm_mlirlib_libshalom_pack" @@ 2 :> "sgemm_blaskernel"
BatchMatmulToMeta ==
  3 :> "batch_matmul_nn" @@ 4 :> "batch_matmul_nt" @@ 5 :> "batch_matmul_nt_fused_mul_c"
    @@ 6 :> "batch_matmul_nt_fused_mul_c_cst" @@ 7 :> "batch_matmul_nn_blaskernel"
    @@ 8 :> "batch_matmul_nt_blaskernel"

ASSUME SizesAssumption ==
  /\ \A sizes \in DOMAIN MatmulSizesToMatmulType : MatmulSizesToMatmulType[sizes] \in 0..2
  /\ \A sizes \in DOMAIN BatchMatmulSizesToBatchMatmulType :
       BatchMatmulSizesToBatchMatmulType[sizes] \in {3, 4, 7, 8}

IsDot(o) == o.op \in {"dot", "dot_general"}
OperandOf(b, o, k) == DefiningOp(b, o.in[k])

\* Both walks take all products (a mutant of DotsOf).
DotsTwice(b) ==
  LET Dots == Selected([p \in DOMAIN b.ops |-> b.ops[p].id], LAMBDA v : IsDot(DefiningOp(b, v)))
  IN  Dots \o Dots

\* The walks: all of mhlo.dot, then all of mhlo.dot_general.
DotsOf(b) ==
  LET Ids(kind) == Selected([p \in DOMAIN b.ops |-> b.ops[p].id],
                            LAMBDA v : DefiningOp(b, v).op = kind)
  IN  Ids("dot") \o Ids("dot_general")

SameElem(b, o) == OperandOf(b, o, 1).elem = OperandOf(b, o, 2).elem

\* The operands' types are used, unchecked, before anything is asked of them.
TypesUnknown(b, o) == o.op = "dot" /\ ~SameElem(b, o)

Ranks(b, o) == <<Len(ShapeOf(b, o.in[1])), Len(ShapeOf(b, o.in[2]))>>

InvalidType(o) == IF o.op = "dot" THEN SGEMM_INVALID ELSE BATCH_SGEMM_INVALID

TypeIn(table, sizes, default) == IF sizes \in DOMAIN table THEN table[sizes] ELSE default

\* Lengths are read of dimensions which operands of other ranks need not have: the sizes are
\* then whatever lies there.
TypesBySize(b, o) ==
  LET lhs == ShapeOf(b, o.in[1])
      rhs == ShapeOf(b, o.in[2])
  IN  IF Ranks(b, o) = <<2, 2>>
      THEN {TypeIn(MatmulSizesToMatmulType, <<lhs[1], rhs[2], lhs[2]>>, SGEMM_BLASKERNEL)}
      ELSE Range(MatmulSizesToMatmulType) \cup {SGEMM_BLASKERNEL}

BatchTypesBySize(b, o) ==
  LET lhs == ShapeOf(b, o.in[1])
      rhs == ShapeOf(b, o.in[2])
  IN  IF \/ o.attr.lhs_batching # <<1>> \/ o.attr.rhs_batching # <<1>>
         \/ o.attr.lhs_contracting # <<3>>
      THEN {BATCH_SGEMM_INVALID}
      ELSE IF Ranks(b, o) = <<3, 3>>
      THEN {TypeIn(BatchMatmulSizesToBatchMatmulType, <<lhs[1], lhs[2], rhs[3], lhs[3]>>,
                   BATCH_SGEMM_NN)}
      ELSE Range(BatchMatmulSizesToBatchMatmulType) \cup {BATCH_SGEMM_NN}

\* One entry of the selector is used up by every product that gets this far, whatever comes
\* of it.
TakesEntry(b, o, selector) == SameElem(b, o) /\ selector # Unset
EntryLacks(b, o, selector, matmul_idx) ==
  TakesEntry(b, o, selector) /\ matmul_idx >= Len(selector)
NextIdx(b, o, selector, matmul_idx) ==
  IF TakesEntry(b, o, selector) THEN matmul_idx + 1 ELSE matmul_idx

\* getMamtulType, getBatchMamtulType
MatmulTypes(b, o, selector, matmul_idx) ==
  IF ~SameElem(b, o) THEN {InvalidType(o)}
  ELSE IF selector # Unset THEN {selector[matmul_idx + 1]}
  ELSE IF o.op = "dot" THEN TypesBySize(b, o) ELSE BatchTypesBySize(b, o)

IsGemv(b, o) == o.op = "dot" /\ Ranks(b, o) = <<2, 1>>

\* Only these products are replaced.
HandledRanks(b, o) ==
  IF o.op = "dot" THEN Ranks(b, o) \in {<<2, 2>>, <<2, 1>>} ELSE Ranks(b, o) = <<3, 3>>

Replaced(b, o, type) == type # InvalidType(o) /\ HandledRanks(b, o)

\* One function for each type of a kind of product.  A type of the other kind, which only the
\* selector gives, makes a new entry of the map, whose function has no name.
Callee(b, o, type) ==
  LET meta == IF o.op = "dot" THEN MatmulToMeta ELSE BatchMatmulToMeta
  IN  IF IsGemv(b, o) THEN [kind |-> "dot", type |-> -1, name |-> "sgemv"]
      ELSE [kind |-> o.op, type |-> type,
            name |-> IF type \in DOMAIN meta THEN meta[type] ELSE ""]

\* getOrInsertMatmulFunction, getOrInsertMatVecMulFunction: a function keeps the types it was
\* declared with.
Declared(callees, b, o, type) ==
  callees @@ (Callee(b, o, type) :> [elem |-> OperandOf(b, o, 1).elem, ranks |-> Ranks(b, o)])

\* A fused type has nothing to fuse, the fusion being switched off; alpha and beta are there
\* for two types of elements.
CannotCall(b, o, type) ==
  IF o.op = "dot" THEN OperandOf(b, o, 1).elem \notin {"f32", "f64"}
  ELSE type \in {BATCH_SGEMM_NT_FUSED_MUL_C, BATCH_SGEMM_NT_FUSED_MUL_C_CST}

\* The buffer for the result, the call, the cast to the type the product had.
CallInstead(b, o, type) ==
  LET elem  == OperandOf(b, o, 1).elem
      alloc == Insert(b, Position(b, o.id), Operation("alloc", <<>>, o.shape, elem, <<>>))
      call  == Insert(alloc, Position(alloc, o.id),
                 Operation("call", Append(o.in, b.next), o.shape, elem,
                           [callee |-> Callee(b, o, type)]))
      cast  == Insert(call, Position(call, o.id),
                 Operation("cast", <<b.next + 1>>, o.shape, o.elem, <<>>))
  IN  ReplaceOp(cast, o.id, b.next + 2)

\* A call's callee has a name and was declared with the types of the call's operands.
CallAgrees(callees, b, o) ==
  o.op = "call" =>
    /\ o.attr.callee.name # ""
    /\ o.attr.callee \in DOMAIN callees
    /\ callees[o.attr.callee] = [elem |-> o.elem,
                                 ranks |-> <<Len(ShapeOf(b, o.in[1])), Len(ShapeOf(b, o.in[2]))>>]
=============================================================================
