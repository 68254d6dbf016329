--------------------------- MODULE MCTensorPipeline ---------------------------
(***************************************************************************)
(* Instances of TensorPipeline for TLC: blocks as they reach the passes,   *)
(* and ones with one thing changed that a pass must notice.                *)
(***************************************************************************)
EXTENDS TensorPipeline

Arg(shape, writable) == Operation("arg", <<>>, shape, "f32", [writable |-> writable])
Input(shape) == Arg(shape, FALSE)
Empty(shape) == Operation("empty", <<>>, shape, "f32", <<>>)
Body(op, body, in, shape, elementwise) ==
  Operation(op, in, shape, "f32", [body |-> body, elementwise |-> elementwise])
Fusion(body, in, shape) == Body("fusion", body, in, shape, TRUE)
Linalg(body, in, shape) == Body("linalg", body, in, shape, FALSE)
Slice(of, off, size) == Operation("extract_slice", <<of>>, size, "f32", Region(off, size))
Concat(in, dim, shape) == Operation("concat", in, shape, "f32", [dim |-> dim])
Return(v, shape) == Operation("return", <<v>>, shape, "f32", <<>>)

\* The operations, numbered from 1 in their order.
Block(ops) == [ops |-> [p \in DOMAIN ops |-> [ops[p] EXCEPT !.id = p]], next |-> Len(ops) + 1]

Thlo(b) ==
  [b EXCEPT !.ops = [p \in DOMAIN b.ops |-> IF b.ops[p].op # "concat" THEN b.ops[p]
                                            ELSE [b.ops[p] EXCEPT !.op = "thlo.concatenate"]]]
Elem(b, elem) == [b EXCEPT !.ops = [p \in DOMAIN b.ops |-> [b.ops[p] EXCEPT !.elem = elem]]]

Halves ==   \* two halves of one tensor, another one between two of the next
  Block(<<Input(<<2, 4>>), Input(<<2, 4>>), Input(<<2, 1>>),
          Slice(1, <<0, 0>>, <<2, 2>>), Slice(1, <<0, 2>>, <<2, 2>>),
          Slice(2, <<0, 1>>, <<2, 1>>), Slice(2, <<0, 2>>, <<2, 1>>), Slice(2, <<0, 3>>, <<2, 1>>),
          Concat(<<4, 5, 3, 6, 7, 8>>, 2, <<2, 8>>), Return(9, <<2, 8>>)>>)

Apart ==    \* the wrong way round, with a gap, and in the order of the tensor
  Block(<<Input(<<2, 6>>), Slice(1, <<0, 2>>, <<2, 2>>), Slice(1, <<0, 0>>, <<2, 2>>),
          Slice(1, <<0, 5>>, <<2, 1>>), Slice(1, <<0, 3>>, <<2, 2>>), Slice(1, <<0, 5>>, <<2, 1>>),
          Concat(<<2, 3, 4, 5, 6>>, 2, <<2, 8>>), Return(7, <<2, 8>>)>>)

Strided ==  \* every other column
  LET strided == [Slice(1, <<0, 0>>, <<2, 2>>) EXCEPT !.attr.stride = <<1, 2>>]
  IN  Block(<<Input(<<2, 8>>), strided, Slice(1, <<0, 2>>, <<2, 2>>),
              Concat(<<2, 3>>, 2, <<2, 4>>), Return(4, <<2, 4>>)>>)

RowsBesides ==  \* rows of a table, laid side by side
  Block(<<Input(<<3, 2>>), Slice(1, <<0, 0>>, <<1, 2>>), Slice(1, <<1, 0>>, <<1, 2>>),
          Slice(1, <<2, 0>>, <<1, 2>>), Concat(<<2, 3, 4>>, 2, <<1, 6>>), Return(5, <<1, 6>>)>>)

LayersBesides ==  \* the same in three dimensions: layers, along their rows
  Block(<<Input(<<2, 2, 2>>), Slice(1, <<0, 0, 0>>, <<1, 2, 2>>), Slice(1, <<1, 0, 0>>, <<1, 2, 2>>),
          Concat(<<2, 3>>, 2, <<1, 4, 2>>), Return(4, <<1, 4, 2>>)>>)

\* Three operations, whose results are concatenated in another order than that of the block,
\* with an argument between; the second one reads what the first one computes.
Producers(second) ==
  Block(<<Input(<<2, 1>>), Input(<<2, 2>>), Empty(<<2, 2>>), Linalg(3, <<2, 3>>, <<2, 2>>),
          Empty(<<2, 1>>), second, Empty(<<2, 2>>), Fusion(7, <<2, 4, 7>>, <<2, 2>>),
          Concat(<<8, 1, 6, 4>>, 2, <<2, 6>>), Return(9, <<2, 6>>)>>)

Erasing == Producers(Fusion(5, <<1, 4, 5>>, <<2, 1>>))
Slicing == Producers(Slice(4, <<0, 1>>, <<2, 1>>))

ReadTwice ==  \* a concatenation with two users
  Block(<<Input(<<2>>), Empty(<<2>>), Fusion(3, <<1, 2>>, <<2>>), Concat(<<3, 1>>, 1, <<4>>),
          Empty(<<4>>), Fusion(5, <<4, 4, 5>>, <<4>>), Return(6, <<4>>)>>)

InTwo ==  \* a result that is part of two concatenations, one of which is part of the other
  Block(<<Input(<<2>>), Empty(<<2>>), Linalg(3, <<1, 2>>, <<2>>), Concat(<<3, 1>>, 1, <<4>>),
          Empty(<<2>>), Linalg(4, <<1, 5>>, <<2>>), Concat(<<6, 4, 3>>, 1, <<8>>),
          Return(7, <<8>>)>>)

\* A chain of fusions that read a bias, and the first one's result once more in the end.
Chain(writable, again) ==
  Block(<<Arg(<<4>>, writable), Input(<<2>>), Empty(<<4>>), Fusion(2, <<1, 2, 3>>, <<4>>),
          Fusion(3, <<2, 4, 3>>, <<4>>), Empty(<<4>>),
          Fusion(4, IF again THEN <<5, 4, 6>> ELSE <<5, 2, 6>>, <<4>>),
          Body("fusion", 5, <<7, 3>>, <<4>>, FALSE), Return(8, <<4>>)>>)

\* The argument is read again by a fusion below.
ArgAgain ==
  Block(<<Arg(<<4>>, TRUE), Empty(<<4>>), Fusion(2, <<1, 2>>, <<4>>), Fusion(3, <<3, 1, 2>>, <<4>>),
          Return(4, <<4>>)>>)

\* Readers besides fusions: of the first input of the fusion at the end, which may be reused,
\* above it; of the others, of which one may not be written to, below it.
Readers ==
  Block(<<Input(<<4>>), Empty(<<4>>), Fusion(2, <<1, 2>>, <<4>>), Fusion(3, <<1, 2>>, <<4>>),
          Linalg(4, <<3, 2>>, <<4>>), Fusion(5, <<1, 3, 4, 2>>, <<4>>),
          Linalg(6, <<1, 4, 5, 6, 2>>, <<4>>), Return(7, <<4>>)>>)

\* The same with a reader of the reused input below.
ReadLater ==
  Block(<<Input(<<4>>), Empty(<<4>>), Fusion(2, <<1, 2>>, <<4>>), Fusion(3, <<3, 2>>, <<4>>),
          Linalg(4, <<3, 4, 2>>, <<4>>), Return(5, <<4>>)>>)

\* A chain of fusions whose results nobody else reads, the last ones' being concatenated.
Joined ==
  Block(<<Input(<<2, 2>>), Empty(<<2, 2>>), Fusion(2, <<1, 2>>, <<2, 2>>),
          Fusion(3, <<3, 1, 2>>, <<2, 2>>), Linalg(4, <<1, 2>>, <<2, 2>>),
          Fusion(5, <<5, 2>>, <<2, 2>>), Concat(<<6, 1, 4>>, 2, <<2, 6>>), Return(7, <<2, 6>>)>>)

\* Slices of two columns laid below each other.
Stacked ==
  Block(<<Input(<<2, 4>>), Slice(1, <<0, 0>>, <<2, 2>>), Slice(1, <<0, 2>>, <<2, 2>>),
          Concat(<<2, 3>>, 1, <<4, 2>>), Return(4, <<4, 2>>)>>)

\* Products of the matrices of two layers, of a matrix and a vector, of batches of them.
BatchNumbers(rhs_contracting) ==
  [lhs_batching |-> <<1>>, rhs_batching |-> <<1>>, lhs_contracting |-> <<3>>,
   rhs_contracting |-> <<rhs_contracting>>]
Dot(lhs, rhs, shape) == Operation("dot", <<lhs, rhs>>, shape, "f32", <<>>)
DotGeneral(lhs, rhs, shape, numbers) ==
  Operation("dot_general", <<lhs, rhs>>, shape, "f32", numbers)

Layers ==
  Block(<<Input(<<2, 3>>), Input(<<3, 2>>), Input(<<2>>), Input(<<2, 2>>), Dot(1, 2, <<2, 2>>),
          Dot(5, 4, <<2, 2>>), Dot(6, 3, <<2>>), Dot(6, 5, <<2, 2>>),
          Concat(<<8, 6>>, 1, <<4, 2>>), Return(9, <<4, 2>>)>>)

Batches ==  \* the last one of sizes for which a transposed operand is expected
  Block(<<Input(<<2, 3, 1>>), Input(<<2, 1, 2>>), Input(<<2, 1, 2>>),
          DotGeneral(1, 2, <<2, 3, 2>>, BatchNumbers(2)),
          DotGeneral(4, 3, <<2, 3, 1>>, BatchNumbers(3)), Return(5, <<2, 3, 1>>)>>)

\* What is not handled: contracting over another dimension, a batch of vectors on the right.
Unhandled ==
  Block(<<Input(<<2, 3, 1>>), Input(<<2, 3, 1>>), Input(<<2, 1>>),
          DotGeneral(1, 2, <<2, 1, 1>>, [BatchNumbers(2) EXCEPT !.lhs_contracting = <<2>>]),
          DotGeneral(4, 3, <<2, 1>>, BatchNumbers(2)), Return(5, <<2, 1>>)>>)

VectorTimes ==  \* a vector times a matrix stays what it is
  Block(<<Input(<<2>>), Input(<<2, 2>>), Dot(1, 2, <<2>>), Return(3, <<2>>)>>)

\* The right operand v of the products has elements of another type.
Mixed(b, v) == [b EXCEPT !.ops[v].elem = "f64"]

All == <<"thlo-legalize-concat", "simplify-tensor-concat", "concat-removal",
         "decompose-tensor-concat", "dot-to-function-call">>
Reuse == <<"gml-st-reuse-output-tensor">>
Dots == <<"dot-to-function-call">>
Simplify == <<"simplify-tensor-concat">>
Removal == <<"concat-removal">>

\* The passes over concatenations, any number of them in any order.
ConcatOrders ==
  SetToAllKPermutations({"simplify-tensor-concat", "concat-removal", "decompose-tensor-concat"})

\* Those that change inits, and the one that takes the rest apart.
InitOrders ==
  SetToAllKPermutations({"gml-st-reuse-output-tensor", "concat-removal",
                         "decompose-tensor-concat"})

Pipeline(b, passes) == [block |-> b, passes |-> passes, selector |-> Unset]
WithSelector(b, selector) == [block |-> b, passes |-> Dots, selector |-> selector]

MCMatmulSizes == (<<2, 2, 3>> :> 1) @@ (<<2, 2, 2>> :> 0)
MCBatchSizes == (<<2, 3, 2, 2>> :> 8) @@ (<<2, 3, 2, 1>> :> 7)

MCPipelines ==
  {Pipeline(b, passes) : b \in {Halves, LayersBesides, Erasing, InTwo, ReadTwice},
                         passes \in ConcatOrders} \cup
  {Pipeline(Joined, passes) : passes \in InitOrders} \cup {
  Pipeline(Thlo(Halves), All),
  Pipeline(Apart, Simplify), Pipeline(Strided, Simplify),
  Pipeline(Stacked, Simplify), Pipeline(Thlo(Elem(Halves, "f64")), All),
  Pipeline(RowsBesides, All),
  Pipeline(Thlo(Erasing), All), Pipeline(Slicing, Removal),
  Pipeline(Elem(Erasing, "f64"), Removal), Pipeline(Elem(Strided, "f64"), All),
  Pipeline(ReadTwice, All), Pipeline(Thlo(InTwo), All),
  Pipeline(Chain(FALSE, FALSE), Reuse), Pipeline(Chain(TRUE, FALSE), Reuse),
  Pipeline(Chain(TRUE, TRUE), Reuse), Pipeline(ArgAgain, Reuse), Pipeline(Readers, Reuse),
  Pipeline(Layers, Dots), Pipeline(Elem(Layers, "f64"), All), Pipeline(Elem(Layers, "i32"), Dots),
  Pipeline(Mixed(Layers, 4), Dots), WithSelector(Mixed(Layers, 2), <<2, 1, 0, 0>>),
  WithSelector(Layers, <<2, 1, 0, 0>>), WithSelector(Layers, <<2, 1>>),
  WithSelector(Layers, <<10, 1, 0, 10>>),
  Pipeline(Batches, Dots), WithSelector(Batches, <<7, 4>>), WithSelector(Batches, <<3, 5>>),
  WithSelector(Batches, <<9, 4>>), WithSelector(Mixed(Batches, 2), <<4>>),
  Pipeline(Unhandled, Dots), Pipeline(VectorTimes, Dots)}

\* A reader that is no fusion below a fusion that may write over what it reads.
MCReadLater == {Pipeline(ReadLater, Reuse)}

\* The blocks are such as the proofs are about.
ASSUME DistinctAssumption == DistinctOperands
=============================================================================
