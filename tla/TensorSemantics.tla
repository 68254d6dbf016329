--------------------------- MODULE TensorSemantics ---------------------------
(***************************************************************************)
(* What a block of tensor operations computes, twice: by the values of its *)
(* operations, and by the buffers that the code made from it overwrites.   *)
(***************************************************************************)
EXTENDS TensorBlock

Prime == 9973

\* What body computes from its operands' elements is taken to tell all of them apart; what
\* nobody has written stays garbage.
Mix(body, elements) ==
  IF Garbage \in ToSet(elements) THEN Garbage
  ELSE FoldLeft(LAMBDA acc, x : (acc * 31 + x + 7) % Prime, body, elements)

\* The sum over k of what lhs and rhs are at k; tr: the last dimensions of rhs are swapped.
RowByColumn(lhs, rhs, k, n, tr, o) ==
  Sum(LAMBDA l : (lhs[(o \div n) * k + l]
                    * rhs[IF tr THEN (o % n) * k + l ELSE l * n + (o % n)]) % Prime,
      0..k - 1)

\* A product of matrices, of a matrix and a vector on either side, or a batch of matrices.
Multiplied(s, lhs, rhs, lhs_shape, tr, o) ==
  LET k == Last(lhs_shape)
      n == IF Len(s) = Len(lhs_shape) THEN Last(s) ELSE 1
      m == IF Len(lhs_shape) = 1 THEN 1 ELSE lhs_shape[Len(lhs_shape) - 1]
      batch == o \div (m * n)
  IN  RowByColumn([p \in 0..m * k - 1 |-> lhs[batch * m * k + p]],
                  [p \in 0..n * k - 1 |-> rhs[batch * n * k + p]], k, n, tr, o % (m * n))

Transposes(name) == name \in {"batch_matmul_nt", "batch_matmul_nt_blaskernel"}

\* Element p of the result of a destination-style operation; an input with fewer elements is
\* spread over the others.
Computed(o, ins, p) ==
  Mix(o.attr.body, [k \in 1..Len(ins) - 1 |-> ins[k][p % Cardinality(DOMAIN ins[k])]])

\* Where element p of a tensor lies in the region; and the region's elements.
InRegion(region, s, p) ==
  \A d \in DOMAIN s : Coord(s, p, d) - region.off[d] \in 0..region.size[d] - 1
WithinRegion(region, s, p) ==
  OffsetOf(region.size, [d \in DOMAIN s |-> Coord(s, p, d) - region.off[d]])
FromRegion(region, s, p) ==
  OffsetOf(s, [d \in DOMAIN s |-> region.off[d] + region.stride[d] * Coord(region.size, p, d)])

\* The result of operation o whose operands have these values and shapes.
Computes(o, ins, shapes) ==
  LET s == o.shape
      Element(p) ==
        CASE o.op = "arg" -> o.id * 100 + p
          [] o.op \in {"empty", "alloc"} -> Garbage
          [] o.op \in {"cast", "collapse_shape", "expand_shape", "return"} -> ins[1][p]
          [] o.op \in {"concat", "thlo.concatenate"} ->
               Concatenated(o.attr.dim, ins, shapes, s, p)
          [] o.op = "extract_slice" -> ins[1][FromRegion(o.attr, shapes[1], p)]
          [] o.op = "insert_slice" ->
               IF InRegion(o.attr, s, p) THEN ins[1][WithinRegion(o.attr, s, p)] ELSE ins[2][p]
          [] o.op \in Kernels -> Computed(o, ins, p)
          [] o.op = "dot" -> Multiplied(s, ins[1], ins[2], shapes[1], FALSE, p)
          [] o.op = "dot_general" ->
               Multiplied(s, ins[1], ins[2], shapes[1], o.attr.rhs_contracting = <<Len(s)>>, p)
          [] o.op = "call" ->
               IF o.attr.callee.name = "" THEN Garbage
               ELSE Multiplied(s, ins[1], ins[2], shapes[1], Transposes(o.attr.callee.name), p)
  IN  Whole([p \in Offsets(s) |-> Element(p)])

\* The operands' shapes.
InShapes(b, o) == [k \in DOMAIN o.in |-> ShapeOf(b, o.in[k])]

Value(b) ==
  LET Extended(values, o) ==
        values @@ (o.id :> Computes(o, [k \in DOMAIN o.in |-> values[o.in[k]]], InShapes(b, o)))
      return == Last(b.ops)
  IN  FoldLeft(Extended, <<>>, b.ops)[return.id]

------------------------------------------------------------------------------
(* The code bufferization makes of the block.  A result is a view: element p of it lies in   *)
(* buffer buf at at[p].  Slices and reshapes are views of what they read; a destination-style *)
(* operation and an insertion write to what their init or destination lies in.  Each user of  *)
(* a tensor.empty gets a buffer of its own.  (Copies, which are made where a conflict is seen, *)
(* are none: between elementwise fusions ANNC has it see none, and the blocks that are tried   *)
(* have no others.)                                                                            *)

Shares(b, o) ==
  CASE o.op \in {"cast", "collapse_shape", "expand_shape", "return", "extract_slice"} -> o.in[1]
    [] o.op \in DestinationStyle -> DestinationOf(o)
    [] OTHER -> o.id

OwnBuffer(b, o) == Shares(b, o) = o.id \/ DefiningOp(b, Shares(b, o)).op = "empty"

ViewOf(b, mem, o) ==
  IF OwnBuffer(b, o) THEN [buf |-> o.id, at |-> [p \in Offsets(o.shape) |-> p]]
  ELSE LET of == mem.view[Shares(b, o)]
           s  == ShapeOf(b, Shares(b, o))
       IN  IF o.op = "extract_slice"
           THEN [of EXCEPT !.at = [p \in Offsets(o.shape) |-> @[FromRegion(o.attr, s, p)]]]
           ELSE of

Seen(mem, v) == [p \in DOMAIN mem.view[v].at |-> mem.store[mem.view[v].buf][mem.view[v].at[p]]]

Written(buffer, at, tensor) ==
  Whole([q \in DOMAIN buffer |->
           IF \E p \in DOMAIN at : at[p] = q THEN tensor[CHOOSE p \in DOMAIN at : at[p] = q]
           ELSE buffer[q]])

\* mem is [view: of each result, store: what is in each buffer].
Execute(b) ==
  LET Run(mem, o) ==
        LET view == ViewOf(b, mem, o)
            tensor == Computes(o, [k \in DOMAIN o.in |-> Seen(mem, o.in[k])], InShapes(b, o))
        IN  [view |-> mem.view @@ (o.id :> view),
             store |-> IF OwnBuffer(b, o) THEN mem.store @@ (o.id :> tensor)
                       ELSE IF o.op \in DestinationStyle
                       THEN [mem.store EXCEPT ![view.buf] = Written(@, view.at, tensor)]
                       ELSE mem.store]
  IN  FoldLeft(Run, [view |-> <<>>, store |-> <<>>], b.ops)

Returned(b, mem) == Seen(mem, Last(b.ops).id)
=============================================================================
