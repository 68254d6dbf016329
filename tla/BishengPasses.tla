---------------------------- MODULE BishengPasses ----------------------------
(***************************************************************************)
(* The passes under bisheng-cpu, each as what it does to the computation   *)
(* when its loop comes to an instruction: the same computation if it goes  *)
(* on with the next one.                                                   *)
(***************************************************************************)
EXTENDS Hlo

\* The last dimension, whichever is meant (a mutant of ReplaceDim).
ReplaceLastDim(shape, dim, new_size) == [shape EXCEPT ![Len(shape)] = new_size]

ReplaceDim(shape, dim, new_size) == [shape EXCEPT ![dim] = new_size]

(* The lookup the first two passes look for: rows of a table, zero for an index that is out *)
(* of its bounds.                                                                           *)

IsMask(c, i) ==
  /\ Op(c, i) = "And" /\ OperandOps(c, i) = <<"Compare", "Compare">>
  /\ \A k \in 0..1 : Op(c, Operand(c, i, <<k, 1>>)) = "Broadcast"

\* multiply(broadcast(convert(and)), gather(parameter, select(and, _, broadcast)))
IsEmbedding(c, i) ==
  /\ Op(c, i) = "Multiply" /\ OperandOps(c, i) = <<"Broadcast", "Gather">>
  /\ Op(c, Operand(c, i, <<0, 0>>)) = "Convert"
  /\ Op(c, Operand(c, i, <<0, 0, 0>>)) = "And"
  /\ OperandOps(c, Operand(c, i, <<1>>)) = <<"Parameter", "Select">>
  /\ LET select == Operand(c, i, <<1, 1>>)
     IN  /\ IsMask(c, Operand(c, select, <<0>>))
         /\ Op(c, Operand(c, select, <<2>>)) = "Broadcast"

------------------------------------------------------------------------------
(* ConcatPartition: a lookup for several columns at once, whose result is sliced into the     *)
(* columns again, becomes one lookup for the columns of width 1 and one for each of the others. *)

\* convert(concatenate) on the left of both compares
ComparesConcat(c, and) ==
  \A k \in 0..1 : /\ Op(c, Operand(c, and, <<k, 0>>)) = "Convert"
                  /\ Op(c, Operand(c, and, <<k, 0, 0>>)) = "Concatenate"

MatchesConcat(c, mul) ==
  /\ IsEmbedding(c, mul)
  /\ IsMask(c, Operand(c, mul, <<0, 0, 0>>))
  /\ LET select == Operand(c, mul, <<1, 1>>)
     IN  /\ ComparesConcat(c, Operand(c, mul, <<0, 0, 0>>))
         /\ ComparesConcat(c, Operand(c, select, <<0>>))
         /\ Op(c, Operand(c, select, <<1>>)) = "Convert"
         /\ Op(c, Operand(c, select, <<1, 0>>)) = "Concatenate"
         /\ Op(c, Operand(c, select, <<2, 0>>)) = "Constant"

\* What the match captures: an operand of a pattern that occurs twice is the one met last.
Convert1(c, mul) == Operand(c, mul, <<1, 1, 1>>)
Concat(c, mul)   == Operand(c, mul, <<1, 1, 1, 0>>)

\* CreateEmbeddingv2: the lookup once more, for input, of this size along dim.  The new
\* multiply is the last of the twelve instructions.
CreateEmbedding(c, mul, input, dim, size) ==
  LET n       == c.next
      gather  == Operand(c, mul, <<1>>)
      select  == Operand(c, gather, <<1>>)
      and     == Operand(c, select, <<0>>)
      Resized(i, in) == Clone(c, i, ReplaceDim(Shape(c, i), dim, size), in)
  IN  Add(c, <<
        Resized(Convert1(c, mul), <<input>>),
        Resized(Operand(c, and, <<0, 1>>), <<Operand(c, and, <<0, 1, 0>>)>>),
        Resized(Operand(c, and, <<1, 1>>), <<Operand(c, and, <<1, 1, 0>>)>>),
        Resized(Operand(c, and, <<0>>), <<n, n + 1>>),
        Resized(Operand(c, and, <<1>>), <<n, n + 2>>),
        Resized(and, <<n + 3, n + 4>>),
        Resized(Operand(c, mul, <<0, 0>>), <<n + 5>>),
        Resized(Operand(c, mul, <<0>>), <<n + 6>>),
        Resized(Operand(c, select, <<2>>), <<Operand(c, select, <<2, 0>>)>>),
        Resized(select, <<n + 5, n, n + 8>>),
        Resized(gather, <<Operand(c, gather, <<0>>), n + 9>>),
        Resized(mul, <<n + 7, n + 10>>)>>)

CheckShapeConsistent(shape1, shape2) ==
  \A d \in DOMAIN shape1 \cap DOMAIN shape2 : shape1[d] = shape2[d]

\* The pairs of a column and the slice that is its result, by position, as the loop sorts them.
Columns(c, mul, wide) ==
  LET front == c.instrs[Concat(c, mul)].in
      back  == Users(c, mul)
      Fits(p) == /\ CheckShapeConsistent(Shape(c, p.column), Shape(c, p.slice))
                 /\ (Shape(c, p.column)[2] # 1) = wide
  IN  Selected([k \in DOMAIN front |-> [column |-> front[k], slice |-> back[k]]], Fits)

\* Every reader is a slice, one for each column.
ReadInSlices(c, mul) ==
  LET front == c.instrs[Concat(c, mul)].in
      back  == Users(c, mul)
  IN  /\ \A k \in DOMAIN back : Op(c, back[k]) = "Slice"
      /\ Len(front) >= 2 /\ Len(front) = Len(back)

\* The partition is worth it only with a wide column; ReadInSlices alone is a mutant of it.
Partitionable(c, mul) == ReadInSlices(c, mul) /\ Columns(c, mul, TRUE) # <<>>

\* Step 2 of the pass: the k-th narrow slice becomes one of the new multiply (number new).
SliceOf(c, slice, new, dim, k) ==
  LET a == Attr(c, slice)
  IN  [Clone(c, slice, Shape(c, slice), <<new>>) EXCEPT
         !.attr = [a EXCEPT !.limits[dim] = @ - a.starts[dim] + k - 1, !.starts[dim] = k - 1]]

ReplaceSlice(c, slice, new, dim, k) ==
  ReplaceInstruction(Add(c, <<SliceOf(c, slice, new, dim, k)>>), slice, c.next)

\* ConcatPartition::Run for the instruction mul.  The old lookup disappears with its last slice.
ConcatPartition(c, mul) ==
  IF ~MatchesConcat(c, mul) \/ ~Partitionable(c, mul) THEN c
  ELSE
  LET concat == Concat(c, mul)
      dim    == Attr(c, concat).dim
      narrow == Columns(c, mul, FALSE)
      wide   == Columns(c, mul, TRUE)
      \* Step 1: concatenate the narrow columns and look them up.
      joined == Add(c, <<Clone(c, concat, ReplaceDim(Shape(c, concat), dim, Len(narrow)),
                               [k \in DOMAIN narrow |-> narrow[k].column])>>)
      looked == CreateEmbedding(joined, mul, c.next, dim, Len(narrow))
      step2  == FoldLeft(LAMBDA d, k : ReplaceSlice(d, narrow[k].slice, looked.next - 1, dim, k),
                         looked, [k \in DOMAIN narrow |-> k])
      \* Step 3: a lookup of its own for each wide column.
      Split(d, p) ==
        LET own == CreateEmbedding(d, mul, p.column, dim, Shape(c, p.column)[dim])
        IN  ReplaceInstruction(own, p.slice, own.next - 1)
  IN  FoldLeft(Split, step2, wide)

------------------------------------------------------------------------------
(* EmbeddingSimplify: the table gets a row of zeros at its end, which an index out of bounds *)
(* is led to, and the multiplication by the mask goes.                                       *)

IsInteger(c, i) ==
  Op(c, i) = "Constant" /\ Type(c, i) \in {"S32", "S64"} /\ Len(Attr(c, i).data) = 1

\* Some bounds, whichever they are (a mutant of ChecksBounds).
ChecksSomeBounds(c, and, rows) ==
  {Attr(c, Operand(c, and, <<k>>)).dir : k \in 0..1} = {"Ge", "Lt"}

\* index >= 0 and index < rows, in either order.
ChecksBounds(c, and, rows) ==
  LET Is(k, dir, value) ==
        /\ Attr(c, Operand(c, and, <<k>>)).dir = dir
        /\ Attr(c, Operand(c, and, <<k, 1, 0>>)).data = <<value>>
  IN  \/ Is(0, "Ge", 0) /\ Is(1, "Lt", rows)
      \/ Is(1, "Ge", 0) /\ Is(0, "Lt", rows)

MatchesEmbedding(c, mul) ==
  /\ IsEmbedding(c, mul)
  /\ LET gather == Operand(c, mul, <<1>>)
         and    == Operand(c, gather, <<1, 0>>)
     IN  /\ Operand(c, mul, <<0, 0, 0>>) = and
         /\ Len(Shape(c, Operand(c, gather, <<0>>))) = 2
         /\ \A k \in 0..1 : IsInteger(c, Operand(c, and, <<k, 1, 0>>))
         /\ ChecksBounds(c, and, Shape(c, Operand(c, gather, <<0>>))[1])

\* EmbeddingSimplify::Run for the instruction mul.  It may give up when the larger table is
\* there already.
EmbeddingSimplify(c, mul) ==
  IF ~MatchesEmbedding(c, mul) THEN c
  ELSE
  LET n      == c.next
      gather == Operand(c, mul, <<1>>)
      select == Operand(c, gather, <<1>>)
      table  == Operand(c, gather, <<0>>)
      shape  == Shape(c, table)
      default  == Operand(c, select, <<2>>)
      constant == Operand(c, default, <<0>>)
      grown == Add(c, <<
        Instr("Constant", <<>>, "F32", <<>>, [data |-> <<0>>]),
        Instr("Broadcast", <<n>>, Type(c, table), <<1, shape[2]>>, [dims |-> <<>>]),
        Instr("Concatenate", <<table, n + 1>>, Type(c, table), <<shape[1] + 1, shape[2]>>,
              [dim |-> 1])>>)
      led == Add(grown, <<
        Instr("Constant", <<>>, "S32", Shape(c, constant), [data |-> <<shape[1]>>]),
        Clone(c, default, Shape(c, default), <<n + 3>>)>>)
      redirected == ReplaceInstruction(led, default, n + 4)
  IN  IF Type(c, constant) # "S32" \/ Product(Shape(c, constant)) # 1 THEN grown
      ELSE ReplaceInstruction(
             Add(redirected, <<Clone(c, gather, Shape(c, gather), <<n + 2, select>>)>>),
             mul, n + 5)

------------------------------------------------------------------------------
(* ReduceCombine: a sum over windows that are summed up in turn is one sum. *)

\* A window that tiles its dimension, which is summed up afterwards unless the window is 1.
Mergeable(c, window, reduce, d) ==
  LET w == Attr(c, window)
  IN  /\ w.stride[d] = w.size[d] /\ w.low[d] = 0 /\ w.high[d] = 0
      /\ Shape(c, Operand(c, window, <<0>>))[d] % w.size[d] = 0
      /\ w.size[d] # 1 => d \in Attr(c, reduce).dims

\* ReduceCombine::Run for the instruction window.
ReduceCombine(c, window) ==
  LET reduce  == Users(c, window)[1]
      operand == Operand(c, window, <<0>>)
      summed  == Add(c, <<Clone(c, reduce, Shape(c, reduce),
                                <<operand, Operand(c, reduce, <<1>>)>>)>>)
  IN  IF /\ Op(c, window) = "ReduceWindow" /\ UserCount(c, window) = 1
         /\ Op(c, reduce) = "Reduce"
         /\ Attr(c, reduce).fn = "Add" /\ Attr(c, window).fn = "Add"
         /\ \A d \in DOMAIN Attr(c, window).size : Mergeable(c, window, reduce, d)
         /\ WithoutDims(Shape(c, operand), Attr(c, reduce).dims) = Shape(c, reduce)
      THEN Without(ReplaceAllUses(summed, reduce, c.next), {reduce, window})
      ELSE c
=============================================================================
