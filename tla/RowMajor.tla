------------------------------- MODULE RowMajor -------------------------------
(***************************************************************************)
(* Tensors as functions of the row-major offsets of their elements, which  *)
(* are counted from 0; dimensions are counted from 1.                      *)
(***************************************************************************)
EXTENDS Integers, SequencesExt

\* What a read outside of a buffer, or of an element nobody wrote, gives: no element here
\* comes out as this by itself.
Garbage == -777777

Product(shape) == FoldLeft(LAMBDA x, y : x * y, 1, shape)
Stride(shape, d) == Product(SubSeq(shape, d + 1, Len(shape)))
Coord(shape, o, d) == (o \div Stride(shape, d)) % shape[d]
Sum(op(_), S) == MapThenSumSet(op, S)
OffsetOf(shape, at) == Sum(LAMBDA d : at[d] * Stride(shape, d), DOMAIN shape)
Offsets(shape) == 0..Product(shape) - 1

\* What a sequence has at some of its positions, in their order.
AtPositions(seq, chosen) ==
  LET upto[k \in 0..Len(seq)] ==
        IF k = 0 THEN <<>>
        ELSE IF k \in chosen THEN Append(upto[k - 1], seq[k]) ELSE upto[k - 1]
  IN  upto[Len(seq)]

\* SelectSeq, of which the provers have no definition.
Selected(seq, Test(_)) == AtPositions(seq, {k \in DOMAIN seq : Test(seq[k])})

\* TLC evaluates all of a tensor where it is made, not an element each time it is read.
Whole(tensor) == tensor @@ <<>>

\* The tensors one behind the other along a dimension; element o of a result of shape s.
Concatenated(dim, ins, shapes, s, o) ==
  LET before(k) == Sum(LAMBDA j : shapes[j][dim], 1..k - 1)
      at == Coord(s, o, dim)
      k  == CHOOSE j \in DOMAIN ins : before(j) <= at /\ at < before(j) + shapes[j][dim]
  IN  ins[k][OffsetOf(shapes[k], [d \in DOMAIN s |->
                IF d = dim THEN at - before(k) ELSE Coord(s, o, d)])]
=============================================================================
