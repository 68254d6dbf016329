--------------------------- MODULE SoftmaxRewriter ---------------------------
(***************************************************************************)
(* xnnpack_ops_rewriter.cc: a division that is the end of a softmax        *)
(* becomes a call of XNNPACK's.                                            *)
(***************************************************************************)
EXTENDS Hlo

NegInf == -9999   \* MinValue of F32: below every number here

IsConstScalar(c, i, value) == Op(c, i) = "Constant" /\ Attr(c, i).data = <<value>>

\* OptionalConvert and OptionalBroadcast: step over the instruction if it is one.
Skip(c, i, op) == IF Op(c, i) = op THEN Operand(c, i, <<0>>) ELSE i

OneUse(c, i) == UserCount(c, i) = 1

IsReduce(c, i, fn, init) ==
  /\ Op(c, i) = "Reduce" /\ Attr(c, i).fn = fn /\ Cardinality(Attr(c, i).dims) = 1
  /\ IsConstScalar(c, Operand(c, i, <<1>>), init)

\* Broadcasts from the reduced shape to the full one: what is below them.
ReshapesBelow(c, i) ==
  /\ Op(c, i) = "Broadcast" /\ Op(c, Operand(c, i, <<0>>)) = "Reshape"
  /\ Op(c, Operand(c, i, <<0, 0>>)) = "Broadcast"

\* The reduce_sum of the lower diamond.
SumOf(c, divide) ==
  LET below == Skip(c, Operand(c, divide, <<1, 0, 0, 0>>), "Convert")
  IN  IF Op(c, below) = "Reshape" THEN Skip(c, Operand(c, below, <<0>>), "Convert") ELSE below

MatchesLower(c, divide) ==
  /\ Op(c, divide) = "Divide"
  /\ Op(c, Operand(c, divide, <<0>>)) = "Exp"
  /\ ReshapesBelow(c, Operand(c, divide, <<1>>))
  /\ Op(c, Skip(c, Operand(c, divide, <<1, 0, 0, 0>>), "Convert")) = "Reshape"
  /\ LET sum == SumOf(c, divide)
     IN  /\ IsReduce(c, sum, "Add", 0) /\ OneUse(c, sum)
         /\ Skip(c, Operand(c, sum, <<0>>), "Convert") = Operand(c, divide, <<0>>)
  /\ UserCount(c, Operand(c, divide, <<0>>)) = 2

\* MaxReduce: the reduce_max under i, which may have been bounded below by -inf; or i.
MaxOf(c, i) ==
  LET bounded == {k \in 0..1 : /\ Op(c, Operand(c, i, <<k>>)) = "Reduce"
                               /\ IsConstScalar(c, Skip(c, Operand(c, i, <<1 - k>>), "Broadcast"),
                                                NegInf)}
  IN  IF Op(c, i) = "Maximum" /\ bounded # {}
      THEN Operand(c, i, <<CHOOSE k \in bounded : TRUE>>) ELSE i

\* MatchSoftmax; the input of the softmax is the left operand of the subtraction.
Producer(c, divide) == Operand(c, divide, <<0, 0, 0>>)

MatchesSoftmax(c, divide) ==
  /\ MatchesLower(c, divide)
  /\ LET subtract == Operand(c, divide, <<0, 0>>)
         spread   == Operand(c, subtract, <<1>>)
     IN  /\ Op(c, subtract) = "Subtract" /\ OneUse(c, subtract)
         /\ ReshapesBelow(c, spread) /\ OneUse(c, spread)
         /\ Op(c, Operand(c, spread, <<0, 0, 0>>)) = "Reshape"
         /\ LET max == MaxOf(c, Operand(c, spread, <<0, 0, 0, 0>>))
            IN  /\ IsReduce(c, max, "Max", NegInf) /\ OneUse(c, max)
                /\ Operand(c, max, <<0>>) = Producer(c, divide)
                /\ Attr(c, max).dims = Attr(c, SumOf(c, divide)).dims
  /\ UserCount(c, Producer(c, divide)) = 2

\* XnnPackOpsRewriterVisitor::HandleDivide.
HandleDivide(c, i) ==
  IF c.instrs[i].control \/ Type(c, i) # "F32" \/ ~MatchesSoftmax(c, i) \/ Len(Shape(c, i)) < 2
  THEN c
  ELSE ReplaceInstruction(
         Add(c, <<Instr("CustomCall", <<Producer(c, i)>>, Type(c, i), Shape(c, i),
                        [target |-> "__xnnpack$softmax"])>>), i, c.next)
=============================================================================
