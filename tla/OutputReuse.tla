----------------------------- MODULE OutputReuse -----------------------------
(***************************************************************************)
(* ANNC's reuse_output_tensor.cpp: an elementwise fusion gets one of its   *)
(* inputs as its init, and so overwrites it where it is, since ANNC's      *)
(* patch of the bufferization sees no conflicts in such fusions.           *)
(*                                                                         *)
(* The attr of an argument says whether it may be written to; that of a    *)
(* fusion, whether it has the label of elementwise ones.                   *)
(***************************************************************************)
EXTENDS TensorBlock

IsElementwise(o) == o.op = "fusion" /\ o.attr.elementwise

FusionsOf(b) ==
  LET Labelled(v) == IsElementwise(DefiningOp(b, v))
  IN  Selected([p \in DOMAIN b.ops |-> b.ops[p].id], Labelled)

Inputs(o) == Front(o.in)

\* Later readers do not matter (a mutant of IsSafeToReuse).
AlwaysSafe(b, f, v) == TRUE

\* isSafeToReuse2: no later fusion has this input of f among its operands.
IsSafeToReuse(b, f, v) ==
  \A use \in Uses(b, v) :
    LET user == b.ops[use[1]]
    IN  ~(use[1] > Position(b, f) /\ user.op = "fusion")

Writable(b, v) == DefiningOp(b, v).op = "arg" => DefiningOp(b, v).attr.writable

SameType(b, v, o) == ShapeOf(b, v) = o.shape /\ DefiningOp(b, v).elem = o.elem

\* getTensorIndexToReuse: the positions of the inputs that would do; the first one is taken.
Candidates(b, f) ==
  LET o == DefiningOp(b, f)
  IN  {k \in DOMAIN Inputs(o) : /\ SameType(b, o.in[k], o)
                                /\ Writable(b, o.in[k])
                                /\ IsSafeToReuse(b, f, o.in[k])}

\* The new fusion has the number of the old one.
ReuseOutputTensor(b, f) ==
  IF Candidates(b, f) = {} THEN b
  ELSE SetInit(b, f, DefiningOp(b, f).in[Min(Candidates(b, f))])
=============================================================================
