----------------------------- MODULE HloPipeline -----------------------------
(***************************************************************************)
(* ANNC's passes over an HLO computation, in the order in which the patch  *)
(* of XLA's CpuCompiler adds them to the pipeline, after annc-opt has      *)
(* packed the model's variables.  Each pass takes the instructions it      *)
(* handles in a post-order of the computation it is given; a step of the   *)
(* model is one of them, one word of ANNC_FLAGS, or the end of a pass.     *)
(* What XLA's own passes do in between is left out.                        *)
(***************************************************************************)
EXTENDS KDnnRewriters, BishengPasses, SoftmaxRewriter, LayoutPacking

CONSTANTS
  Compilations  \* a set of [module: a computation, words: ANNC_FLAGS, variables: the
                \* parameters annc-opt may pack, annc_opt, bisheng, xnnpack: TRUE when used]

ASSUME CompilationsAssumption ==
  \A r \in Compilations :
    /\ IsComputation(r.module)
    /\ r.words \in Seq({r.words[i] : i \in DOMAIN r.words})

VARIABLES
  request,   \* what is compiled, and how: one of Compilations
  pass,      \* position in Passes
  todo,      \* the instructions the pass has still to come to
  comp,      \* the computation
  words,     \* what is left of ANNC_FLAGS
  flags,     \* flag_values_
  packings,  \* for each parameter, the packings applied to it
  packed     \* the attributes annc-opt has given MatMuls: <<instruction, operand>>

vars == <<request, pass, todo, comp, words, flags, packings, packed>>

Passes == <<"LayoutMatmulRewriter", "ANNCFlags", "XnnPackOpsRewriter", "ConcatPartition",
            "EmbeddingSimplify", "ReduceCombine", "HloDCE", "KDnnFusionAfterHloLayoutAssign",
            "compiled">>

Current == Passes[pass]

Handled ==
  CASE Current = "LayoutMatmulRewriter" -> {"Dot"}
    [] Current = "XnnPackOpsRewriter" -> {"Divide"}
    [] Current \in {"ConcatPartition", "EmbeddingSimplify"} -> {"Multiply"}
    [] Current = "ReduceCombine" -> {"ReduceWindow"}
    [] Current = "KDnnFusionAfterHloLayoutAssign" -> {"Dot", "ReduceWindow", "Multiply", "Select"}
    [] OTHER -> {}

\* RunHloPassesThroughLayoutAssn: which passes the pipeline has.
InPipeline(p) ==
  CASE p = "LayoutMatmulRewriter" -> request.annc_opt
    [] p = "XnnPackOpsRewriter" -> request.xnnpack
    [] p \in {"ConcatPartition", "EmbeddingSimplify", "ReduceCombine", "HloDCE"} -> request.bisheng
    [] p = "KDnnFusionAfterHloLayoutAssign" -> IsEnabled(flags, "annc-pass")
    [] OTHER -> TRUE

Init ==
  /\ request \in Compilations
  /\ pass = 0
  /\ todo = {}
  /\ comp = request.module
  /\ words = request.words
  /\ flags = DefaultValues
  /\ packings = [p \in request.variables |-> <<>>]
  /\ packed = {}

\* A pass starts: it sees the instructions there are.
Running == pass > 0 /\ Current # "compiled"

\* The pass has come to everything; the next one of the pipeline starts.
NextPass ==
  /\ pass = 0 \/ (Running /\ todo = {} /\ (Current = "ANNCFlags" => words = <<>>))
  /\ pass' = CHOOSE p \in pass + 1..Len(Passes) :
               /\ InPipeline(Passes[p])
               /\ \A q \in pass + 1..p - 1 : ~InPipeline(Passes[q])
  /\ comp' = IF Passes[pass'] = "HloDCE" THEN HloDCE(comp) ELSE comp
  /\ todo' = {i \in Ids(comp) : Op(comp, i) \in Handled'}
  /\ UNCHANGED <<request, words, flags, packings, packed>>

\* The text is given up at the first word without dashes.
Word ==
  IF Head(words).dashes
  THEN words' = Tail(words) /\ flags' = ParseFlag(flags, Head(words))
  ELSE words' = <<>> /\ UNCHANGED flags

\* parse_flags_from_string
ReadWord ==
  /\ pass > 0 /\ Current = "ANNCFlags" /\ words # <<>>
  /\ Word
  /\ UNCHANGED <<request, pass, todo, comp, packings, packed>>

\* Instructions are come to in any order (a mutant of ComesTo).
ComesToAny(i) == i \in todo

\* i is the next instruction of some post-order.
ComesTo(i) == i \in todo /\ Ancestors(comp, i) \cap todo = {}

\* What the pass may make of the computation when it comes to instruction i.
Rewritings(i) ==
  CASE Current = "XnnPackOpsRewriter" -> {HandleDivide(comp, i)}
    [] Current = "ConcatPartition" -> {ConcatPartition(comp, i)}
    [] Current = "EmbeddingSimplify" -> {EmbeddingSimplify(comp, i)}
    [] Current = "ReduceCombine" -> {ReduceCombine(comp, i)}
    [] Current = "KDnnFusionAfterHloLayoutAssign" -> KDnnHandle(flags, comp, i)

Visit ==
  /\ Running /\ Current # "LayoutMatmulRewriter"
  /\ \E i \in todo :
       /\ ComesTo(i)
       /\ comp' \in Rewritings(i)
       /\ todo' = todo \ {i}
  /\ UNCHANGED <<request, pass, words, flags, packings, packed>>

\* LayoutMatmulRewriter.__call__ for one MatMul: a small left variable ends the turn, before
\* the right one is looked at.
RequiresFolding(i, side) ==
  Operand(comp, i, <<side>>) \in DOMAIN packings /\ <<i, side>> \notin packed

IsSmall(i, side) == \E d \in 1..2 : Shape(comp, Operand(comp, i, <<side>>))[d] < VectorLen

\* Small variables are packed as well (a mutant of PackedSides).
PackedWhatever(i) == {side \in 0..1 : RequiresFolding(i, side)}

PackedSides(i) ==
  IF RequiresFolding(i, 0) /\ IsSmall(i, 0) THEN {}
  ELSE {side \in 0..1 : RequiresFolding(i, side) /\ ~IsSmall(i, side)}

Format(side) == IF side = 0 THEN "k4m4" ELSE "kn4"

\* The packing of a variable for one side of the MatMul, if any.
Applied(i, side, p) ==
  IF side \in PackedSides(i) /\ Operand(comp, i, <<side>>) = p THEN <<Format(side)>> ELSE <<>>

PackVariables ==
  /\ Running /\ Current = "LayoutMatmulRewriter"
  /\ \E i \in todo :
       /\ ComesTo(i)
       /\ packings' = [p \in DOMAIN packings |->
            packings[p] \o Applied(i, 0, p) \o Applied(i, 1, p)]
       /\ packed' = packed \cup {<<i, side>> : side \in PackedSides(i)}
       /\ todo' = todo \ {i}
  /\ UNCHANGED <<request, pass, comp, words, flags>>

Compiled == pass > 0 /\ Current = "compiled"

Next ==
  \/ NextPass \/ ReadWord \/ Visit \/ PackVariables
  \/ Compiled /\ UNCHANGED vars

Spec == Init /\ [][Next]_vars

------------------------------------------------------------------------------
(* Properties. *)

TypeOK ==
  /\ pass \in 0..Len(Passes)
  /\ todo \subseteq 1..comp.next - 1 /\ Ids(comp) \subseteq 1..comp.next - 1
  /\ comp.root \in Ids(comp)
  /\ flags \in [DOMAIN flags -> BOOLEAN] /\ FlagNames \subseteq DOMAIN flags
  /\ \A p \in request.variables : packings[p] \in Seq({"k4m4", "kn4"})

\* What XLA's verifier demands of a computation, after every single rewrite and not only at
\* the end of a pass: operands exist, as many as an operation takes, and nothing depends on
\* itself.  And a pass never comes to an instruction that a rewrite of another one has removed.
Verified == IsComputation(comp) /\ todo \subseteq Ids(comp)

\* The same of shapes: those of operands fit what the operation makes of them.
ShapesFit == \A i \in Ids(comp) : ShapeAgrees(comp, i)

\* What the rewriters take for granted of what they match, without a look at it: the first
\* bound of a lookup has an operand, what a pooling is fused of reads six instructions at
\* least, and a window that is summed up is neither the result nor the initial value of the sum.
Presumed ==
  \A i \in todo :
    /\ MatchesEmbedding2(comp, i) => comp.instrs[Operand(comp, i, <<0, 0, 0, 0, 1>>)].in # <<>>
    /\ MatchesPooling(comp, i) => Len(FusionOperands(comp, PoolingParts(comp, i))) >= 6
    /\ Op(comp, i) = "ReduceWindow" /\ UserCount(comp, i) = 1 =>
         LET reduce == Users(comp, i)[1]
         IN  Op(comp, reduce) = "Reduce" =>
               i # comp.root /\ Operand(comp, reduce, <<1>>) # i

\* A flag has the value that the last word about it gives it, of those before the first that
\* is no flag: its own word its value, a group's word TRUE whatever it says.
About(name, word) ==
  word.key = name \/ (word.key \in DOMAIN GroupType /\ name \in GroupOf(word.key))
FlagsByText ==
  (pass > 0 /\ Current # "ANNCFlags" /\ words = <<>>) =>
    \A name \in FlagNames :
      LET text == request.words
          read == {w \in DOMAIN text : \A v \in 1..w : text[v].dashes}
          about == {w \in read : About(name, text[w])}
          last == CHOOSE w \in about : \A v \in about : v <= w
      IN  IF about = {} THEN flags[name] = DefaultValues[name]
          ELSE flags[name] = (text[last].key # name \/ text[last].value \in {"true", "1", ""})

\* A pass that scans what it was given leaves nothing it would replace: neither the lookups
\* ConcatPartition adds nor what a softmax reads are prey for it.  (Of two windows in a row
\* ReduceCombine merges the outer one only, and KDnn leaves a product that it has computed once
\* more for its second reader.)
Settled ==
  (Running /\ todo = {} /\ Current \in {"XnnPackOpsRewriter", "ConcatPartition",
                                       "EmbeddingSimplify"}) =>
    \A i \in Ids(comp) : Op(comp, i) \in Handled => \A d \in Rewritings(i) : i \in Ids(d)

\* The largest pattern wins: no plain product is called for when the sum that follows it could
\* have been part of the call.
LargestFused ==
  Compiled /\ IsEnabled(flags, "matmul-add") =>
    \A i \in Ids(comp) :
      (Op(comp, i) = "CustomCall" /\ Attr(comp, i).target = "__matmul") =>
        (Users(comp, i) = <<>> \/ Op(comp, Users(comp, i)[1]) # "Add")

\* annc-opt decides before the model is compiled, in another process: a large variable of a
\* MatMul is packed, one on the right not if there is a small one on the left.
Large(p) == \A d \in 1..2 : Shape(request.module, p)[d] >= VectorLen
Packs(i, side) ==
  LET lhs == Operand(request.module, i, <<0>>)
      p   == Operand(request.module, i, <<side>>)
  IN  /\ request.annc_opt /\ p \in request.variables /\ Large(p)
      /\ side = 1 /\ lhs \in request.variables => Large(lhs)

\* The rewriters that the compiler may then take the MatMul for, by conditions of their own.
MayTake(i) ==
  IF InPipeline("KDnnFusionAfterHloLayoutAssign") THEN FirstRewriters(flags, request.module, i)
  ELSE {}

Dots == {i \in Ids(request.module) : Op(request.module, i) = "Dot"}

\* No other rewriter of the same benefit competes with layout_matmul.
NoTies == \A i \in Dots : "layout_matmul" \in MayTake(i) => MayTake(i) = {"layout_matmul"}

\* Both decide alike: only right operands are packed, of the MatMuls the compiler calls
\* __layout_matmul for, and nobody else reads them.
DecideAlike ==
  \A i \in Dots :
    /\ ~Packs(i, 0)
    /\ Packs(i, 1) <=> "layout_matmul" \in MayTake(i)
    /\ Packs(i, 1) => Users(request.module, Operand(request.module, i, <<1>>)) = <<i>>

IsLayoutCall(i) == Op(comp, i) = "CustomCall" /\ Attr(comp, i).target = "__layout_matmul"

\* What is packed is packed once, for the kernel's right operand, and nobody but the kernel
\* reads it, there; and the kernel reads nothing else there.
LayoutsAgree ==
  /\ \A p \in DOMAIN packings : packings[p] # <<>> =>
       /\ packings[p] = <<"kn4">>
       /\ \A u \in ToSet(Users(comp, p)) : IsLayoutCall(u) /\ Operand(comp, u, <<0>>) # p
  /\ \A i \in Ids(comp) : IsLayoutCall(i) =>
       /\ Operand(comp, i, <<1>>) \in DOMAIN packings
       /\ packings[Operand(comp, i, <<1>>)] # <<>>

\* The layouts agree in the end in exactly the models that annc-opt and the compiler decide
\* alike of: no pass leads a packed variable to another reader, no turn of annc-opt packs twice
\* or forgets, no call gets in the way of the next one - and where the two decide differently,
\* nothing between them notices.  (Where rewriters tie, chance decides.)
PackedAsRead == Compiled /\ NoTies => (DecideAlike <=> LayoutsAgree)
=============================================================================
