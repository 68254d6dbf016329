---------------------------- MODULE KernelSelector ----------------------------
(***************************************************************************)
(* KernelSelectorOpsRewriter: the XLA pass that replaces dots and argmax   *)
(* reductions by calls of the symbols a text file maps their sizes to, and *)
(* the emitter that passes the operands of such a call to the symbol.      *)
(*                                                                         *)
(* The map is a global that every run of the pass clears and fills again.  *)
(* TensorFlow compiles clusters on several threads, so runs overlap; a     *)
(* step here is one operation on the map.  Two that race may also end the  *)
(* process.  The file may be replaced or removed between two runs, but not *)
(* while it is being read.                                                 *)
(***************************************************************************)
EXTENDS IntervalMap, DotKernels

CONSTANTS
  Compilations,  \* runs of the pass
  Texts,         \* contents the map file may have: sequences of lines
  Modules        \* HLO modules: their dots and reductions, in post-order

ASSUME TextsAssumption ==
  \A t \in Texts : t \in Seq({t[l] : l \in DOMAIN t})

ASSUME ModulesAssumption ==
  \A m \in Modules :
    /\ m \in Seq({m[i] : i \in DOMAIN m})
    /\ \A i \in DOMAIN m : m[i].opcode = "dot" => IsDot(m[i])

VARIABLES
  kernel_map_file,  \* the environment variable is set
  sizesToSymbol,
  pc,       \* "idle", "filling", "visiting", "done", "failed" or "aborted"
  text,     \* the contents this run reads
  lineno,
  module,
  calls,    \* per instruction visited, the custom call that replaced it, or NoCall
  alone     \* history: this run filled the map itself, and no other run overlapped with it

vars == <<kernel_map_file, sizesToSymbol, pc, text, lineno, module, calls, alone>>

------------------------------------------------------------------------------
(* The visitor. *)

NoRequest == [kTy |-> "none", keys |-> <<>>, op_type |-> "none", operands |-> <<>>]
NoCall == [symbol |-> "none", op_type |-> "none", operands |-> <<>>]

getOperation(dot) ==
  CASE dot.batch = 1 -> "BATCH_MATMUL_3D"
    [] dot.batch = 2 -> "BATCH_MATMUL_4D"
    [] dot.batch = 0 /\ Len(OutputDims(dot)) = 1 -> "GEMV"
    [] dot.batch = 0 /\ Len(OutputDims(dot)) # 1 -> "GEMM"
    [] OTHER -> "NONE"

(* What is looked up for a dot, and the operands its custom call would have. *)
OutputSize(dot, i) == OutputDims(dot)[i + 1]
ContractingSize(dot) == dot.lhs[dot.lc + 1]

\* N passed before M (a mutant of GemmRequest).
GemmSwapped(dot) ==
  LET m == OutputSize(dot, 0)
      n == OutputSize(dot, 1)
      k == ContractingSize(dot)
  IN  [kTy |-> "gemm", keys |-> <<m, n, k>>, op_type |-> "GEMM",
       operands |-> <<dot.lc = 0, dot.rc = 1, "A", "B", n, m, k, 1, 0>>]

GemmRequest(dot) ==
  LET m == OutputSize(dot, 0)
      n == OutputSize(dot, 1)
      k == ContractingSize(dot)
  IN  [kTy |-> "gemm", keys |-> <<m, n, k>>, op_type |-> "GEMM",
       operands |-> <<dot.lc = 0, dot.rc = 1, "A", "B", m, n, k, 1, 0>>]

GemvRequest(dot) ==
  LET trA == dot.lc = 0
      m == dot.lhs[IF trA THEN 2 ELSE 1]
      n == dot.lhs[IF trA THEN 1 ELSE 2]
  IN  [kTy |-> "gemv", keys |-> <<m, n>>, op_type |-> "GEMV",
       operands |-> <<trA, "A", "X", m, n, 1, 0>>]

Batch3DRequest(dot) ==
  LET p == OutputSize(dot, 0)
      m == OutputSize(dot, 1)
      n == OutputSize(dot, 2)
      k == ContractingSize(dot)
  IN  [kTy |-> "batch3d", keys |-> <<p, m, n, k>>, op_type |-> "BATCH3D",
       operands |-> <<dot.lc = 1, dot.rc = 2, "A", "B", p, m, n, k>>]

Batch4DRequest(dot) ==
  LET q == OutputSize(dot, 0)
      p == OutputSize(dot, 1)
      m == OutputSize(dot, 2)
      n == OutputSize(dot, 3)
      k == ContractingSize(dot)
  IN  [kTy |-> "batch4d", keys |-> <<q, p, m, n, k>>, op_type |-> "BATCH4D",
       operands |-> <<dot.lc = 2, dot.rc = 3, "A", "B", q, p, m, n, k>>]

HandleDot(dot) ==
  CASE getOperation(dot) = "GEMM" -> GemmRequest(dot)
    [] getOperation(dot) = "GEMV" -> GemvRequest(dot)
    [] getOperation(dot) = "BATCH_MATMUL_3D" -> Batch3DRequest(dot)
    [] getOperation(dot) = "BATCH_MATMUL_4D" -> Batch4DRequest(dot)
    [] getOperation(dot) = "NONE" -> NoRequest

HandleReduce(reduce) ==
  IF reduce.op_type = "ArgMax" /\ reduce.operands = 4 /\ Len(reduce.lhs) = 3
  THEN [kTy |-> "argmax", keys |-> reduce.lhs, op_type |-> "ARGMAX",
        operands |-> <<"values", "indices", "init value", "init index">>]
  ELSE NoRequest

Request(instr) == IF instr.opcode = "dot" THEN HandleDot(instr) ELSE HandleReduce(instr)

\* What the emitter takes the operands of a call to be, in turn; the parameters of the kernels
\* have the same order.
Parameters(op_type) ==
  CASE op_type = "GEMM"    -> <<"trA", "trB", "A", "B", "M", "N", "K", "alpha", "beta">>
    [] op_type = "GEMV"    -> <<"trA", "A", "X", "M", "N", "alpha", "beta">>
    [] op_type = "BATCH3D" -> <<"trA", "trB", "A", "B", "P", "M", "N", "K">>
    [] op_type = "BATCH4D" -> <<"trA", "trB", "A", "B", "Q", "P", "M", "N", "K">>

Emitted(custom_call) ==
  LET names == Parameters(custom_call.op_type)
  IN  [p \in {names[i] : i \in DOMAIN names} |->
         custom_call.operands[CHOOSE i \in DOMAIN names : names[i] = p]]

------------------------------------------------------------------------------
Active(c) == pc[c] \in {"filling", "visiting"}

Init ==
  /\ kernel_map_file \in BOOLEAN
  /\ sizesToSymbol = <<>>
  /\ pc = [c \in Compilations |-> "idle"]
  /\ text = [c \in Compilations |-> <<>>]
  /\ lineno = [c \in Compilations |-> 1]
  /\ module \in [Compilations -> Modules]
  /\ calls = [c \in Compilations |-> <<>>]
  /\ alone = [c \in Compilations |-> FALSE]

\* Run without a map file returns OkStatus() as an absl::StatusOr<bool>, which absl turns into
\* an internal error: the pipeline stops.
RunUnset(c) ==
  /\ pc[c] = "idle" /\ ~kernel_map_file
  /\ pc' = [pc EXCEPT ![c] = "failed"]
  /\ UNCHANGED <<kernel_map_file, sizesToSymbol, text, lineno, module, calls, alone>>

\* A run that starts disturbs the active ones, and is disturbed by them.
Meets(c, fills) ==
  alone' = [d \in Compilations |->
              IF d = c THEN fills /\ \A o \in Compilations : ~Active(o)
              ELSE alone[d] /\ ~Active(d)]

\* The map keeps what an earlier run put there (a mutant of Emptied).
NotEmptied == sizesToSymbol

\* map.clear()
Emptied == <<>>

\* fill_map_from_file when the file can be opened, with whatever is in it, up to its loop.
RunOpens(c) ==
  /\ pc[c] = "idle" /\ kernel_map_file
  /\ \E t \in Texts : text' = [text EXCEPT ![c] = t]
  /\ sizesToSymbol' = Emptied
  /\ pc' = [pc EXCEPT ![c] = "filling"]
  /\ Meets(c, TRUE)
  /\ UNCHANGED <<kernel_map_file, lineno, module, calls>>

\* The file cannot be opened: the visitor goes by what is in the map.
RunKeeps(c) ==
  /\ pc[c] = "idle" /\ kernel_map_file
  /\ pc' = [pc EXCEPT ![c] = "visiting"]
  /\ Meets(c, FALSE)
  /\ UNCHANGED <<kernel_map_file, sizesToSymbol, text, lineno, module, calls>>

AtLine(c) == text[c][lineno[c]]

ReadLine(c) ==
  /\ pc[c] = "filling" /\ lineno[c] <= Len(text[c])
  /\ ~EndsReading(AtLine(c))
  /\ sizesToSymbol' = AfterLine(sizesToSymbol, AtLine(c))
  /\ lineno' = [lineno EXCEPT ![c] = @ + 1]
  /\ UNCHANGED <<kernel_map_file, pc, text, module, calls, alone>>

EndReading(c) ==
  /\ pc[c] = "filling"
  /\ lineno[c] <= Len(text[c]) => EndsReading(AtLine(c))
  /\ pc' = [pc EXCEPT ![c] = "visiting"]
  /\ UNCHANGED <<kernel_map_file, sizesToSymbol, text, lineno, module, calls, alone>>

Visited(c) == Len(calls[c]) + 1

\* HandleDot or HandleReduce, as a whole.
Visit(c) ==
  /\ pc[c] = "visiting" /\ Visited(c) <= Len(module[c])
  /\ LET request == Request(module[c][Visited(c)])
         found == Lookup(sizesToSymbol, request.kTy, request.keys)
         Replacement(key) == [symbol |-> sizesToSymbol[key], op_type |-> request.op_type,
                              operands |-> request.operands]
     IN  \/ /\ found = {}
            /\ calls' = [calls EXCEPT ![c] = Append(@, NoCall)]
         \/ \E key \in found : calls' = [calls EXCEPT ![c] = Append(@, Replacement(key))]
  /\ UNCHANGED <<kernel_map_file, sizesToSymbol, pc, text, lineno, module, alone>>

EndRun(c) ==
  /\ pc[c] = "visiting" /\ Visited(c) > Len(module[c])
  /\ pc' = [pc EXCEPT ![c] = "done"]
  /\ UNCHANGED <<kernel_map_file, sizesToSymbol, text, lineno, module, calls, alone>>

\* One run writes to the map while another reads or writes it: what std::map does then is
\* undefined.  Operations that happen not to tear are steps of their own; the other outcome
\* is that the process ends.
RaceAborts ==
  /\ \E c, d \in Compilations : c # d /\ pc[c] = "filling" /\ Active(d)
  /\ pc' = [c \in Compilations |-> "aborted"]
  /\ UNCHANGED <<kernel_map_file, sizesToSymbol, text, lineno, module, calls, alone>>

RunStep(c) ==
  \/ RunUnset(c) \/ RunOpens(c) \/ RunKeeps(c)
  \/ ReadLine(c) \/ EndReading(c)
  \/ Visit(c) \/ EndRun(c)

\* Every run has ended.
Quiet == /\ \A c \in Compilations : pc[c] \in {"done", "failed", "aborted"}
         /\ UNCHANGED vars

Next == RaceAborts \/ Quiet \/ \E c \in Compilations : RunStep(c)

Spec == Init /\ [][Next]_vars

------------------------------------------------------------------------------
(* Properties. *)

TypeOK ==
  /\ kernel_map_file \in BOOLEAN
  /\ pc \in [Compilations ->
             {"idle", "filling", "visiting", "done", "failed", "aborted"}]
  /\ text \in [Compilations -> Texts \cup {<<>>}]
  /\ lineno \in [Compilations -> Nat \ {0}]
  /\ module \in [Compilations -> Modules]
  /\ DOMAIN calls = Compilations
  /\ alone \in [Compilations -> BOOLEAN]
  /\ \A key \in DOMAIN sizesToSymbol :
       key.kTy \in KernelType /\ Len(key.ranges) = kernelTypeToSizeRank[key.kTy]

\* A line of a text that fits the sizes of an instruction, for the kernel it needs.
FitsLine(line, request) ==
  /\ IsEntry(line) /\ line.kernel = request.kTy
  /\ Fits(Ranges(line), request.keys)

\* Each call a run has made, with the request it was made for.
Made(c, i) == calls[c][i] # NoCall
Asked(c, i) == Request(module[c][i])

\* However runs overlap and whatever happens to the file, a symbol is called only for an
\* operation and sizes that a line some run has read lists for it: a kernel is never given
\* what the user did not give it.
ChoiceIsListed ==
  \A c \in Compilations : \A i \in DOMAIN calls[c] :
    Made(c, i) =>
      \E d \in Compilations : \E l \in DOMAIN text[d] :
        FitsLine(text[d][l], Asked(c, i)) /\ text[d][l].symbol = calls[c][i].symbol

\* The lines of a text that are read: up to the first unknown kernel.
LinesRead(t) == {l \in DOMAIN t : \A j \in 1..l : ~EndsReading(t[j])}

\* The line that decides, by the file alone: the first in the order of ranges, and among lines
\* with the same ranges the last one of the file.
Deciding(t, request) ==
  LET fit == {l \in LinesRead(t) : FitsLine(t[l], request)}
  IN  {l \in fit : \A o \in fit :
         \/ Before(Ranges(t[l]), Ranges(t[o]))
         \/ Ranges(t[l]) = Ranges(t[o]) /\ o <= l}

\* A call is made when a line decides, and with the symbol of that line.
ChosenByFile(c, i) ==
  LET deciding == Deciding(text[c], Asked(c, i))
  IN  /\ Made(c, i) <=> deciding # {}
      /\ Made(c, i) => \E l \in deciding : calls[c][i].symbol = text[c][l].symbol

\* What a run calls depends on the file it read and on nothing else, not on what earlier runs
\* left in the map, as long as it does not overlap with another run.
AloneChoosesByFile ==
  \A c \in Compilations : alone[c] => \A i \in DOMAIN calls[c] : ChosenByFile(c, i)

\* A kernel called for a dot, with the operands the pass collected and the emitter passes on,
\* sums the products of the dot.
CallsComputeDots ==
  \A c \in Compilations : \A i \in DOMAIN calls[c] :
    Made(c, i) /\ module[c][i].opcode = "dot" =>
      KernelProducts(calls[c][i].op_type, Emitted(calls[c][i])) = DotProducts(module[c][i])
=============================================================================
