# A verification development for ANNC

ANNC speeds up neural-network inference on CPUs: it rewrites TensorFlow graphs so that
embedding lookups become single fused ops, rewrites XLA's HLO and MLIR's tensor operations so that
products, batch products, argmax, pooling and softmax call hand-written kernels, and provides those
kernels. This directory holds TLA+
models of its core, the TLC configurations that check them on small instances, and proofs about
them that TLAPS checks. Every definition is translated from the source; the `map` of
`PROJECT.json` names the lines.

## The system

| Part | Source | State it keeps | Operations | Interacts with |
|---|---|---|---|---|
| Graph optimizer | `annc/tensorflow/graph_optimizer/graph_opt.{cc,h}` | the GraphDef, `node_indexes_`, `rewriters_`, the position of the loop | `run_graph_optimization`, `optimize`, ten `match_and_rewrite` | called by grappler's remapper (`tf_annc_optimizer.patch`), once per iteration of the meta optimizer |
| Fused kernels | `annc/tensorflow/kernels/*.cc`, `ops/embedding_fused_ops.cc` | none between calls | `Compute` | run for the nodes the optimizer adds; share TensorFlow's worker threads |
| Kernel-selector runtime | `annc/service/cpu/xla/kernel_selector.cc` | per call: a blocking counter, closures in the thread pool, the output | 4 parallel kernels, their sequential versions, pass-through entry points | called by XLA's generated code; share the intra-op pool |
| Kernel-selector rewriter | `annc/service/cpu/xla/kernel_selector_ops_rewriter.cc` | one global interval map, filled from a file at each compilation | `fill_map_from_file`, `HandleDot`, `HandleReduce` | emits the calls of the runtime |
| HLO rewriters | `annc/service/cpu/{kdnn_rewriter,gemm_rewriter,reduce_rewriter,graph_opt,annc_flags}.cc` | `flag_values_`, from `ANNC_FLAGS`; the registered rewriters, sorted by benefit; the computation | `parse_flags_from_string`, `HandleDot`... of `KDnnFusionAfterHloLayoutAssign`, seven rewriters | a pass `cpu_compiler.patch` adds to XLA's pipeline; emits calls of the kernels registered beside them |
| BiSheng HLO passes | `annc/service/bisheng-cpu/*.cc` | the computation | `ConcatPartition`, `EmbeddingSimplify`, `ReduceCombine` | earlier passes of the same pipeline |
| XNNPACK rewriter and ops | `annc/service/cpu/xla/xnnpack_*` | the computation | `HandleDivide`: a softmax becomes a call | an earlier pass of the same pipeline; XNNPACK |
| Passes over concatenations | `annc/service/cpu/llvm/ConcatOpPatterns.cpp`, `cpu/xla/legalize_concat.cc` | a block of MLIR tensor operations | legalize, simplify, remove, decompose, one concatenation at a time | a pipeline of `mlir-hlo-opt`; before bufferization |
| Products to calls | `annc/service/cpu/xla/dot_to_func_call_pass.cpp` | the block; functions declared; the position in `XLA_MLIR_MATMUL_SELECTOR` | one walk | the same pipelines |
| Output-tensor reuse | `annc/service/cpu/xla/reuse_output_tensor.cpp` | inits of fusions | one walk | an option of XLA's CPU tiling pipeline, off by default; a patched bufferization, which trusts it |
| `annc-opt` | `python/annc` | a GraphDef | pattern rewrites, packing of constants | offline; the packed weights are for `__layout_matmul` |
| Python-side kernels | `python/tensorflow/kernels` | none | hashing to buckets | run for nodes `annc-opt` adds |
| Vendored code | `third_party`, `install`, `annc/service/cpu/xla/libs` | | | |

What makes each part correct, and what is hard about it:

* **Graph optimizer.** The fetches of a graph compute what they computed before; every node's
  name is unique and every input names an output that exists; no cycle; the pass ends. Hard:
  `optimize` walks over a vector that its body appends to and swaps, by an index map that is
  renewed only after a match; a rewriter may give up after it has added a node; patterns overlap
  (the output of one match feeds another), their nodes may be fetched or have other users; the
  pass runs again on a graph that holds fused nodes, pruned in between.
* **Kernel-selector runtime.** A call returns, with the output of the sequential kernel, and
  leaves nothing behind that refers to its stack. Hard: closures of several calls interleave on
  one pool; the number of closures and the number the counter is told are computed separately;
  sizes that do not divide, or are smaller than the pool.
* **Kernel-selector rewriter.** What a dot or argmax calls is what the map file lists for its
  sizes, and the call computes the dot. Hard: ranges overlap, wildcards are ranges, the order of
  the search is that of a `std::map` and not of the file; the map is one global that every
  compilation clears and fills; sizes, flags and operands go through three pieces of code that
  agree on their order only by position.
* **Fused kernels.** They compute what the ops they replace compute. Hard: the nonzero segment
  reduction writes from many threads at offsets counted in an earlier phase.
* **HLO rewriters and passes.** The computation's value is preserved and it is well-formed after
  every rewrite, a pass does not feed on its own output, the flags mean what their text says, and
  weights that were packed offline meet the one kernel that reads them so. Hard: patterns are
  matched by walking operands at fixed positions; one rewriter removes what another was to visit;
  what is a match depends on what the passes before have made; the operands of the fused call are
  deduplicated while the kernel reads them by position; two tools, run at different times, decide
  separately which weights are packed.
* **MLIR passes.** The block returns what it did, every value is read below where it is made, types
  agree, a rewrite leads to fewer rewrites, and an overwritten tensor is not read afterwards. Hard:
  slices are merged by their offsets in several dimensions at once; results that are concatenated
  in one order are computed in another, and written into parts of one tensor; the greedy driver
  picks any of several concatenations; a function is declared once, for products of several types;
  the reuse pass and the concatenation passes both change inits, without knowing of each other.

## Modules

| Module | What it is |
|---|---|
| `NodeGraph` | GraphDef as a sequence of nodes; `get_node`, `get_operand`, `get_user`, `replace_all_users_with`, `update_node_indexes`, the guards of `PatternRewriter` |
| `FusionRewriters` | the ten `match_and_rewrite` functions as operators of (graph, index, node): no match, a half-built node, or a match with its inputs and the tensors it replaces |
| `RewriteLoop` | the abstract specification: `optimize` over the names of the nodes, whatever the rewriters match |
| `GraphOptimizer` | `run_graph_optimization` and `optimize` over the real rewriters, within the iterations of grappler and after its pruner; implements `RewriteLoop` |
| `GraphSemantics` | what a graph computes, as terms, with the fused kernels unfolded to the ops they replace |
| `MCGraphOptimizer` | the graphs for TLC |
| `KernelCalls` | the abstract specification of a kernel call: it returns once, with the sequential output |
| `ParallelKernels` | `Batch3DParallel`, `Batch4DParallel`, `ArgMax3DParallel`, `GEMMParallel`, any number of calls on one pool; implements `KernelCalls` |
| `MCParallelKernels` | the calls for TLC |
| `IntervalMap` | the lines of the map file as `parseLine` and `fill_map_from_file` take them, `insert` and `lookup` |
| `DotKernels` | what an HLO dot sums, and what the kernels of `kernel_selector.cc` sum when called for it, as sets of products of buffer offsets |
| `KernelSelector` | `KernelSelectorOpsRewriter`: `Run`, `fill_map_from_file`, `HandleDot`, `HandleReduce`, any number of overlapping runs over the global map; the operands as the emitter passes them on |
| `MCKernelSelector` | the map files and HLO modules for TLC |
| `SegmentReduceNonzero` | `KPFusedSparseSegmentReduceNonzeroOp::Compute`: reduction, count, offsets and fill, over worker threads |
| `MCSegmentReduceNonzero` | the inputs for TLC |
| `RowMajor` | offsets and coordinates in row-major tensors, concatenations, sums; shared by the two parts below |
| `Hlo` | an HLO computation: operands, users, replacement, fusion, shapes (external) |
| `AnncFlags` | `annc_flags.cc`: the flags, their groups, one word of the text |
| `KDnnRewriters` | the rewriters of `gemm_rewriter.cc` and `graph_opt.cc`, their order, and what `kdnn_rewriter.cc` does with the first that matches |
| `BishengPasses` | `ConcatPartition`, `EmbeddingSimplify`, `ReduceCombine`, per instruction visited |
| `SoftmaxRewriter` | `XnnPackOpsRewriter::HandleDivide` |
| `LayoutPacking` | the tiling and packing of `data_pack.py` and `constant_folding.py` |
| `HloPipeline` | the composition: `annc-opt`'s packing, then the passes in the order of `cpu_compiler.patch`, over one computation |
| `HloSemantics` | what a computation computes, on integers, with the kernels' loops over their buffers |
| `MCHloPipeline` | the compilations for TLC |
| `TensorBlock` | a block of MLIR tensor operations: uses, insertion, dominance, types (external) |
| `ConcatPasses` | the patterns of `ConcatOpPatterns.cpp` and `legalize_concat.cc` |
| `MatmulCalls` | `dot_to_func_call_pass.cpp` |
| `OutputReuse` | `reuse_output_tensor.cpp` |
| `TensorPipeline` | the composition: the passes over one block, in the order a pipeline names them |
| `TensorSemantics` | what a block computes by its values, and what the code computes that overwrites its inits |
| `MCTensorPipeline` | the blocks and pipelines for TLC |
| `Recursion` | what a recursive definition comes to, whatever its step is: folds over numbers and sequences, and what a set grows to; the proofs about the two pipelines instantiate it for each of their loops |
| `RewriteLoopProofs`, `GraphOptimizerProofs` | proofs about the graph optimizer: its loop; its operators, the refinement, the end of the pass, the inputs |
| `ParallelKernelsProofs`, `KernelSelectorProofs` | proofs about the parallel kernels and the kernel selector |
| `SegmentReduceNonzeroProofs` | proofs about the nonzero kernel: its offsets and writes, and what it returns |
| `HloPipelineProofs` | proofs about the HLO pipeline: what adding, replacing, removing and fusing leave of a computation; what each rewriter adds, reads and takes away, that the computation is well-formed after every rewrite, and what the flags are |
| `TensorPipelineProofs` | proofs about the tensor pipeline: where insertions, replacements and removals leave the operations of a block, that after every rewrite each stands below all it reads, and that every pass ends |

### State and actions of `GraphOptimizer`

`graph` is the GraphDef, `indexes` is `node_indexes_`, `rewriters` is `rewriters_` (chosen from
the environment `env` in the order of the `register_rewriter` calls; `ANNC_FUSED_ALL` does not
select two of the ten), `node_index` and `node_size` are the locals of `optimize`, `rewriter`
its inner loop. `start` and `spare` are history: the graph the pass was given and the nodes for
which a rewriter gave up half-way. A step is one call of `match_and_rewrite` (`NoRewrite`,
`AbandonRewrite`, `Rewrite`), the end of the inner loop (`NextNode`) or of the outer one
(`Finish`). The pass is sequential: nothing happens between these steps, and their granularity
only serves to check the properties inside a pass. `Prune` and the iterations are grappler's.

`Rewrite` is everything between `nodes->Add()` and the next turn of the loop: the node is
appended, swapped with the visited node through the index, the users are redirected, the index is
renewed *on top of what it held* and the position is read back from it. `AbandonRewrite` is
`return false` after `nodes->Add()`.

Abstracted: strings (a name is a sequence of parts, the appendix is one), devices, element types,
and the encoding of tensors (a constant has a shape and integer elements). `check_const_value`
compares a prefix, as in the code. "name:0" and "name" are one reference, as grappler normalises
them, so that a user that spells out ":0" is not among the graphs.

### State and actions of `ParallelKernels`

Per call: `pc`, `first` (`batchIdx`), `bc` (the counter), `span` (the interval of units each
closure has left), `queued` and `running` closures, and `C`, the output. A unit is one
`cblas_sgemm` or one `ArgMaxTask`; `C` holds, per cell, what was added to it since it was
overwritten, so that a tile that is computed twice, not at all, or from wrong offsets shows.
`Enter`, `Schedule` (one turn of the loop) and `Return` are the caller's; `Take`, `DoUnit`,
`DecrementCount` a thread's. Callers are not threads of the pool; who calls is XLA's decision and
not in this repository.

### State and actions of `KernelSelector`

`sizesToSymbol` and `kernel_map_file` are the globals of those names (the second as a truth
value). Per run of the pass: `pc`, `text` (what the file holds when this run opens it), `lineno`,
`module` (its dots and reductions in post-order) and `calls`, one entry per instruction visited:
the custom call it was replaced by, or `NoCall`. `alone` is history: the run filled the map itself
and no other run was active at any time since. `RunUnset`, `RunOpens` and `RunKeeps` are the start
of `Run` without a map file, with one, and with one that cannot be opened any more; `ReadLine` is
one turn of the loop of `fill_map_from_file`, `EndReading` its end or the `return` at an unknown
name; `Visit` is `HandleDot` or `HandleReduce` for the next instruction; `EndRun` the return.

XLA compiles clusters on several threads, and nothing locks the map. An operation on it is one
step here; the other thing a data race on a `std::map` may do is end the process, which is
`RaceAborts`, enabled whenever one run fills while another is active. The file's contents may
differ from run to run but are read in one piece.

Abstracted: a line is what the regular expression finds in it, and a number that does not fit an
int does not occur; a symbol is a name; the `fallback` out-parameter, which
`GetKernelSelectorFunction` resets before anyone reads it, and the constants that `makeConstant`
leaves behind without users are left out. Buffers are row-major and hold floats; the pass checks
neither. Dots are matrix times matrix, matrix times vector, and batches of matrices in up to two
dimensions (`IsDot`); a vector on the left, or in a batch, is left out.

### State and actions of `SegmentReduceNonzero`

`segment_order`, `segment_sums`, `segment_counts`, `segment_nz_counts` and `segment_offsets` are
the locals of those names, `output` the two outputs side by side, which are not initialised
(`Unwritten`). `Start` checks the input and gives the shape, `ReduceRow` is one turn of the first
loop, `BeginCount` and `BeginFill` call `Shard`, `CountSegment` is one turn of `count_work`,
`FillElement` and `NextSegment` the inner and the outer loop of `output_work`, `AddOffset` one turn
of the prefix sum; `EndCount` and `EndFill` are the returns of `Shard`.

`Shard` is TensorFlow's: it splits the segments into intervals and runs them on threads, and no
more is assumed of it. `shards` holds what each thread has left, in any partition and any
interleaving. With too few segments or threads the code has loops of its own that go on from where
they are instead of starting at the offset; here that is one shard, and the `IF Parallel` of
`NextSegment`. The code for vectors is the same with one dimension and no threads.

Abstracted: sums are integers. A mean is a sum and a count, and is zero when the sum is, so that
floats that underflow are left out; the order of additions too. `MinSegments` is 16 in the code.

### State and actions of `HloPipeline`

`request` is what is compiled: a computation, the words of `ANNC_FLAGS`, the variables `annc-opt`
may pack and which of the tools are used. `pass` is the position in the pipeline of
`install/xla/cpu_compiler.patch`, `comp` the computation, `todo` the instructions the pass has
still to come to, `words` and `flags` the text and `flag_values_`, `packings` and `packed` what
`annc-opt` has done to the variables and the attributes it left on the products.

`NextPass` takes the next pass that is in this pipeline (KDnn's only when `annc-pass` is on) and
hands it the instructions there are; `HloDCE` is XLA's and is done with it. `ReadWord` is a turn of
the loop of `parse_flags_from_string`. `Visit` is one `Handle...` of a visitor, or a turn of a
BiSheng pass's loop over the instructions: the match and everything it changes, the rewriters in
order of their benefit, the first that matches, the fusion it is wrapped into and the call that
replaces it. `PackVariables` is a turn of `LayoutMatmulRewriter`. The instructions come in *some*
post-order, `\E i \in todo` over those whose ancestors are done, because XLA's depends on details
of the graph's construction; all of them are tried.

Fused computations are kept: a `Fusion` has a body and its operands in the order, and with the
duplicates dropped, as `kdnn_rewriter.cc` does, and the call's operands are those of the fusion.
`HloSemantics` then reads its buffers at the positions the kernel reads.

Abstracted: sums are integers, a quotient is four digits of it and an exponential a power of two,
enough to tell the arguments of a softmax or mean apart; a layout is row-major or not; names and
metadata are left out. Of XLA's own passes in between only the one is there that removes dead
instructions. `annc-opt` runs on a TensorFlow graph, whose MatMuls are taken for the dots XLA makes
of them. How `kp_sgemm` reads packed weights is not in this repository; that it is the order in
which `annc-opt` writes them is assumed, and whether the variables that are packed so and the
calls that read them so are the same is checked (`LayoutsAgree`). `std::sort` may leave two rewriters
of equal benefit in either order: `FirstRewriters` is the set of those that may come first, and each
is tried. `Visit` rewrites to one of `Rewritings(i)`, which has one element for every other pass.

### State and actions of `TensorPipeline`

`request` is a block, the names of passes, and the matmul selector; `pass` counts the passes
begun; `block` is a sequence of operations, each with its number, operands, shape, element type and
attributes; `todo` is what a walk has still to come to; `matmul_idx` and `callees` are those of the
dot pass, `matmul_idx` from 0 in each instance of it, `callees` the types each function was declared
with, a function being one entry of `MatmulToMeta` or `BatchMatmulToMeta` (an entry that a type of
the other kind makes has no name, and what such a call computes is garbage); `failed` is
`signalPassFailure`, an entry of the selector that is missing, or operand types that are used though
there are none, and whatever the code does then, which is not followed. Sizes that are read of a
dimension an operand does not have may be any: the type is then chosen from all in the table
(`TypesBySize`). `Rewrite` is one application of a pattern by the greedy driver, to any concatenation
that matches; `VisitDot` and `VisitFusion` are a turn of the walks, over the operations there were
when the pass began; `NextPass` starts a pass once nothing can be rewritten.

The patterns are modelled with where they insert: `ConcatRemoval` puts one `tensor.empty` and the
slices at the start of the block, sorts the producers by their place in it and chains their inits,
so that "read below where it is made" is a question and not a convention. `TensorSemantics` runs
the block twice: by value, and over buffers, where a slice is a view, an insertion or a
destination-style operation writes to what its init lies in, and nothing is copied.

Abstracted: the bodies of fusions and linalg operations are one function that tells its operands'
elements apart; sizes in the tables of sizes are small stand-ins for `MatmulSizesToMatmulType`;
MLIR's own folds and canonicalizations are left out but for the removal of operations nobody
reads. Buffers are shared exactly where a result lies in its init; copies that bufferization would
add where it sees a conflict are none here, because ANNC's patch makes it see none in elementwise
fusions and the blocks have no others.

## Runs

| Run | Question | Bounds and why they do |
|---|---|---|
| `graph_optimizer` | Are names, index, references, acyclicity and values kept at every step of two iterations, is the loop's specification implemented, does the pass end? | Fifteen graphs: each pattern alone, the lookup-reduce-pad chain in which three rewriters feed each other, graphs whose matched nodes survive pruning (fetched, or awaited by a control edge) and are met again in the second iteration, and near misses on which a rewriter gives up half-way. Three environments: everything, `ANNC_FUSED_ALL` alone, two ops. Two iterations are grappler's default; a third meets nothing new. Eight of the ten fused ops appear: the other two never match (below). |
| `select_order` | Does the fused Select compute what it replaces? | One graph. **Violated**, see Findings. |
| `half_built` | Does each fused node of an optimized graph have the inputs its op declares? | The three near misses. **Violated**, see Findings. |
| `parallel_kernels` | Do two concurrent calls return, with the sequential output, touching nothing afterwards? | Eight pairs over pools of 1 to 4 threads: units fewer than threads, equal, more, with and without remainder, none at all; GEMM with beta 0 and 1, with tiles that do not divide and tiles of no rows, on pools of a square number of threads only. Two calls are enough for every interference: closures of different calls meet only in the pool. |
| `gemm_hang` | Does `GEMMParallel` return on two threads? | **Violated**. |
| `gemm_transposed` | Does it handle `trA`? | **Violated**. |
| `kernel_selector` | Is what runs call listed for what they call it for, does a run that overlaps with no other go by its file alone, does the kernel called sum the products of the dot? | Two runs, which meet each other in every way three would: filling with filling, filling with visiting, one after the other with the file replaced or gone. Four files: ranges that overlap, touch and repeat, one key twice, a wrong rank, noise, an unknown name between good lines, a reversed range. Three modules: dots of all four kinds, transposed on either side, at the ends of the ranges, argmax and a reduction that is none. |
| `segment_reduce_nonzero` | Does every thread write within the outputs and where nobody has written, is nothing left unwritten, and are the outputs the nonzero elements of the reduction? | Thirteen inputs: those of the unit tests, and segments of two, one and no nonzero elements, elements that cancel out, ids that come back or do not ascend, no rows, no dimensions, all zeros, both errors. `MinSegments` is 3, so that three segments, in all four partitions, are on threads; the offsets do not care how many there are. |
| `hlo_pipeline` | After every single rewrite of the pipeline, is the computation well-formed (`Verified`), do the shapes of operands fit what reads them (`ShapesFit`), does what the rewriters take for granted hold (`Presumed`), and is, whenever packed variables and the kernels that read them agree, what is computed what it was? Does each pass settle, is the largest pattern taken, do flags mean what the text says, and do layouts agree in exactly those models of which `annc-opt` and the compiler decide alike (`PackedAsRead`)? | Fifty compilations: lookups of one, two and three columns, narrow and wide, with the bounds that match and one that does not; pooling alone and behind a lookup; windows that cover, overlap, and follow each other; softmax with and without a bound, and one read again; dense layers in both orders of operands, with a second reader, a control edge, a layout that is not row-major, two in a row; batches; weights that are packed and read as packed, and weights of which the two tools decide differently: too few rows, a bias behind the product, no flag or no `annc-opt`, on the left, on both sides, in two products, behind a control edge; weights that are too small. The texts switch groups and single flags on and off, repeat, and break off. The order of the passes is fixed; a pattern meets itself (two lookups, two layers) and what may follow it, and more of a kind meet in the same ways. Shapes are the smallest that pass each check (12 is the code's own limit for `matmul`, `matmul-add` and packing, as `VectorLen`); tiles of 16 and 14 instead of 352 and 128 give uneven last tiles. |
| `tensor_pipeline` | After every single rewrite of a pass, is every value made above its readers, do types agree after every rewrite but those merges of slices that are known to spoil them (`WellTyped`), and while they do, is the value the block's, and would code that overwrites inits return the same? Is there less left to do after each? Does the removal of concatenations spare the copies? | A hundred and twenty-eight pipelines: five blocks with every choice and order of the passes over concatenations (slices to merge and slices that only look so, in two and in three dimensions, producers in another order than their concatenation, concatenations of concatenations, one read twice); the full pipeline on legal and illegal input; slices with gaps, strides and in reverse, two rows thick and laid below each other, and of f64; chains of fusions over arguments that may and may not be written to, with readers of other kinds above the fusion and below it; output reuse before, between and after the removal and the decomposition of concatenations, in every order; products of every rank and type, vectors among them, with a selector, without, and with one that is too short, and with operands of two types. Runs of two and three slices are enough, since `SimplifyConcat` decides on neighbours; two concatenations meet in every way the greedy driver can take them. |
| `gemv_transposed` | Does the GEMV kernel compute the product of a transposed matrix and a vector? | One run; a matrix that is not square. **Violated**. |
| `reuse_read_later` | Is an input that is written over read by nobody below, a linalg operation included? | One block. **Violated**. |

`ValuePreserved` leaves out graphs with a fused Select in `graph_optimizer`: those are the
question of `select_order`. With the constants in the order the op declares that run's property
holds on the same graph.

Fairness: `graph_optimizer` needs none, `Terminates` is a measure that every step decreases,
together with the absence of deadlock. `FairSpec` of `ParallelKernels` assumes that the operating
system runs a caller that can go on and that the pool takes and finishes closures as long as
there are any: `WF` per call, which is what Eigen's pool gives, its queues being drained by all
threads. `tensor_pipeline` needs none: `Ends` says that every rewrite leaves less of a measure, the
operands of concatenations, the concatenations themselves, their legalization, and the operations a
walk has to come to, and there is no deadlock; so the greedy driver ends whichever concatenation it
picks. `TensorEnds` proves it for every block. In `hlo_pipeline` the passes are loops over
a list that gets shorter, and their end is no question.

## Findings

1. `KPFusedSparseSelectRewriter` pushes the constants in the order equal, equal_1, equal_2,
   greater; the op and the kernel expect greater first. The fused node compares with the wrong
   constants.
2. Three rewriters check their last guards after the fused node was added. When one fails, a node
   with too few inputs stays in the graph. It is read by nobody (`SpareUnread`), and pruned when
   another iteration follows, but not after the last one.
3. `GEMMParallel` hangs on pools whose size is no square.
4. `GEMMParallel` ignores `trA` and `trB` in its offsets.
5. A transposed matrix times a vector is called with the sizes of the transposed matrix, which the
   kernel takes for those of the stored one: right for square matrices only.
6. The reuse pass counts only fusions as later readers of an input that is written over: a linalg
   operation below reads what was written (`reuse_read_later`), and so would a concatenation. The
   comment says that the input "is not used after the fusion op".

Shown by what the properties of passing runs leave out, each of which names exactly the cases in
which the code goes wrong and has them in its instances:

* `annc-opt` packs weights by their own size, while the compiler picks the kernel for packed weights
  by the sizes of both operands, by where the variable stands, and by benefit. Where the two differ
  the model computes something else, and nothing notices: a batch of fewer than 12 rows, though
  `docs/constant-folding.md:65` promises the behaviour of the model that is not packed; a bias behind
  the product with `--matmul-add` beside `--layout-matmul`; a weight on the left, for which `:63`
  announces a format that no kernel reads; a weight that two products share; and, the
  other way round, `--layout-matmul`, or the group `--gemm-opt` that `README.md:23` offers for any
  model, without the packing, where `docs/constant-folding.md:84` says that the kernel must have packed data.
  `DecideAlike` is the condition under which they agree, and `PackedAsRead` says that the layouts
  do in those models and no others.
* A merged slice is of f32 whatever the slices are (`ConcatOpPatterns.cpp:628`), and merging across
  another dimension than that of the concatenation is right for slices one row thick: thicker ones
  are collapsed to a type of another size, where the comment at `:331` calls them supported. `MergeFits` is
  the condition, and `WellTyped` says that a rewrite spoils the types if and only if it is a merge
  that does not meet it.

Seen while modelling, and not made a run: `KPFusedSparseSegmentReduceNonzero` never matches, since
it looks for the slice below the Cast that reads Where (`graph_opt.cc:273`) and not below the one
that feeds the reduction; `KPFusedEmbeddingPaddingFast` never matches, since it asks for a
constant of shape `{0}` (`:379`); a matched node that is fetched survives, is matched again in the
next iteration and gets a second fused node of the same name, which is why `UniqueNames` is about
graphs that were not optimized before; the comment "default enable all rewriters" (`:749`) is not
what the code does.

After the removal of concatenations an operation writes its result into a region of a larger tensor,
and nobody reads the result by its own name after the last fusion that does. The reuse pass has this
fusion write over the region, and the larger tensor's readers see it: with `Erasing`, followed by
both passes, `OverwritesNothingRead` fails although no later reader is missed. On a block whose
fusions' inputs are neither read later nor concatenated (`Joined`) the passes get on in every order.
An `mhlo.dot` of operands of two types is not left alone, as the comment at
`dot_to_func_call_pass.cpp:430` says, but its operands' types are dereferenced although there are
none (`TypesUnknown`); the model follows such a compilation no further.

On the kernel selector: a fallback line (`[gemm](*)`) hides every other line of its kernel whose
first range starts above zero, wherever it stands in the file (`WildcardShadows` says why); `README_kernel_selector.md` calls `256:*` "greater than 256" (`:57`; it
includes 256), gives `[argmax]` two sizes (`:37`; the code wants three) and `[batch4d]` the sizes
P, Q (`:36`; the code's names for the same positions are Q, P). `gemm_map.txt` has a line without
`[gemm]`, which never matches, and names a symbol that `kernel_selector_xla.patch` does not
register. With `KERNEL_MAP_FILE` unset the log says the selector "will not run" (`:636`), and
`return OkStatus()` makes the pass fail.

On the nonzero kernel: for an input without rows it returns a shape of one row (`:64`); segments
come out in the order in which they are first met, which is the order of Where only when the ids
ascend, as those of the replaced op must; the unit tests have five segments at most, and the
branches for threads start at 16.

The instances of `hlo_pipeline` and `tensor_pipeline` keep to what TensorFlow's embedding columns,
dense layers and softmax look like. Outside of that the passes leave conditions unchecked, which
`PROJECT.json` notes with its hazards:

* On HLO: no rewriter of dots looks at their dimension numbers (`gemm_rewriter.cc:65`); a fused
  call's operands are deduplicated, which shifts the positions of a dot of x with itself
  (`kdnn_rewriter.cc:60`); any Maximum is taken for a relu (`gemm_rewriter.cc:107`); a variable two MatMuls
  share is packed twice (`constant_folding.py:24`), which the instances have and `DecideAlike`
  excludes; the variables of a BatchMatMul are packed along the first two axes of three; a dot that two
  sums read is fused into the first and computed plainly for the other (`kdnn_rewriter.cc:33`).
* `ConcatPartition` pairs the slices with the concatenation's operands in the order of its users
  (`concat_partition.cc:145`), reads dimension 1 whatever dimension is concatenated (`:149`), and
  makes a concatenation of no operands when every slice is wide (`:167`); `EmbeddingSimplify`
  replaces every use of a zero that is shared (`embedding_simplify.cc:112`); `ReduceCombine` looks
  neither at a window's init nor at its dilation, and of chained windows merges only the outer one
  (`reduce_combine.cc:41`); the softmax rewriter computes the axis and never uses it
  (`xnnpack_ops_rewriter.cc:192`).
* `--gemm-opt=false` switches the group on (`annc_flags.cc:88`).
* On MLIR: a function's element type is that of the first product that calls it
  (`dot_to_func_call_pass.cpp:165`); an entry of the selector is used up by products that are then
  left alone (`:238`), one that is missing is read all the same (`:124`), and one of the other kind
  of product makes a function without a name (`:173`); the result's buffer has the operands' type
  of elements, whatever type the product has; the right operand's contracting dimension is not
  looked at, where the comment at `:303` speaks of a transposed one (`:307`); merging slices whose
  offsets differ in another dimension than that of the concatenation is right only for slices of
  size 1 there (`ConcatOpPatterns.cpp:529`); an operand that occurs twice is given its first offset
  (`:171`), and when it can write into the result its second turn makes its init a slice of a tensor
  it is itself inserted into, so that the block is not dominated. `Dominated` therefore holds of
  blocks whose concatenations have distinct operands.

## Proofs

| Component | For every | Theorems | Assumed of the constants |
|---|---|---|---|
| Graph optimizer | graph, environment, number of iterations | `OptimizerImplementsLoop` (`Spec => ImplementsLoop`), `OptimizerTypeCorrect`, `OptimizerIndexSound`, `OptimizerUniqueNames`, `OptimizerInputsResolve`, `RewritersExclusive`, `OptimizerSpareUnread`, `OptimizerTerminates`; of the loop, `LoopIndexCorrect`, `LoopNamesCorrect`, `LoopProgresses`, `LoopVisitsAll` | `ItemsAssumption`, `IterationsAssumption` |
| Parallel kernels | pool, number of calls, sizes, interleaving | `KernelsTypeCorrect`, `KernelsCounterAlive`, `KernelsUnitsDisjoint`, `KernelsImplementSequential` | `ScenariosAssumption`; `StraightCalls` for the last |
| Kernel selector | set of runs, map files, modules | `SelectorTypeCorrect`, `SelectorChoiceListed`, `SelectorChoosesByFile`, `SelectorCallsComputeDots`, `WildcardShadows` | `TextsAssumption`, `ModulesAssumption`; `SquareTransposes` for the calls |
| Nonzero kernel | input, number of segments, dimensions and workers, split, interleaving | `NonzeroTypeCorrect`, `NonzeroWritesFit`, `NonzeroOutputFull`, `NonzeroReturnsNonzeros` | `InputsAssumption` |
| HLO pipeline | computation of any size, text of `ANNC_FLAGS` of any length, order of visits | `PipelineVerified`, `PipelineTypeOK`, `PipelineFlagsByText` | `CompilationsAssumption`; for the first two, that what the rewriters take for granted holds (`Presumed`, below) |
| Tensor pipeline | block of any size, sequence of passes, choice of the greedy driver, selector | `TensorDominated`, `TensorTypeOK`, `TensorEnds` | `PipelinesAssumption`; `DistinctOperands` |

What is assumed is what the caller has checked before this code runs:

* `ItemsAssumption`: a GraphDef is a sequence of named nodes; a `Cast`, `Reshape`, `StridedSlice` or
  `ParallelDynamicStitch` has the inputs TensorFlow declares for it (`Declared`), which rewriters
  read without looking whether they are there; every input names an output another node has
  (`Resolves`). Nothing is assumed of the shape of the graph, of constants, or of what matches.
  `IterationsAssumption`: the number of iterations is a natural number.
* `ScenariosAssumption`: sizes are natural numbers and the pool has a thread. `StraightCalls`: the
  operands of a `GEMMParallel` are not transposed; for transposed ones the statement is false
  (`gemm_transposed`).
* `TextsAssumption`: a file is a sequence of lines. `ModulesAssumption`: a module is a sequence of
  instructions, and a dot is one of those above, whose operands agree in the dimension they are
  contracted along, as XLA's verifier has checked (`IsDot`). `SquareTransposes`: a matrix that is
  transposed and multiplied by a vector is square; for others the statement is false
  (`gemv_transposed`).
* `InputsAssumption`: sizes are natural numbers, ids and rows integers, the input of a vector has
  one dimension, and a row that an input which is not rejected names has a number for each
  dimension.
* `CompilationsAssumption`: what is compiled is a computation that XLA's verifier has accepted
  (`IsComputation`), and the text is a sequence of words. `PackingAssumption` and the tables of
  sizes are not used by a proof.
* `PipelinesAssumption`: a block is one that MLIR's verifier has accepted (`IsBlock`): each result has a
  number of its own, arguments come first, what writes into a tensor has one to write into, and
  operands are made above their readers. Of the selector, the names of the passes, shapes and types
  nothing is assumed. `DistinctOperands`: no concatenation has an operand twice; for others the
  statement is false (Findings, on `ConcatOpPatterns.cpp:171`). The blocks for TLC are such
  blocks: `MCTensorPipeline` has TLC evaluate both.
* `Presumed` is a hypothesis of two theorems and not an assumption about constants, since it is about
  what the passes come to in between. It names the three places at which a rewriter reads an operand
  without a look at whether there is one: the first bound of a lookup is taken for a broadcast
  (`graph_opt.cc`, `Embedding2`), a pooling is taken to be fused of something that reads six
  instructions, and `ReduceCombine` takes the window it merges for neither the result of the
  computation nor the initial value of the reduction. A module outside of it can be written down,
  and the code would then read past the end of a list or leave a cycle; no embedding column is
  one. The run `hlo_pipeline` checks that `Presumed` holds all the time on every instance.

### The graph optimizer

`IndexSound` is not inductive, since `Replace` swaps whatever position the index
gives for the visited name. `Inv` of `RewriteLoopProofs` adds that the index covers every position
of the scan and never leads to one before it (`IndexCoversScan`), from which follows that a match
moves the loop forward; and, on fresh graphs, `ScanOrder`, which says for each position what is
there: behind `at` nothing has moved, before it is a node or its fused node, beyond `size` are the
fused nodes' originals and leftovers. Uniqueness of names follows from it. The index renewed on
top of the old one (`ReindexedNames`) needs that the last position of a name exists, by
well-foundedness (`LastExists`). `GraphOptimizerProofs` then shows that each action of the
optimizer, seen through `NameSeq`, is an action of the loop; what `MatchAndRewrite` returns is
not looked at. That a rewriter gives up only on nodes of the graph it was given needs, on any graph,
that the positions not reached are as they were (`Unreached`, `UnreachedStep`).

`Terminates` follows from where the loop stands (`TryInv`, `LeftType`): the position the index gives
after a match is never before the visited one (`RewriteProgresses`, from `IndexCoversScan`), so
that a node that is appended and one that is swapped to the back are not walked over again.

`InputsResolve` does look at what the rewriters match, and the proof has a lemma for each of the
ten. `DrawnFrom` is what they have in common: the inputs of the fused node are inputs that nodes
of the graph have already, and the tensors it replaces are no more than its op has outputs. Each
lemma follows the rewriter's walk along `get_operand` and `get_user`, and shows that it reads no
input that a node of the matched op need not have. With that, appending the node (`AppendOK`),
swapping it (`SwapOK`) and redirecting the users (`RedirectOK`) keep the invariant `CInv`: that the
graph is one TensorFlow accepts (`GraphOK`) and that the index knows the name of every input
(`KnownInputs`), without which a walk could end at a node that is not there. What is replaced
by the new node's output k is found by its output being the k-th, and `RedirectOK` needs that the op
declares that many. Between two iterations `PruneKeepsInputs` needs that the names reachable from
the fetches are closed under inputs (`LiveClosed`): the pruner's fixed point, whose existence comes
from the names being finitely many (`NamesFinite`, `ReachExists`).

`SpareUnread` takes that a node one rewriter has given up on is not matched by another, whose users
would then be redirected to the name of the node left behind. `RewritersExclusive` says so of the
patterns alone: each rewriter that returns anything has found what no other accepts (`Anchored`,
`MatchAnchored`, `AnchorsExclude`): mostly the op of the visited node, and where two patterns share
it, that of a node above. Between the attempts on a node nothing it looked at has changed
(`AnchorsStay`), and no rewriter is registered twice (`RegisteredOnce`). The invariant `SpareInv`
adds that the names of the nodes still to be visited are not yet read as fused ones
(`UnreadAhead`), which is true when the pass starts on a graph without fused names; the
theorem is about those passes. On
a graph that was fused before, a fetched node is met again and the loop does not rule out
that a match abandoned on it leaves a node behind whose name others read.

### The parallel kernels

`CounterAlive` follows from `CountInv` in `JobsInv`: the counter is the number of closures the loop
has still to schedule plus those queued and running. The code computes the number the counter is
created with and the turns of the scheduling loop separately; that the loop takes no turn
more (`NextJob`), and that no unit is left when it stops (`AllGivenAway`), is arithmetic about the
quotient and the remainder of the units by the threads, per kernel, in terms of where the loop is
after t turns (`FirstAfter`). `UnitsDisjoint` is part of `SpanInv`: a closure's units lie behind
those given away before, whatever closures have done since. For the refinement, `BuffersInv` says
that a cell of the output is the sequential one unless a unit that writes it is still to be done, by
a closure or by one not scheduled yet (`Pending`); when a call returns none is (`ReturnedOutput`).
For `GEMMParallel` that takes that the tiles partition the output, the last of a row or a column
taking the remainder (`CellCovered`, `CellOnce`), and that a tile's offsets are those of the whole
product (`TileProductIsProduct`), which is where transposed operands fail. On a pool whose size is
no square a GEMM does not return (`gemm_hang`), and the theorem is silent about it.

### The kernel selector

`ChoiceIsListed` needs that the map itself holds only what some run read
(`MapIsListed`), and `AloneChoosesByFile` that the map of a run that is alone is what the lines it
has read make it, the last one for each key (`Filled`, in `AloneIsAlone`), and that it stopped
reading where the file says (`Phases`). `LookupDecides` then shows that the first fitting key in the
order of the map is the key of the deciding line; it needs nothing of the order but that
`Deciding` uses the same one.

For `CallsComputeDots` the invariant is that a call carries the operation and the operands of the
request for its instruction (`MadeAsAsked`), whatever runs did to the map since; the rest is about
a single dot of any size. `EmittedOperand` reads the operands back by the parameters' places. What a
dot sums is brought to a form without index tuples (`Products`): batches are counted through their
dimensions (`BatchNumbers`), an element of a matrix in the batch is at one offset
(`OperandOffset`), and which of the two dimensions of an operand is contracted decides which of them
is a row of the product (`FreeSizes`, `MatrixProducts`). The kernels' leading dimensions come to the
same form by arithmetic (`BatchOfGemms`), for the one product of a GEMM and for the batches, over
which the 4D kernel loops as if they had one dimension. A matrix times a vector is a case of its own
(`VectorProducts`, `GemvProducts`).

### The nonzero kernel

The invariant `FInv` says that a segment is counted or in a shard's
interval (`Counted`), that the offsets so far are sums of the counts of the nonzero dimensions and
leave no position out (`OffsetsSum`; the prefix sum is a step per segment in the code, so its
induction is the invariant's), that shards keep apart (`ShardsApart`), and that a position is
unwritten exactly when it is one that a shard has left (`Filling`, `Left`). A shard is at its
segment's offset plus the nonzero dimensions it has passed (`Below`), from which follows that it
ends where the next segment begins, so that starting from the offset and going on agree
(`NextSegmentStep`), and that the next write is among what is left to it (`FInvWritesFit`).

What it returns needs more than `FInv`. `RInv` adds, for the first phase, that the segments are the
ids met so far in order (`Ordered`) and that each segment's sums and counts are those of its rows
up to now (`Summed`, `RowsCounted`), stated of the partial sums the specification of the result is
made of (`PartialSums`), so that a turn of the loop is one step of theirs (`PartialSumsStep`); for
the last phase, that what has been written at a position is the element whose place it is
(`Written`, `Position`). The places are different ones and ascend with segment and dimension
(`PositionFacts`, `PositionsUnique`), whichever thread writes them when; at the end all are written,
so that the outputs are as many as there are nonzero elements (`OutputsCounted`) and in the order of
Where when the ids ascend (`OutputsOrdered`).

### The HLO pipeline

`Verified` says of every single rewrite, not of a pass as a whole, that the operands an instruction
reads exist, are as many as its operation takes, and that nothing depends on itself; and that the
list of instructions a pass collected before it began holds none that a rewrite of another one has
removed since. The inductive invariant is `PipelineInv`:

* `Sound(comp)`, which says the same of a computation in a form that steps preserve. `Acyclic` is a
  fixed point and tells nothing about a changed computation; `Grounded` says that each set of
  instructions has one that reads none of the set, which a set in the new computation takes over
  from one in the old (`SoundComputations`: the two are the same);
* `Ahead`: what is still to come exists, and is of the operations the pass handles;
* `FlagsTyped` and `PackingsTyped`.

That `Ahead` is preserved is where the proof lies. It needs to know of every rewriter *which*
instructions it takes away, and says it once for all: `Turned(c, d, gone)`, d is sound, numbers what
is new from `c.next` on, changes the operation of nothing, and only instructions in `gone` are
missing from it; and `gone` is `MayGo(c, i)`: the visited instruction, what it depends on, and
slices, reductions, sums and maxima (`Spent`), which no pass visits. A pass comes to operands before
users (the post-order), so that what the visited instruction depends on is not ahead any more, and
what is `Spent` never was (`StepFacts`).

Each rewriter has a lemma that its result is `Turned`: `DivideFacts`, `LayoutMatmulFacts`,
`MatchedFacts` with `FusedFacts` for the four products whose match is a chain of users,
`Embedding2Facts`, `PoolingFacts`, and one for each of BiSheng's passes. They rest on what the first part of
the module says of the operators: `AddedFacts` (instructions that read what is there, or what was added before
them, keep a computation sound), `ReplaceInstructionFacts` (to redirect users keeps it sound if the
new instruction lies in a set that is closed under operands and does not hold the old one, so that no
cycle closes; the old one goes, and with it only what it depends on), `FusedFacts` (a fusion
depends on nothing that reads it, although it is read at the place of the last of those it is made of
and reads what the first does). `ConcatPartition` is the longest: it replaces one slice after another in two
loops, and of the slices not yet replaced, of the lookup and of the columns it must be known at every
turn that they are still there and in front (`Partly`, `StillThere`, `PartlyFacts`), although
each replacement removes what nobody reads any more; that the product itself goes with the last slice
only, and no slice is replaced twice, needs that the users of an instruction are listed once each
(`UsersFacts`, `ColumnsFacts`).

The model has its loops as folds and its closures as recursive functions. `Recursion` proves what such
a definition comes to for any step: that the function exists (`FoldExists`, `GrowthExists`) and that
there is a list of what it comes to from element to element (`FoldSteps`, `GrowthSteps`), along which
an invariant of the loop is carried as usual (`StepByStep`, from the first position of a set
of positions, by well-foundedness). The proofs instantiate the module once for each loop.

`FlagsByText` looks at the text as a whole, the code at a word at a time, and forgets it. The
invariant `FlagsInv` is that some number of words has been read, that what is left is the rest of the
text or, at a word without dashes, nothing (`HasRead`), and that each flag has been decided by the
last word about it among those, or has its default (`DecidedBy`). A word changes the flags it is
about and no other (`ParseFlagFacts`), the names of groups being no names of flags.

### The tensor pipeline

`Dominated` speaks of positions, and every insertion and removal moves them; what does not move is the
number of an operation. `Sound(b)` says what a block has to be in terms of numbers: each is given once
(`Arranged`), and an operation stands below what it reads, has an init if it needs one and, if it is a
concatenation, no operand twice (`Placed`). `InsertAtFacts` and the lemmas behind it say once for all
where an insertion, a replacement and a removal leave every operation (`Shifted`); from there on
proofs say "above" (`Above(b, c)`) and no index appears. The inductive invariant is `TensorInv`:

* `Turned(request.block, block)`: the block is sound, a product in it was one of the given block, and a
  concatenation was one too, of as many operands at least (`Lessens`);
* `WalkInv`: what a walk has still to come to are different operations that are there, of the kind the
  pass is about, and no more of them than, with the entries of the selector already used up, the given
  block has products (`Limit`). That a list of different products is no longer than the list of all
  of them (`LengthFacts`) is counting by an injection.

Each pattern has a lemma that its result is `Turned`: `LegalizeFacts`, `SimplifyFacts`, `RemovalFacts`,
`DecomposeFacts`, `CallInsteadFacts`, `ReuseFacts`. Most insert directly in front of the operation they
replace, and what they add reads what that one read (`Added`, `Extends`, `Replaces`). `ConcatRemoval`
does not: it makes the result at the very start of the block and threads it through the operations
whose results are concatenated, wherever these stand. `Placing` is what holds of the result so far:
it is above the concatenation, is no argument, nobody reads it, and the next insertion goes right behind
it. A turn puts it behind the next operand (`PlaceFacts`), and if that operand's operation is to write
into the result, gives it a slice of the result so far as its init, which must then be above it. That
it is rests on the order the operands are sorted in (`SortedFacts`: by their places in the block,
whatever the concatenation's order, arguments first), on every insertion keeping that order, and on no
operand coming twice: a second turn would slice a result that is already below the operation. What
`getOperandsToErase` decided before the first turn is still so at the operand's turn.

`TensorEnds` is an action property of the same invariant. The measure counts the steps left (`Open`):
since no rewrite makes a concatenation (`Lessens`), they are a subset of those that were left
(`FewerFacts`), and each pattern takes one away at least: `LegalizeFacts` gives the operation its other
name, `RemovalFacts` and `DecomposeFacts` are rid of it, and `SimplifyFacts` leaves it with fewer operands.
The last is the one that could go wrong, the concatenation being still there to match again: what is
merged begins with two operands in a row (`OpportunityFacts`), these are different ones, and
`RewriteConcatSlices` keeps only the first of them (`RewriteSlicesFacts`, `ShorterFacts`).

### What is only model-checked

* Liveness: `Returns`, under `FairSpec`.
* `Acyclic`. It is no theorem about arbitrary graphs: `KPFusedEmbeddingPadding` and others take
  inputs that the replaced tensors need not depend on, and a graph in which such an input depends
  on a replaced tensor gets a cycle. It holds of graphs that embedding columns make, which is
  what the instances are.
* `ValuePreserved` of all three components, whose terms and values are defined by recursion over
  the graph.
* Of `HloPipeline`: `ShapesFit` (shapes are a question of arithmetic on dimensions in each of the
  rewriters, and some get them right for the shapes of embedding columns only), `Presumed`, which is a
  hypothesis of the proofs, and what the passes make of whole patterns: `Settled`, `LargestFused`,
  `PackedAsRead`.
* Of `TensorPipeline`: `WellTyped` (arithmetic on shapes; the merging of slices gets it right for what
  `MergeOpportunities` lets through, by the sums of folds over all dimensions at once),
  `OverwritesNothingRead` (defined by running the block over buffers) and `NoCopies`.

## Plan

1. Done: the graph optimizer, its loop's specification and proofs; the parallel kernels.
2. Done: the kernel selector's map file, map and rewriter, with proofs.
3. Done: the phases of the nonzero kernel over threads, with proofs.
4. Done: the HLO rewriters, `annc_flags`, BiSheng's passes, softmax and the packing of weights, over
   one computation (`HloPipeline`).
5. Done: the passes over concatenations, products and output reuse, over one block
   (`TensorPipeline`).
6. Done: proofs about the references of the graph optimizer, the end of its pass, the parallel
   kernels, what the selector's kernels compute and what the nonzero kernel returns, the nodes
   that abandoned matches leave behind, the flags, and that the computation of the HLO pipeline and
   the block of the tensor pipeline are well-formed after every rewrite, and that the passes over
   the block end.
7. The rewriters of `annc-opt` (`rec_embedding.py`), over the graphs of `NodeGraph`.

## Not modelled

* Vendored code, assembly kernels, installation scripts: no control logic of ANNC.
* `reduce_rewriter.cc` registers nothing (its one registration is commented out); the files
  of `auto_tiling`, `mix_precsions` and `quantize` are empty.
* `linalg_copy_to_memref_pass.cc` and `tile_linalg_copy_pass.cc` hand one operation to one call of
  MLIR each.
* The GEMV, MLIR and Empty entry points of the kernel-selector runtime pass their arguments on.
* The tiles within `fused_batchmatmul_add_sigmoid.cc`: sequential, and right or wrong for fixed
  sizes, which a test decides (the conditions of its fast path are listed as a hazard).
* Reading and writing graphs in `annc-opt`, and, so far, its fusion rewriters; the Python-side
  kernels, which hash strings in a loop over rows.
* Setting up an XNNPACK operator, which can only fail and say so.
