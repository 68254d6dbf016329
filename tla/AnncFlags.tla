------------------------------ MODULE AnncFlags ------------------------------
(***************************************************************************)
(* annc_flags.cc: the flags of ANNC_FLAGS, which ANNCFlags reads once per  *)
(* process.  The text is split at spaces; a word is [dashes: it starts     *)
(* with "--", key, value: what follows "=", "true" when there is no "="].  *)
(***************************************************************************)
EXTENDS Sequences

Flag(name, default_value, type) ==
  [name |-> name, default_value |-> default_value, type |-> type]

\* g_default_flags
DefaultFlags ==
  {Flag("matmul", FALSE, "GEMM_OPT"), Flag("layout-matmul", FALSE, "GEMM_OPT"),
   Flag("batch-matmul", FALSE, "NONE"), Flag("matmul-add", FALSE, "NONE"),
   Flag("matmul-add-relu", FALSE, "NONE"), Flag("sps-emd-2", FALSE, "GRAPH_OPT"),
   Flag("pooling", FALSE, "NONE"), Flag("disable-tf-matmul-fusion", FALSE, "GEMM_OPT"),
   Flag("annc-pass", TRUE, "TF_OPT")}

FlagNames == {f.name : f \in DefaultFlags}

GroupType == [k \in {"graph-opt", "gemm-opt"} |->
                IF k = "graph-opt" THEN "GRAPH_OPT" ELSE "GEMM_OPT"]
GroupOf(key) == {f.name : f \in {g \in DefaultFlags : g.type = GroupType[key]}}

\* Only the flags that are on by default have a value (a mutant of DefaultValues).
EnabledValues == [n \in {f.name : f \in {g \in DefaultFlags : g.default_value}} |-> TRUE]

DefaultValues ==
  [n \in FlagNames |-> (CHOOSE f \in DefaultFlags : f.name = n).default_value]

Enables(word) == word.value \in {"true", "1", ""}

\* flag_values_ with one value for each of these names.
Assign(values, names, enable) ==
  [n \in names \cup DOMAIN values |-> IF n \in names THEN enable ELSE values[n]]

\* A group flag that heeds its value (a mutant of ParseFlag).
ParseFlagValued(values, word) ==
  Assign(values, IF word.key \in DOMAIN GroupType THEN GroupOf(word.key) ELSE {word.key},
         Enables(word))

\* One turn of parse_flags_from_string: a group turns its flags on whatever its value is, and
\* an unknown flag is complained about and kept.
ParseFlag(values, word) ==
  IF word.key \in DOMAIN GroupType
  THEN Assign(values, GroupOf(word.key), TRUE)
  ELSE Assign(values, {word.key}, Enables(word))

IsEnabled(values, name) == name \in DOMAIN values /\ values[name]
=============================================================================
