------------------------- MODULE KernelSelectorProofs -------------------------
(***************************************************************************)
(* The kernel selector's choices, for every map file, every HLO module and *)
(* any number of overlapping runs, and what the kernels it calls compute,  *)
(* for dots of every size.                                                 *)
(***************************************************************************)
EXTENDS KernelSelector, SequenceTheorems, TLAPS

IsSeq(s) == \E S : s \in Seq(S)

\* Appending keeps what is there.
LEMMA AppendFacts ==
  ASSUME NEW s, IsSeq(s), NEW e
  PROVE  /\ IsSeq(Append(s, e)) /\ Len(s) \in Nat
         /\ DOMAIN s = 1..Len(s) /\ DOMAIN Append(s, e) = 1..Len(s) + 1
         /\ Append(s, e)[Len(s) + 1] = e
         /\ \A i \in 1..Len(s) : Append(s, e)[i] = s[i]
PROOF
<1>1. PICK S : s \in Seq(S)
  BY DEF IsSeq
<1> DEFINE T == S \cup {e}
           a == Append(s, e)
<1>2. s \in Seq(T) /\ e \in T
  BY <1>1, SeqMonotonic
<1>3. a \in Seq(T) /\ Len(a) = Len(s) + 1 /\ a[Len(s) + 1] = e
      /\ \A i \in 1..Len(s) : a[i] = s[i]
  BY <1>2, AppendProperties
<1>4. Len(s) \in Nat /\ DOMAIN s = 1..Len(s) /\ DOMAIN a = 1..Len(a)
  BY <1>2, <1>3, LenProperties
<1> HIDE DEF a, T
<1>5. IsSeq(a)
  BY <1>3 DEF IsSeq
<1> QED
  BY <1>3, <1>4, <1>5 DEF a

\* The map that map.clear() leaves has no key.
LEMMA EmptyMap == DOMAIN <<>> = {}
PROOF
  OBVIOUS

------------------------------------------------------------------------------
(* The order of the map. *)

\* Why the fallback shadows every other line: the key a lone wildcard stands for comes before
\* every key of its rank whose first range does not start at zero.
THEOREM WildcardShadows ==
  ASSUME NEW n \in Nat \ {0}, NEW rs, Len(rs) = n, rs[1][1] \in Nat \ {0}
  PROVE  Before([i \in 1..n |-> maxRange], rs)
PROOF
<1> DEFINE wild == [i \in 1..n |-> maxRange]
<1>1. 1 \in DOMAIN wild /\ wild[1] = maxRange
  OBVIOUS
<1>2. RangeBefore(maxRange, rs[1])
  BY DEF RangeBefore, maxRange
<1>3. \A j \in 1..1 - 1 : wild[j] = rs[j]
  OBVIOUS
<1> QED
  BY <1>1, <1>2, <1>3 DEF Before

\* An instruction for which a kernel type is looked up makes a call that is one.
LEMMA RequestFacts ==
  ASSUME NEW instr, Request(instr).kTy \in KernelType
  PROVE  Request(instr).op_type # "none"
PROOF
<1>1. NoRequest.kTy \notin KernelType
  BY DEF NoRequest, KernelType
<1>2. CASE instr.opcode # "dot"
  BY <1>1, <1>2 DEF Request, HandleReduce
<1>3. CASE instr.opcode = "dot"
  <2>1. getOperation(instr) \in
          {"GEMM", "GEMV", "BATCH_MATMUL_3D", "BATCH_MATMUL_4D", "NONE"}
    BY DEF getOperation
  <2>2. Request(instr) = HandleDot(instr)
    BY <1>3 DEF Request
  <2>3. HandleDot(instr) \in {GemmRequest(instr), GemvRequest(instr), Batch3DRequest(instr),
                             Batch4DRequest(instr), NoRequest}
    BY <2>1 DEF HandleDot
  <2>4. /\ GemmRequest(instr).op_type = "GEMM" /\ GemvRequest(instr).op_type = "GEMV"
        /\ Batch3DRequest(instr).op_type = "BATCH3D"
        /\ Batch4DRequest(instr).op_type = "BATCH4D"
    BY DEF GemmRequest, GemvRequest, Batch3DRequest, Batch4DRequest
  <2> QED
    BY <1>1, <2>2, <2>3, <2>4
<1> QED
  BY <1>2, <1>3

------------------------------------------------------------------------------
(* The invariant. *)

\* A line that puts a symbol at a key.
Stores(line, key) == IsEntry(line) /\ key = KeyOf(line.kernel, Ranges(line))

Read(c) == 1..lineno[c] - 1

LastStores(c, key, l) ==
  Stores(text[c][l], key) /\ \A o \in Read(c) : Stores(text[c][o], key) => o <= l

\* The map is what the lines read so far make it.
Filled(c) ==
  /\ \A l \in Read(c) : \A key : Stores(text[c][l], key) => key \in DOMAIN sizesToSymbol
  /\ \A key \in DOMAIN sizesToSymbol :
       \E l \in Read(c) : LastStores(c, key, l) /\ sizesToSymbol[key] = text[c][l].symbol

Phases ==
  \A c \in Compilations :
    /\ IsSeq(text[c]) /\ IsSeq(calls[c])
    /\ pc[c] = "idle" => lineno[c] = 1 /\ text[c] = <<>>
    /\ pc[c] \in {"idle", "filling"} => calls[c] = <<>>
    /\ lineno[c] <= Len(text[c]) + 1
    /\ \A l \in Read(c) : ~EndsReading(text[c][l])
    /\ pc[c] = "visiting" /\ lineno[c] <= Len(text[c]) => EndsReading(text[c][lineno[c]])

\* Whatever the map holds, some run has read.
MapIsListed ==
  \A key \in DOMAIN sizesToSymbol :
    \E d \in Compilations : \E l \in DOMAIN text[d] :
      Stores(text[d][l], key) /\ text[d][l].symbol = sizesToSymbol[key]

AloneIsAlone ==
  \A c \in Compilations : alone[c] /\ Active(c) =>
    Filled(c) /\ \A d \in Compilations : d # c => ~Active(d)

SInv == TypeOK /\ Phases /\ MapIsListed /\ AloneIsAlone /\ ChoiceIsListed /\ AloneChoosesByFile

\* What runs do with the map and the texts without touching them.
LEMMA QuietStep ==
  ASSUME SInv,
         UNCHANGED <<kernel_map_file, sizesToSymbol, text, lineno, module, calls, alone>>,
         pc' \in [Compilations ->
                  {"idle", "filling", "visiting", "done", "failed", "aborted"}],
         \A c \in Compilations :
           \/ pc'[c] = pc[c]
           \/ pc'[c] \in {"done", "failed", "aborted"}
           \/ /\ pc[c] = "filling" /\ pc'[c] = "visiting"
              /\ lineno[c] <= Len(text[c]) => EndsReading(text[c][lineno[c]])
  PROVE  SInv'
PROOF
<1> USE DEF SInv
<1>1. TypeOK'
  BY DEF TypeOK
<1>2. Phases'
  BY DEF Phases, Read
<1>3. MapIsListed' /\ ChoiceIsListed'
  BY DEF MapIsListed, ChoiceIsListed, Made, Asked
<1>5. AloneChoosesByFile'
  <2>1. text' = text /\ module' = module /\ calls' = calls /\ alone' = alone
    OBVIOUS
  <2>2. \A c \in Compilations : \A i : ChosenByFile(c, i)' <=> ChosenByFile(c, i)
    BY <2>1, Zenon DEF ChosenByFile, Made, Asked
  <2> QED
    BY <2>1, <2>2 DEF AloneChoosesByFile
<1>4. AloneIsAlone'
  BY DEF AloneIsAlone, Active, Filled, Read, LastStores
<1> QED
  BY <1>1, <1>2, <1>3, <1>4, <1>5

\* A run starts: it clears the map, or does not and is not alone.
LEMMA StartStep ==
  ASSUME SInv, NEW c \in Compilations, RunOpens(c) \/ RunKeeps(c)
  PROVE  SInv'
PROOF
<1> USE DEF SInv
<1>1. pc[c] = "idle" /\ lineno[c] = 1 /\ text[c] = <<>> /\ calls[c] = <<>>
  BY DEF RunOpens, RunKeeps, Phases
<1>2. /\ lineno' = lineno /\ module' = module /\ calls' = calls
      /\ kernel_map_file' = kernel_map_file
  BY DEF RunOpens, RunKeeps
<1>3. \A d \in Compilations : d # c => text'[d] = text[d] /\ pc'[d] = pc[d]
  BY DEF RunOpens, RunKeeps, TypeOK
<1>4. /\ text' \in [Compilations -> Texts \cup {<<>>}]
      /\ pc' \in [Compilations ->
                  {"idle", "filling", "visiting", "done", "failed", "aborted"}]
      /\ pc'[c] \in {"filling", "visiting"}
      /\ pc'[c] = "visiting" => text'[c] = <<>>
  <2>1. CASE RunOpens(c)
    BY <2>1 DEF RunOpens, TypeOK
  <2>2. CASE RunKeeps(c)
    BY <1>1, <2>2 DEF RunKeeps, TypeOK
  <2> QED
    BY <2>1, <2>2
<1>5. DOMAIN sizesToSymbol' = {} \/ (sizesToSymbol' = sizesToSymbol /\ text' = text)
  <2>1. CASE RunOpens(c)
    BY <2>1, EmptyMap DEF RunOpens, Emptied
  <2>2. CASE RunKeeps(c)
    BY <2>2 DEF RunKeeps
  <2> QED
    BY <2>1, <2>2
<1>6. /\ alone' \in [Compilations -> BOOLEAN]
      /\ alone'[c] => /\ DOMAIN sizesToSymbol' = {} 
                      /\ \A d \in Compilations : ~Active(d)
      /\ \A d \in Compilations : d # c /\ alone'[d] => alone[d] /\ ~Active(d)
  <2>1. \/ RunOpens(c) /\ Meets(c, TRUE) /\ DOMAIN sizesToSymbol' = {}
        \/ RunKeeps(c) /\ Meets(c, FALSE)
    BY EmptyMap DEF RunOpens, RunKeeps, Emptied
  <2>2. /\ alone' \in [Compilations -> BOOLEAN]
        /\ alone'[c] => RunOpens(c) /\ \A d \in Compilations : ~Active(d)
    BY <2>1 DEF Meets, TypeOK
  <2>3. \A d \in Compilations : d # c /\ alone'[d] => alone[d] /\ ~Active(d)
    BY <2>1 DEF Meets
  <2> QED
    BY <2>1, <2>2, <2>3, EmptyMap DEF RunOpens, Emptied
<1>7. TypeOK'
  BY <1>2, <1>4, <1>5, <1>6 DEF TypeOK
<1>8. Phases'
  <2>1. IsSeq(text'[c])
    <3>1. text'[c] \in Texts \cup {<<>>}
      BY <1>4
    <3>2. \A t \in Texts : IsSeq(t)
      BY TextsAssumption DEF IsSeq
    <3>3. IsSeq(<<>>)
      <4>1. <<>> \in Seq({})
        OBVIOUS
      <4> QED
        BY <4>1 DEF IsSeq
    <3> QED
      BY <3>1, <3>2, <3>3
  <2>2. Len(text'[c]) \in Nat
    BY <2>1, LenProperties DEF IsSeq
  <2>3. pc'[c] = "visiting" => ~(lineno'[c] <= Len(text'[c]))
    BY <1>1, <1>2, <1>4
  <2>4. ASSUME NEW d \in Compilations, d = c
        PROVE  /\ IsSeq(text'[d]) /\ IsSeq(calls'[d])
               /\ pc'[d] = "idle" => lineno'[d] = 1 /\ text'[d] = <<>>
               /\ pc'[d] \in {"idle", "filling"} => calls'[d] = <<>>
               /\ lineno'[d] <= Len(text'[d]) + 1
               /\ \A l \in Read(d)' : ~EndsReading(text'[d][l])
               /\ pc'[d] = "visiting" /\ lineno'[d] <= Len(text'[d]) =>
                    EndsReading(text'[d][lineno'[d]])
    BY <1>1, <1>2, <1>4, <2>1, <2>2, <2>3, <2>4 DEF Phases, Read
  <2>5. ASSUME NEW d \in Compilations, d # c
        PROVE  /\ IsSeq(text'[d]) /\ IsSeq(calls'[d])
               /\ pc'[d] = "idle" => lineno'[d] = 1 /\ text'[d] = <<>>
               /\ pc'[d] \in {"idle", "filling"} => calls'[d] = <<>>
               /\ lineno'[d] <= Len(text'[d]) + 1
               /\ \A l \in Read(d)' : ~EndsReading(text'[d][l])
               /\ pc'[d] = "visiting" /\ lineno'[d] <= Len(text'[d]) =>
                    EndsReading(text'[d][lineno'[d]])
    BY <1>2, <1>3, <2>5 DEF Phases, Read
  <2> QED
    BY <2>4, <2>5 DEF Phases
<1>9. MapIsListed'
  BY <1>5 DEF MapIsListed
<1>10. ChoiceIsListed'
  <2>1. SUFFICES ASSUME NEW d \in Compilations, NEW i \in DOMAIN calls[d], Made(d, i)
                 PROVE  \E e \in Compilations : \E l \in DOMAIN text'[e] :
                          /\ FitsLine(text'[e][l], Asked(d, i))
                          /\ text'[e][l].symbol = calls[d][i].symbol
    BY <1>2 DEF ChoiceIsListed, Made, Asked
  <2>2. PICK e \in Compilations : \E l \in DOMAIN text[e] :
          FitsLine(text[e][l], Asked(d, i)) /\ text[e][l].symbol = calls[d][i].symbol
    BY <2>1 DEF ChoiceIsListed
  <2>3. e # c
    BY <1>1, <2>2
  <2> QED
    BY <1>3, <2>2, <2>3
<1>11. AloneIsAlone'
  <2>1. ASSUME NEW d \in Compilations, alone'[d], Active(d)'
        PROVE  d = c
    BY <1>3, <1>6, <2>1 DEF Active
  <2>2. ASSUME alone'[c]
        PROVE  Filled(c)' /\ \A d \in Compilations : d # c => ~Active(d)'
    <3>1. DOMAIN sizesToSymbol' = {} /\ Read(c)' = {}
      BY <1>1, <1>2, <1>6, <2>2 DEF Read
    <3> QED
      BY <1>3, <1>6, <2>2, <3>1 DEF Filled, Active
  <2> QED
    BY <2>1, <2>2 DEF AloneIsAlone
<1>12. AloneChoosesByFile'
  <2>1. ASSUME NEW d \in Compilations, alone'[d], d = c
        PROVE  DOMAIN calls'[d] = {}
    BY <1>1, <1>2, <2>1
  <2>2. ASSUME NEW d \in Compilations, alone'[d], d # c
        PROVE  alone[d] /\ text'[d] = text[d]
    BY <1>3, <1>6, <2>2
  <2> QED
    BY <1>2, <2>1, <2>2 DEF AloneChoosesByFile, ChosenByFile, Made, Asked
<1> QED
  BY <1>7, <1>8, <1>9, <1>10, <1>11, <1>12

\* What a line adds to the map: its symbol at its key, over an earlier symbol there.
LEMMA AfterLineFacts ==
  ASSUME NEW map, NEW line
  PROVE  /\ \A key : key \in DOMAIN AfterLine(map, line) <=>
                     key \in DOMAIN map \/ Stores(line, key)
         /\ \A key : Stores(line, key) => AfterLine(map, line)[key] = line.symbol
         /\ \A key \in DOMAIN map :
              ~Stores(line, key) => AfterLine(map, line)[key] = map[key]
PROOF
<1>1. CASE IsEntry(line)
  <2> DEFINE new == KeyOf(line.kernel, Ranges(line))
  <2>1. AfterLine(map, line) =
          [k \in DOMAIN map \cup {new} |-> IF k = new THEN line.symbol ELSE map[k]]
    BY <1>1 DEF AfterLine, Insert
  <2>2. \A key : Stores(line, key) <=> key = new
    BY <1>1 DEF Stores
  <2> HIDE DEF new
  <2> QED
    BY <2>1, <2>2
<1>2. CASE ~IsEntry(line)
  BY <1>2 DEF AfterLine, Stores
<1> QED
  BY <1>1, <1>2

\* Reading a line keeps the map what the lines read so far make it.
LEMMA ReadStep ==
  ASSUME SInv, NEW c \in Compilations, ReadLine(c)
  PROVE  SInv'
PROOF
<1> DEFINE n == lineno[c]
           line == text[c][n]
<1>1. /\ pc[c] = "filling" /\ n \in Nat \ {0} /\ n <= Len(text[c]) /\ ~EndsReading(line)
      /\ sizesToSymbol' = AfterLine(sizesToSymbol, line)
      /\ lineno' = [lineno EXCEPT ![c] = n + 1]
      /\ kernel_map_file' = kernel_map_file /\ pc' = pc /\ text' = text
      /\ module' = module /\ calls' = calls /\ alone' = alone
  BY DEF SInv, TypeOK, ReadLine, AtLine
<1>2. n \in DOMAIN text[c] /\ Len(text[c]) \in Nat
  <2>1. PICK S : text[c] \in Seq(S)
    BY DEF SInv, Phases, IsSeq
  <2> QED
    BY <1>1, <2>1, LenProperties
<1>3. /\ \A key : key \in DOMAIN sizesToSymbol' <=>
                  key \in DOMAIN sizesToSymbol \/ Stores(line, key)
      /\ \A key : Stores(line, key) => sizesToSymbol'[key] = line.symbol
      /\ \A key \in DOMAIN sizesToSymbol :
           ~Stores(line, key) => sizesToSymbol'[key] = sizesToSymbol[key]
  BY <1>1, AfterLineFacts
<1>4. /\ lineno' \in [Compilations -> Nat \ {0}] /\ lineno'[c] = n + 1
      /\ \A d \in Compilations : d # c => lineno'[d] = lineno[d]
  BY <1>1 DEF SInv, TypeOK
<1>5. Read(c)' = Read(c) \cup {n} /\ \A l \in Read(c) : l <= n
  BY <1>1, <1>4 DEF Read
<1>6. TypeOK'
  <2>1. \A key : Stores(line, key) =>
          key.kTy \in KernelType /\ Len(key.ranges) = kernelTypeToSizeRank[key.kTy]
    BY DEF Stores, IsEntry, IsKernelLine, KeyOf
  <2> HIDE DEF line
  <2> QED
    BY <1>1, <1>3, <1>4, <2>1 DEF SInv, TypeOK
<1>7. Phases'
  <2>1. ASSUME NEW d \in Compilations, d # c
        PROVE  lineno'[d] = lineno[d] /\ Read(d)' = Read(d)
    BY <1>4, <2>1 DEF Read
  <2>2. \A l \in Read(c)' : ~EndsReading(text[c][l])
    BY <1>1, <1>5 DEF SInv, Phases
  <2> HIDE DEF n, line
  <2> QED
    BY <1>1, <1>2, <1>4, <2>1, <2>2 DEF SInv, Phases, n
<1> HIDE DEF n
<1>8. MapIsListed'
  <2> SUFFICES ASSUME NEW key \in DOMAIN sizesToSymbol'
               PROVE  \E d \in Compilations : \E l \in DOMAIN text[d] :
                        /\ Stores(text[d][l], key)
                        /\ text[d][l].symbol = sizesToSymbol'[key]
    BY <1>1 DEF MapIsListed
  <2>1. CASE Stores(line, key)
    BY <1>2, <1>3, <2>1
  <2>2. CASE ~Stores(line, key)
    <3>1. key \in DOMAIN sizesToSymbol /\ sizesToSymbol'[key] = sizesToSymbol[key]
      BY <1>3, <2>2
    <3> QED
      BY <3>1 DEF SInv, MapIsListed
  <2> QED
    BY <2>1, <2>2
<1>9. AloneIsAlone'
  <2>1. ASSUME NEW d \in Compilations, alone[d], Active(d), d # c
        PROVE  FALSE
    BY <1>1, <2>1 DEF SInv, AloneIsAlone, Active
  <2>2. ASSUME alone[c]
        PROVE  Filled(c)'
    <3>1. Filled(c)
      BY <1>1, <2>2 DEF SInv, AloneIsAlone, Active
    <3>2. ASSUME NEW l \in Read(c)', NEW key, Stores(text[c][l], key)
          PROVE  key \in DOMAIN sizesToSymbol'
      <4>1. CASE l \in Read(c)
        BY <1>3, <3>1, <3>2, <4>1 DEF Filled
      <4>2. CASE l = n
        BY <1>3, <3>2, <4>2
      <4> QED
        BY <1>5, <4>1, <4>2
    <3>3. ASSUME NEW key \in DOMAIN sizesToSymbol'
          PROVE  \E l \in Read(c)' :
                   /\ Stores(text[c][l], key)
                   /\ \A o \in Read(c)' : Stores(text[c][o], key) => o <= l
                   /\ sizesToSymbol'[key] = text[c][l].symbol
      <4>1. CASE Stores(line, key)
        BY <1>1, <1>3, <1>5, <4>1 DEF n
      <4>2. CASE ~Stores(line, key)
        <5>1. key \in DOMAIN sizesToSymbol /\ sizesToSymbol'[key] = sizesToSymbol[key]
          BY <1>3, <4>2
        <5>2. PICK l \in Read(c) :
                LastStores(c, key, l) /\ sizesToSymbol[key] = text[c][l].symbol
          BY <3>1, <5>1 DEF Filled
        <5> QED
          BY <1>5, <4>2, <5>1, <5>2 DEF LastStores
      <4> QED
        BY <4>1, <4>2
    <3> QED
      BY <1>1, <3>2, <3>3 DEF Filled, LastStores
  <2>3. \A d \in Compilations : Active(d)' <=> Active(d)
    BY <1>1 DEF Active
  <2> QED
    BY <1>1, <2>1, <2>2, <2>3 DEF SInv, AloneIsAlone
<1>10. ChoiceIsListed' /\ AloneChoosesByFile'
  <2>1. text' = text /\ module' = module /\ calls' = calls /\ alone' = alone
    BY <1>1
  <2>2. \A d \in Compilations : \A i : ChosenByFile(d, i)' <=> ChosenByFile(d, i)
    BY <2>1, Zenon DEF ChosenByFile, Made, Asked
  <2>3. ChoiceIsListed'
    BY <2>1 DEF SInv, ChoiceIsListed, Made, Asked
  <2> QED
    BY <2>1, <2>2, <2>3 DEF SInv, AloneChoosesByFile
<1> QED
  BY <1>6, <1>7, <1>8, <1>9, <1>10 DEF SInv

\* In a map that is filled from a file, the lookup finds the key of the deciding line.
LEMMA LookupDecides ==
  ASSUME NEW c \in Compilations, NEW request, Filled(c), LinesRead(text[c]) = Read(c)
  PROVE  LET found == Lookup(sizesToSymbol, request.kTy, request.keys)
             deciding == Deciding(text[c], request)
         IN  /\ \A key \in found : \E l \in deciding : sizesToSymbol[key] = text[c][l].symbol
             /\ deciding # {} => found # {}
PROOF
<1> DEFINE kTy == request.kTy
           keys == request.keys
           KeyAt(l) == KeyOf(text[c][l].kernel, Ranges(text[c][l]))
           fit == {l \in Read(c) : FitsLine(text[c][l], request)}
           hits == Hits(sizesToSymbol, kTy, keys)
<1>1. \A l \in fit : /\ Stores(text[c][l], KeyAt(l)) /\ KeyAt(l).ranges = Ranges(text[c][l])
                     /\ KeyAt(l) = KeyOf(kTy, Ranges(text[c][l])) /\ KeyAt(l) \in hits
  BY DEF FitsLine, Stores, KeyOf, Hits, Filled
<1>2. ASSUME NEW key \in hits, NEW l \in Read(c), Stores(text[c][l], key)
      PROVE  l \in fit /\ key = KeyAt(l)
  BY <1>2 DEF FitsLine, Stores, KeyOf, Hits
<1>3. \A key \in hits : \E l \in fit :
        LastStores(c, key, l) /\ sizesToSymbol[key] = text[c][l].symbol
  <2> TAKE key \in hits
  <2>1. PICK l \in Read(c) :
          LastStores(c, key, l) /\ sizesToSymbol[key] = text[c][l].symbol
    BY DEF Filled, Hits
  <2>2. l \in fit
    BY <1>2, <2>1 DEF LastStores
  <2> QED
    BY <2>1, <2>2
<1>4. \A l : l \in Deciding(text[c], request) <=>
        /\ l \in fit
        /\ \A o \in fit : \/ Before(Ranges(text[c][l]), Ranges(text[c][o]))
                          \/ Ranges(text[c][l]) = Ranges(text[c][o]) /\ o <= l
  BY DEF Deciding
<1>5. \A key : key \in Lookup(sizesToSymbol, kTy, keys) <=>
        /\ key \in hits
        /\ \A other \in hits : other = key \/ Before(key.ranges, other.ranges)
  BY DEF Lookup
<1> HIDE DEF hits, fit, KeyAt
<1>6. ASSUME NEW key \in Lookup(sizesToSymbol, kTy, keys)
      PROVE  \E l \in Deciding(text[c], request) : sizesToSymbol[key] = text[c][l].symbol
  <2>1. key \in hits /\ \A other \in hits : other = key \/ Before(key.ranges, other.ranges)
    BY <1>5
  <2>2. PICK l \in fit : LastStores(c, key, l) /\ sizesToSymbol[key] = text[c][l].symbol
    BY <1>3, <2>1
  <2>3. l \in Read(c) /\ key = KeyAt(l) /\ key.ranges = Ranges(text[c][l])
    BY <1>1, <1>2, <2>1, <2>2 DEF LastStores, fit
  <2>4. ASSUME NEW o \in fit
        PROVE  \/ Before(Ranges(text[c][l]), Ranges(text[c][o]))
               \/ Ranges(text[c][l]) = Ranges(text[c][o]) /\ o <= l
    <3>1. KeyAt(o) \in hits /\ KeyAt(o).ranges = Ranges(text[c][o])
          /\ Stores(text[c][o], KeyAt(o)) /\ o \in Read(c)
      BY <1>1 DEF fit
    <3>2. CASE KeyAt(o) = key
      BY <2>2, <2>3, <3>1, <3>2 DEF LastStores
    <3>3. CASE KeyAt(o) # key
      BY <2>1, <2>3, <3>1, <3>3
    <3> QED
      BY <3>2, <3>3
  <2> QED
    BY <1>4, <2>2, <2>4
<1>7. ASSUME NEW l \in Deciding(text[c], request)
      PROVE  KeyAt(l) \in Lookup(sizesToSymbol, kTy, keys)
  <2>1. l \in fit /\ KeyAt(l) \in hits /\ KeyAt(l).ranges = Ranges(text[c][l])
        /\ KeyAt(l) = KeyOf(kTy, Ranges(text[c][l]))
    BY <1>1, <1>4
  <2>2. ASSUME NEW other \in hits
        PROVE  other = KeyAt(l) \/ Before(KeyAt(l).ranges, other.ranges)
    <3>1. PICK o \in fit : LastStores(c, other, o)
      BY <1>3
    <3>2. other = KeyAt(o) /\ other.ranges = Ranges(text[c][o])
          /\ other = KeyOf(kTy, Ranges(text[c][o]))
      BY <1>1, <1>2, <3>1 DEF LastStores, fit
    <3>3. \/ Before(Ranges(text[c][l]), Ranges(text[c][o]))
          \/ Ranges(text[c][l]) = Ranges(text[c][o])
      BY <1>4
    <3> QED
      BY <2>1, <3>2, <3>3
  <2> QED
    BY <1>5, <2>1, <2>2
<1> QED
  BY <1>6, <1>7

\* Visiting an instruction appends what was found for it, and nothing to the other runs.
LEMMA VisitStep ==
  ASSUME SInv, NEW c \in Compilations, Visit(c)
  PROVE  SInv'
PROOF
<1>n. PICK n : n = Visited(c)
  OBVIOUS
<1> DEFINE request == Request(module[c][n])
           found == Lookup(sizesToSymbol, request.kTy, request.keys)
           Replacement(key) == [symbol |-> sizesToSymbol[key], op_type |-> request.op_type,
                                operands |-> request.operands]
<1>1. /\ pc[c] = "visiting"
      /\ kernel_map_file' = kernel_map_file /\ sizesToSymbol' = sizesToSymbol /\ pc' = pc
      /\ text' = text /\ lineno' = lineno /\ module' = module /\ alone' = alone
  BY DEF Visit
<1>2. PICK e : /\ calls' = [calls EXCEPT ![c] = Append(@, e)]
               /\ (found = {} /\ e = NoCall) \/ \E key \in found : e = Replacement(key)
  BY <1>n, Zenon DEF Visit
<1>3. IsSeq(calls[c]) /\ DOMAIN calls = Compilations
  BY DEF SInv, Phases, TypeOK
<1>4. /\ n = Len(calls[c]) + 1 /\ n \notin DOMAIN calls[c]
      /\ DOMAIN calls' = Compilations /\ IsSeq(calls'[c])
      /\ DOMAIN calls'[c] = DOMAIN calls[c] \cup {n} /\ calls'[c][n] = e
      /\ \A i \in DOMAIN calls[c] : calls'[c][i] = calls[c][i]
      /\ \A d \in Compilations : d # c => calls'[d] = calls[d]
  <2>1. /\ IsSeq(Append(calls[c], e)) /\ Len(calls[c]) \in Nat
        /\ DOMAIN calls[c] = 1..Len(calls[c])
        /\ DOMAIN Append(calls[c], e) = 1..Len(calls[c]) + 1
        /\ Append(calls[c], e)[Len(calls[c]) + 1] = e
        /\ \A i \in 1..Len(calls[c]) : Append(calls[c], e)[i] = calls[c][i]
    BY <1>3, AppendFacts
  <2>2. calls'[c] = Append(calls[c], e) /\ DOMAIN calls' = Compilations
        /\ \A d \in Compilations : d # c => calls'[d] = calls[d]
    BY <1>2, <1>3
  <2> QED
    BY <1>n, <2>1, <2>2 DEF Visited
<1>5. \A key \in found : request.kTy \in KernelType /\ Replacement(key) # NoCall
  <2> SUFFICES ASSUME NEW key \in found
               PROVE  request.kTy \in KernelType /\ Replacement(key) # NoCall
    OBVIOUS
  <2>1. key \in DOMAIN sizesToSymbol /\ key.kTy = request.kTy
    BY DEF Lookup, Hits
  <2>2. request.kTy \in KernelType
    BY <2>1 DEF SInv, TypeOK
  <2>3. request.op_type # "none"
    BY <2>2, RequestFacts
  <2> QED
    BY <2>2, <2>3 DEF NoCall
<1>6. /\ (e # NoCall <=> found # {})
      /\ e # NoCall => \E key \in found : e.symbol = sizesToSymbol[key]
  BY <1>2, <1>5
<1> HIDE DEF found, request, Replacement
<1>7. /\ \A d \in Compilations : \A i : Asked(d, i)' = Asked(d, i)
      /\ Asked(c, n) = request
      /\ Made(c, n)' <=> e # NoCall
      /\ \A d \in Compilations : \A i \in DOMAIN calls[d] :
           (Made(d, i)' <=> Made(d, i)) /\ calls'[d][i] = calls[d][i]
      /\ \A d \in Compilations : \A i \in DOMAIN calls'[d] :
           i \in DOMAIN calls[d] \/ (d = c /\ i = n)
  <2>1. \A d \in Compilations : \A i : Asked(d, i)' = Asked(d, i)
    BY <1>1, Zenon DEF Asked
  <2>2. Asked(c, n) = request
    BY DEF Asked, request
  <2> QED
    BY <1>4, <2>1, <2>2 DEF Made
<1>8. TypeOK'
  BY <1>1, <1>4 DEF SInv, TypeOK
<1>9. Phases'
  BY <1>1, <1>4 DEF SInv, Phases, Read
<1>10. MapIsListed' /\ AloneIsAlone'
  BY <1>1 DEF SInv, MapIsListed, AloneIsAlone, Active, Filled, Read, LastStores
<1>11. ChoiceIsListed'
  <2>1. SUFFICES ASSUME NEW d \in Compilations, NEW i \in DOMAIN calls'[d], Made(d, i)'
                 PROVE  \E o \in Compilations : \E l \in DOMAIN text[o] :
                          /\ FitsLine(text[o][l], Asked(d, i))
                          /\ text[o][l].symbol = calls'[d][i].symbol
    BY <1>1, <1>7 DEF ChoiceIsListed
  <2>2. CASE i \in DOMAIN calls[d]
    BY <1>7, <2>1, <2>2 DEF SInv, ChoiceIsListed
  <2>3. CASE d = c /\ i = n
    <3>1. PICK key \in found : e.symbol = sizesToSymbol[key]
      BY <1>6, <1>7, <2>1, <2>3
    <3>2. /\ key \in DOMAIN sizesToSymbol /\ key.kTy = request.kTy
          /\ Fits(key.ranges, request.keys)
      BY <3>1 DEF found, Lookup, Hits
    <3>3. PICK o \in Compilations : \E l \in DOMAIN text[o] :
            Stores(text[o][l], key) /\ text[o][l].symbol = sizesToSymbol[key]
      BY <3>2 DEF SInv, MapIsListed
    <3>4. ASSUME NEW l \in DOMAIN text[o], Stores(text[o][l], key)
          PROVE  FitsLine(text[o][l], request)
      BY <3>2, <3>4 DEF Stores, FitsLine, KeyOf
    <3> QED
      BY <1>4, <1>7, <2>3, <3>1, <3>3, <3>4
  <2> QED
    BY <1>7, <2>2, <2>3
<1>12. AloneChoosesByFile'
  <2>1. SUFFICES ASSUME NEW d \in Compilations, alone[d], NEW i \in DOMAIN calls'[d]
                 PROVE  ChosenByFile(d, i)'
    BY <1>1 DEF AloneChoosesByFile
  <2> DEFINE deciding == Deciding(text[d], Asked(d, i))
  <2>2. ChosenByFile(d, i)' <=>
          /\ Made(d, i)' <=> deciding # {}
          /\ Made(d, i)' => \E l \in deciding : calls'[d][i].symbol = text[d][l].symbol
    <3>1. Asked(d, i)' = Asked(d, i) /\ text' = text
      BY <1>1, <1>7
    <3> QED
      BY <3>1, Zenon DEF ChosenByFile
  <2>3. CASE i \in DOMAIN calls[d]
    <3>1. ChosenByFile(d, i)
      BY <2>1, <2>3 DEF SInv, AloneChoosesByFile
    <3>2. (Made(d, i)' <=> Made(d, i)) /\ calls'[d][i] = calls[d][i]
      BY <1>7, <2>3
    <3>3. ChosenByFile(d, i) <=>
            /\ Made(d, i) <=> deciding # {}
            /\ Made(d, i) => \E l \in deciding : calls[d][i].symbol = text[d][l].symbol
      BY Zenon DEF ChosenByFile
    <3> HIDE DEF deciding
    <3> QED
      BY <2>2, <3>1, <3>2, <3>3
  <2>4. CASE d = c /\ i = n
    <3>1. Filled(c) /\ LinesRead(text[c]) = Read(c)
      <4>1. Filled(c)
        BY <1>1, <2>1, <2>4 DEF SInv, AloneIsAlone, Active
      <4>2. LinesRead(text[c]) = Read(c)
        <5>1. /\ lineno[c] \in Nat \ {0} /\ lineno[c] <= Len(text[c]) + 1
              /\ \A l \in Read(c) : ~EndsReading(text[c][l])
              /\ lineno[c] <= Len(text[c]) => EndsReading(text[c][lineno[c]])
          BY <1>1 DEF SInv, TypeOK, Phases
        <5>2. Len(text[c]) \in Nat /\ DOMAIN text[c] = 1..Len(text[c])
          <6>1. PICK S : text[c] \in Seq(S)
            BY DEF SInv, Phases, IsSeq
          <6> QED
            BY <6>1, LenProperties
        <5> QED
          BY <5>1, <5>2 DEF LinesRead, Read
      <4> QED
        BY <4>1, <4>2
    <3>2. /\ \A key \in found : \E l \in deciding : sizesToSymbol[key] = text[c][l].symbol
          /\ deciding # {} => found # {}
      <4>1. Asked(d, i) = request
        BY <1>7, <2>4
      <4>2. deciding = Deciding(text[c], request)
        BY <2>4, <4>1
      <4>3. /\ \A key \in Lookup(sizesToSymbol, request.kTy, request.keys) :
                 \E l \in Deciding(text[c], request) : sizesToSymbol[key] = text[c][l].symbol
            /\ Deciding(text[c], request) # {} =>
                 Lookup(sizesToSymbol, request.kTy, request.keys) # {}
        <5> HIDE DEF request
        <5> QED
          BY <3>1, LookupDecides
      <4> HIDE DEF deciding
      <4> QED
        BY <2>4, <4>2, <4>3 DEF found
    <3>3. calls'[d][i] = e
      BY <1>4, <2>4
    <3>4. Made(d, i)' <=> found # {}
      BY <1>6, <3>3 DEF Made
    <3> HIDE DEF deciding
    <3> QED
      BY <1>6, <2>2, <2>4, <3>2, <3>3, <3>4
  <2> QED
    BY <1>7, <2>3, <2>4
<1> QED
  BY <1>8, <1>9, <1>10, <1>11, <1>12 DEF SInv

\* Every run is idle and nothing is in the map.
LEMMA InitStep == Init => SInv
PROOF
<1> SUFFICES ASSUME Init PROVE SInv
  OBVIOUS
<1>1. IsSeq(<<>>) /\ Len(<<>>) = 0 /\ DOMAIN <<>> = {}
  <2>1. <<>> \in Seq({})
    OBVIOUS
  <2> QED
    BY <2>1, EmptyMap DEF IsSeq
<1>2. TypeOK
  BY <1>1 DEF Init, TypeOK
<1>3. Phases /\ MapIsListed /\ AloneIsAlone /\ ChoiceIsListed /\ AloneChoosesByFile
  BY <1>1 DEF Init, Phases, Read, MapIsListed, AloneIsAlone, ChoiceIsListed, AloneChoosesByFile
<1> QED
  BY <1>2, <1>3 DEF SInv

\* Every step of every run keeps the invariant, and so does the end of the process.
LEMMA NextStep ==
  ASSUME SInv, [Next]_vars
  PROVE  SInv'
PROOF
<1> DEFINE Ends(c) == \/ pc'[c] = pc[c]
                      \/ pc'[c] \in {"done", "failed", "aborted"}
                      \/ /\ pc[c] = "filling" /\ pc'[c] = "visiting"
                         /\ lineno[c] <= Len(text[c]) => EndsReading(text[c][lineno[c]])
           Others == UNCHANGED <<kernel_map_file, sizesToSymbol, text, lineno, module, calls, alone>>
           States == {"idle", "filling", "visiting", "done", "failed", "aborted"}
<1>1. ASSUME Others, pc' \in [Compilations -> States], \A c \in Compilations : Ends(c)
      PROVE  SInv'
  BY <1>1, QuietStep
<1>2. CASE UNCHANGED vars
  BY <1>1, <1>2 DEF vars, SInv, TypeOK
<1>3. CASE RaceAborts
  BY <1>1, <1>3 DEF RaceAborts
<1>4. CASE Quiet
  BY <1>2, <1>4 DEF Quiet
<1>5. ASSUME NEW c \in Compilations, RunStep(c)
      PROVE  SInv'
  <2>1. CASE RunUnset(c)
    BY <1>1, <2>1 DEF RunUnset, SInv, TypeOK
  <2>2. CASE RunOpens(c) \/ RunKeeps(c)
    BY <2>2, StartStep
  <2>3. CASE ReadLine(c)
    BY <2>3, ReadStep
  <2>4. CASE EndReading(c)
    BY <1>1, <2>4 DEF EndReading, AtLine, SInv, TypeOK
  <2>5. CASE Visit(c)
    BY <2>5, VisitStep
  <2>6. CASE EndRun(c)
    BY <1>1, <2>6 DEF EndRun, SInv, TypeOK
  <2> QED
    BY <1>5, <2>1, <2>2, <2>3, <2>4, <2>5, <2>6 DEF RunStep
<1> QED
  BY <1>2, <1>3, <1>4, <1>5 DEF Next

\* The map of a run that is alone is its file's, and calls come from the map.
THEOREM SelectorInvariant == Spec => []SInv
PROOF
<1> QED
  BY InitStep, NextStep, PTL DEF Spec

\* The map holds, for every kernel type, only as many ranges as the type has sizes, whichever
\* runs filled it.
THEOREM SelectorTypeCorrect == Spec => []TypeOK
PROOF
<1>1. SInv => TypeOK
  BY DEF SInv
<1> QED
  BY <1>1, SelectorInvariant, PTL

\* However many runs overlap, and for every map file and module, a symbol is called only where
\* a line that some run has read lists it: what races do to the map never invents a choice.
THEOREM SelectorChoiceListed == Spec => []ChoiceIsListed
PROOF
<1>1. SInv => ChoiceIsListed
  BY DEF SInv
<1> QED
  BY <1>1, SelectorInvariant, PTL

\* A run that does not overlap with another calls what the file says: the first line in the
\* order of the ranges, the last of those with the same ranges, and nothing left by others.
THEOREM SelectorChoosesByFile == Spec => []AloneChoosesByFile
PROOF
<1>1. SInv => AloneChoosesByFile
  BY DEF SInv
<1> QED
  BY <1>1, SelectorInvariant, PTL

------------------------------------------------------------------------------
(* What a dot sums. *)

\* The offsets the recursion of Offset makes, given the numbers it goes through.
LEMMA OffsetIs ==
  ASSUME NEW dims, Len(dims) \in Nat, NEW at, NEW f,
         f = [k \in 0..Len(dims) |-> IF k = 0 THEN 0 ELSE f[k - 1] * dims[k] + at[k]]
  PROVE  \E g : /\ g = [k \in 0..Len(dims) |-> IF k = 0 THEN 0 ELSE g[k - 1] * dims[k] + at[k]]
                /\ Offset(dims, at) = g[Len(dims)]
PROOF
<1> DEFINE Is(g) == g = [k \in 0..Len(dims) |-> IF k = 0 THEN 0 ELSE g[k - 1] * dims[k] + at[k]]
<1>1. Is(CHOOSE g : Is(g))
  BY Zenon
<1>2. Offset(dims, at) = (CHOOSE g : Is(g))[Len(dims)]
  BY DEF Offset
<1> QED
  BY <1>1, <1>2

\* Row-major offsets in arrays of one to four dimensions.
LEMMA Offsets ==
  ASSUME NEW dims, NEW at, NEW n \in 1..4, Len(dims) = n,
         \A i \in 1..n : dims[i] \in Nat /\ at[i] \in Nat
  PROVE  /\ n = 1 => Offset(dims, at) = at[1]
         /\ n = 2 => Offset(dims, at) = at[1] * dims[2] + at[2]
         /\ n = 3 => Offset(dims, at) = (at[1] * dims[2] + at[2]) * dims[3] + at[3]
         /\ n = 4 => Offset(dims, at) =
                       ((at[1] * dims[2] + at[2]) * dims[3] + at[3]) * dims[4] + at[4]
PROOF
<1> DEFINE e1 == at[1]
           e2 == e1 * dims[2] + at[2]
           e3 == e2 * dims[3] + at[3]
           e4 == e3 * dims[4] + at[4]
           e(k) == IF k = 0 THEN 0 ELSE IF k = 1 THEN e1 ELSE IF k = 2 THEN e2
                   ELSE IF k = 3 THEN e3 ELSE e4
           f == [k \in 0..n |-> e(k)]
<1>1. dims[1] \in Nat /\ at[1] \in Nat
  OBVIOUS
<1>2. 0 * dims[1] + at[1] = e1
  BY <1>1
<1>3. f = [k \in 0..n |-> IF k = 0 THEN 0 ELSE f[k - 1] * dims[k] + at[k]]
  <2>1. \A k \in 0..n : k # 0 => k - 1 \in 0..n /\ f[k - 1] = e(k - 1)
    OBVIOUS
  <2>2. \A k \in 0..n : e(k) = IF k = 0 THEN 0 ELSE e(k - 1) * dims[k] + at[k]
    <3>1. 0..n \subseteq {0, 1, 2, 3, 4}
      OBVIOUS
    <3> HIDE DEF e1, e2, e3, e4
    <3>2. e2 = e1 * dims[2] + at[2] /\ e3 = e2 * dims[3] + at[3] /\ e4 = e3 * dims[4] + at[4]
      BY DEF e2, e3, e4
    <3> SUFFICES ASSUME NEW k \in 0..n
                 PROVE  e(k) = IF k = 0 THEN 0 ELSE e(k - 1) * dims[k] + at[k]
      OBVIOUS
    <3>3. CASE k = 0
      BY <3>3
    <3>4. CASE k = 1
      <4>1. e(1) = e1 /\ e(1 - 1) = 0
        OBVIOUS
      <4> QED
        BY <1>2, <3>4, <4>1
    <3>5. CASE k = 2
      <4>1. e(2) = e2 /\ e(2 - 1) = e1
        OBVIOUS
      <4> QED
        BY <3>2, <3>5, <4>1
    <3>6. CASE k = 3
      <4>1. e(3) = e3 /\ e(3 - 1) = e2
        OBVIOUS
      <4> QED
        BY <3>2, <3>6, <4>1
    <3>7. CASE k = 4
      <4>1. e(4) = e4 /\ e(4 - 1) = e3
        OBVIOUS
      <4> QED
        BY <3>2, <3>7, <4>1
    <3> QED
      BY <3>1, <3>3, <3>4, <3>5, <3>6, <3>7
  <2>3. \A k \in 0..n : e(k) = IF k = 0 THEN 0 ELSE f[k - 1] * dims[k] + at[k]
    <3> HIDE DEF f, e
    <3> QED
      BY <2>1, <2>2
  <2> HIDE DEF e
  <2> QED
    BY <2>3
<1>4. PICK g : /\ g = [k \in 0..n |-> IF k = 0 THEN 0 ELSE g[k - 1] * dims[k] + at[k]]
               /\ Offset(dims, at) = g[n]
  <2> HIDE DEF f
  <2> QED
    BY <1>3, OffsetIs
<1>5. g[0] = 0 /\ \A k \in 1..n : g[k] = g[k - 1] * dims[k] + at[k]
  <2>1. \A k \in 0..n : g[k] = IF k = 0 THEN 0 ELSE g[k - 1] * dims[k] + at[k]
    BY <1>4
  <2>2. 0 \in 0..n /\ \A k \in 1..n : k \in 0..n /\ k # 0
    OBVIOUS
  <2> QED
    BY <2>1, <2>2
<1>6. g[1] = at[1]
  BY <1>1, <1>2, <1>5
<1> HIDE DEF e1, e2, e3, e4, f, e
<1> QED
  BY <1>4, <1>5, <1>6

\* The number of a batch, counted through its dimensions, and how many there are.
BatchCount(dot) ==
  IF dot.batch = 0 THEN 1 ELSE IF dot.batch = 1 THEN dot.lhs[1] ELSE dot.lhs[1] * dot.lhs[2]
BatchNumber(dot, bs) ==
  IF dot.batch = 0 THEN 0 ELSE IF dot.batch = 1 THEN bs[1] ELSE bs[1] * dot.lhs[2] + bs[2]
Batches(dot) == Tuples(SubSeq(dot.lhs, 1, dot.batch))

\* The sizes of a dot are natural numbers.
LEMMA DotSizes ==
  ASSUME NEW dot, IsDot(dot)
  PROVE  /\ dot.batch \in {0, 1, 2}
         /\ \A i \in 1..dot.batch + 2 : dot.lhs[i] \in Nat
         /\ \A i \in 1..Len(dot.rhs) : dot.rhs[i] \in Nat
         /\ Len(dot.rhs) \in Nat
         /\ BatchCount(dot) \in Nat
PROOF
<1>1. dot.batch \in {0, 1, 2}
  BY DEF IsDot
<1>2. \A i \in 1..dot.batch + 2 : dot.lhs[i] \in Nat
  BY ElementOfSeq DEF IsDot
<1>3. (\A i \in 1..Len(dot.rhs) : dot.rhs[i] \in Nat) /\ Len(dot.rhs) \in Nat
  BY ElementOfSeq, LenProperties DEF IsDot
<1>4. dot.lhs[1] \in Nat /\ dot.lhs[2] \in Nat
  <2>1. 1 \in 1..dot.batch + 2 /\ 2 \in 1..dot.batch + 2
    BY <1>1
  <2> QED
    BY <1>2, <2>1
<1> QED
  BY <1>1, <1>2, <1>3, <1>4 DEF BatchCount

\* What the batches of a dot are.
LEMMA BatchTuples ==
  ASSUME NEW dot, IsDot(dot)
  PROVE  Batches(dot) =
           IF dot.batch = 0 THEN {<<>>}
           ELSE IF dot.batch = 1 THEN {<<i>> : i \in 0..dot.lhs[1] - 1}
           ELSE {<<i, j>> : i \in 0..dot.lhs[1] - 1, j \in 0..dot.lhs[2] - 1}
PROOF
<1> DEFINE dims == SubSeq(dot.lhs, 1, dot.batch)
<1>1. dot.batch \in {0, 1, 2} /\ \A i \in 1..dot.batch : dot.lhs[i] \in Nat
  BY DotSizes
<1>2. /\ Len(dims) = dot.batch
      /\ \A i \in 1..dot.batch : dims[i] = dot.lhs[i]
  <2>1. 1 \in Int /\ dot.batch \in Int
    BY <1>1
  <2>2. /\ Len(dims) = IF 1 <= dot.batch THEN dot.batch - 1 + 1 ELSE 0
        /\ \A i \in 1..dot.batch - 1 + 1 : dims[i] = dot.lhs[1 + i - 1]
    BY <1>1, <2>1, SubSeqProperties
  <2>3. \A i \in 1..dot.batch : 1 + i - 1 = i
    BY <1>1
  <2> HIDE DEF dims
  <2> QED
    BY <1>1, <2>2, <2>3
<1>3. Batches(dot) = Tuples(dims)
  BY DEF Batches
<1> HIDE DEF dims
<1> DEFINE pairs == {<<i, j>> : i \in 0..dims[1] - 1, j \in 0..dims[2] - 1}
           singles == {<<i>> : i \in 0..dims[1] - 1}
           len == Len(dims)
<1>4. Tuples(dims) = CASE len = 0 -> {<<>>} [] len = 1 -> singles [] len = 2 -> pairs
  BY DEF Tuples
<1> HIDE DEF pairs, singles, len
<1>5. /\ len = 0 /\ len # 1 /\ len # 2 => Tuples(dims) = {<<>>}
      /\ len = 1 /\ len # 0 /\ len # 2 => Tuples(dims) = singles
      /\ len = 2 /\ len # 0 /\ len # 1 => Tuples(dims) = pairs
  BY <1>4, Zenon
<1>6. CASE dot.batch = 0
  BY <1>2, <1>3, <1>5, <1>6 DEF len
<1>7. CASE dot.batch = 1
  <2>1. Len(dims) = 1 /\ Len(dims) # 0 /\ Len(dims) # 2 /\ dims[1] = dot.lhs[1]
    BY <1>2, <1>7
  <2>2. Tuples(dims) = {<<i>> : i \in 0..dims[1] - 1}
    BY <1>5, <2>1 DEF len, singles
  <2> QED
    BY <1>3, <1>7, <2>1, <2>2
<1>8. CASE dot.batch = 2
  <2>1. Len(dims) = 2 /\ Len(dims) # 0 /\ Len(dims) # 1
        /\ dims[1] = dot.lhs[1] /\ dims[2] = dot.lhs[2]
    BY <1>2, <1>8
  <2>2. Tuples(dims) = {<<i, j>> : i \in 0..dims[1] - 1, j \in 0..dims[2] - 1}
    BY <1>5, <2>1 DEF len, pairs
  <2> QED
    BY <1>3, <1>8, <2>1, <2>2
<1> QED
  BY <1>1, <1>6, <1>7, <1>8

\* Every batch has a number, and every number is that of a batch.
LEMMA BatchNumbers ==
  ASSUME NEW dot, IsDot(dot)
  PROVE  /\ \A bs \in Batches(dot) :
              /\ bs \in Seq(Nat) /\ Len(bs) = dot.batch
              /\ BatchNumber(dot, bs) \in 0..BatchCount(dot) - 1
         /\ \A b \in 0..BatchCount(dot) - 1 :
              \E bs \in Batches(dot) : BatchNumber(dot, bs) = b
PROOF
<1>1. dot.batch \in {0, 1, 2} /\ dot.lhs[1] \in Nat /\ dot.lhs[2] \in Nat
  <2>1. dot.batch \in {0, 1, 2} /\ \A i \in 1..dot.batch + 2 : dot.lhs[i] \in Nat
    BY DotSizes
  <2>2. 1 \in 1..dot.batch + 2 /\ 2 \in 1..dot.batch + 2
    BY <2>1
  <2> QED
    BY <2>1, <2>2
<1>2. CASE dot.batch = 0
  <2>1. Batches(dot) = {<<>>}
    BY <1>2, BatchTuples
  <2>2. <<>> \in Seq(Nat) /\ Len(<<>>) = 0
    BY EmptySeq
  <2> QED
    BY <1>2, <2>1, <2>2 DEF BatchNumber, BatchCount
<1>3. CASE dot.batch = 1
  <2>1. Batches(dot) = {<<i>> : i \in 0..dot.lhs[1] - 1}
    BY <1>3, BatchTuples
  <2>2. ASSUME NEW i \in 0..dot.lhs[1] - 1
        PROVE  <<i>> \in Seq(Nat) /\ Len(<<i>>) = 1 /\ BatchNumber(dot, <<i>>) = i
    BY <1>1, <1>3 DEF BatchNumber
  <2>3. BatchCount(dot) = dot.lhs[1]
    BY <1>3 DEF BatchCount
  <2> QED
    BY <1>3, <2>1, <2>2, <2>3
<1>4. CASE dot.batch = 2
  <2> DEFINE p == dot.lhs[1]
             q == dot.lhs[2]
  <2>1. Batches(dot) = {<<i, j>> : i \in 0..p - 1, j \in 0..q - 1}
    BY <1>4, BatchTuples
  <2>2. ASSUME NEW i \in 0..p - 1, NEW j \in 0..q - 1
        PROVE  /\ <<i, j>> \in Seq(Nat) /\ Len(<<i, j>>) = 2
               /\ BatchNumber(dot, <<i, j>>) = i * q + j
    BY <1>1, <1>4 DEF BatchNumber
  <2>3. BatchCount(dot) = p * q
    BY <1>4 DEF BatchCount
  <2>4. p \in Nat /\ q \in Nat
    BY <1>1
  <2> HIDE DEF p, q
  <2>5. ASSUME NEW i \in 0..p - 1, NEW j \in 0..q - 1
        PROVE  i * q + j \in 0..p * q - 1
    <3>1. i * q \in Nat /\ (i + 1) * q <= p * q /\ (i + 1) * q = i * q + q
      <4>1. i \in Nat /\ i + 1 <= p /\ i + 1 \in Nat
        BY <2>4
      <4> QED
        BY <2>4, <4>1
    <3>2. p * q \in Nat /\ j \in Nat /\ j < q
      BY <2>4
    <3> QED
      BY <2>4, <3>1, <3>2
  <2>6. ASSUME NEW b \in 0..p * q - 1
        PROVE  \E i \in 0..p - 1, j \in 0..q - 1 : i * q + j = b
    <3>1. p * q \in Nat /\ b \in Nat /\ b < p * q
      BY <2>4
    <3>2. q # 0
      BY <2>4, <3>1
    <3>3. /\ b = q * (b \div q) + (b % q) /\ b \div q \in Nat /\ b % q \in 0..q - 1
      BY <2>4, <3>1, <3>2
    <3>4. b \div q < p
      <4>1. SUFFICES ASSUME p <= b \div q PROVE FALSE
        BY <2>4, <3>3
      <4>2. p * q <= (b \div q) * q
        BY <2>4, <3>3, <4>1
      <4> QED
        BY <2>4, <3>1, <3>3, <4>2
    <3>5. (b \div q) * q + (b % q) = b
      BY <2>4, <3>3
    <3>6. b \div q \in 0..p - 1
      BY <2>4, <3>3, <3>4
    <3> QED
      BY <3>3, <3>5, <3>6
  <2>7. ASSUME NEW bs \in Batches(dot)
        PROVE  /\ bs \in Seq(Nat) /\ Len(bs) = 2
               /\ BatchNumber(dot, bs) \in 0..p * q - 1
    <3>1. PICK i \in 0..p - 1, j \in 0..q - 1 : bs = <<i, j>>
      BY <2>1
    <3> QED
      BY <2>2, <2>5, <3>1
  <2>8. ASSUME NEW b \in 0..p * q - 1
        PROVE  \E bs \in Batches(dot) : BatchNumber(dot, bs) = b
    <3>1. PICK i \in 0..p - 1, j \in 0..q - 1 : i * q + j = b
      BY <2>6
    <3>2. <<i, j>> \in Batches(dot) /\ BatchNumber(dot, <<i, j>>) = b
      BY <2>1, <2>2, <3>1
    <3> QED
      BY <3>2
  <2> QED
    BY <1>4, <2>3, <2>7, <2>8
<1> QED
  BY <1>1, <1>2, <1>3, <1>4

\* Sizes of batches of matrices, as many as the dot has.
BatchesOfMatrices(dot, dims) ==
  /\ Len(dims) = dot.batch + 2
  /\ \A i \in 1..dot.batch + 2 : dims[i] \in Nat
  /\ \A i \in 1..dot.batch : dims[i] = dot.lhs[i]

\* The offset of an element of a matrix in an array of matrices.
LEMMA MatrixOffset ==
  ASSUME NEW dot, IsDot(dot), NEW bs \in Batches(dot), NEW dims, BatchesOfMatrices(dot, dims),
         NEW x \in Nat, NEW y \in Nat, NEW at,
         \A i \in 1..dot.batch : at[i] = bs[i],
         at[dot.batch + 1] = x, at[dot.batch + 2] = y
  PROVE  Offset(dims, at) =
           (BatchNumber(dot, bs) * dims[dot.batch + 1] + x) * dims[dot.batch + 2] + y
PROOF
<1> USE DEF BatchesOfMatrices
<1>1. dot.batch \in {0, 1, 2} /\ bs \in Seq(Nat) /\ Len(bs) = dot.batch
  BY BatchNumbers, DotSizes
<1>2. \A i \in 1..dot.batch : bs[i] \in Nat
  BY <1>1, ElementOfSeq
<1>3. \A i \in 1..dot.batch + 2 : dims[i] \in Nat /\ at[i] \in Nat
  <2>1. \A i \in 1..dot.batch + 2 :
          i \in 1..dot.batch \/ i = dot.batch + 1 \/ i = dot.batch + 2
    BY <1>1
  <2> QED
    BY <1>2, <2>1
<1>4. CASE dot.batch = 0
  <2>1. Offset(dims, at) = x * dims[2] + y
    BY <1>3, <1>4, Offsets
  <2>2. 0 * dims[1] + x = x
    BY <1>3, <1>4
  <2> QED
    BY <1>4, <2>1, <2>2 DEF BatchNumber
<1>5. CASE dot.batch = 1
  <2>1. Offset(dims, at) = (at[1] * dims[2] + at[2]) * dims[3] + at[3]
    BY <1>3, <1>5, Offsets
  <2>2. at[1] = bs[1] /\ at[2] = x /\ at[3] = y
    BY <1>5
  <2> QED
    BY <1>5, <2>1, <2>2 DEF BatchNumber
<1>6. CASE dot.batch = 2
  <2>1. Offset(dims, at) = ((at[1] * dims[2] + at[2]) * dims[3] + at[3]) * dims[4] + at[4]
    BY <1>3, <1>6, Offsets
  <2>2. at[1] = bs[1] /\ at[2] = bs[2] /\ at[3] = x /\ at[4] = y /\ dims[2] = dot.lhs[2]
    BY <1>6
  <2> QED
    BY <1>6, <2>1, <2>2 DEF BatchNumber
<1> QED
  BY <1>1, <1>4, <1>5, <1>6

\* An index of a batch, or sizes of batches, and those of a matrix behind it.
LEMMA BatchAndMatrix ==
  ASSUME NEW b \in Seq(Nat), NEW two \in Seq(Nat), Len(two) = 2
  PROVE  /\ b \o two \in Seq(Nat) /\ Len(b \o two) = Len(b) + 2
         /\ \A i \in 1..Len(b) : (b \o two)[i] = b[i]
         /\ (b \o two)[Len(b) + 1] = two[1] /\ (b \o two)[Len(b) + 2] = two[2]
PROOF
<1> DEFINE s == b \o two
<1>1. /\ s \in Seq(Nat) /\ Len(s) = Len(b) + Len(two)
      /\ \A i \in 1..Len(b) + Len(two) : s[i] = IF i <= Len(b) THEN b[i] ELSE two[i - Len(b)]
  BY ConcatProperties, Zenon
<1>2. Len(b) \in Nat
  BY LenProperties
<1> HIDE DEF s
<1>3. ASSUME NEW n \in Nat, n = Len(b)
      PROVE  /\ s \in Seq(Nat) /\ Len(s) = n + 2
             /\ \A i \in 1..n : s[i] = b[i]
             /\ s[n + 1] = two[1] /\ s[n + 2] = two[2]
  <2>1. /\ Len(s) = n + 2
        /\ \A i \in 1..n + 2 : s[i] = IF i <= n THEN b[i] ELSE two[i - n]
    BY <1>1, <1>3
  <2>2. \A i \in 1..n + 2 : ~(i <= n) => s[i] = two[i - n]
    BY <2>1
  <2>3. s[n + 1] = two[1]
    <3>1. n + 1 \in 1..n + 2 /\ ~(n + 1 <= n) /\ (n + 1) - n = 1
      OBVIOUS
    <3> QED
      BY <2>2, <3>1
  <2>4. s[n + 2] = two[2]
    <3>1. n + 2 \in 1..n + 2 /\ ~(n + 2 <= n) /\ (n + 2) - n = 2
      OBVIOUS
    <3> QED
      BY <2>2, <3>1
  <2> QED
    BY <1>1, <2>1, <2>3, <2>4
<1> QED
  BY <1>2, <1>3 DEF s

\* A pair of numbers, as one sequence or as two.
LEMMA TwoNumbers ==
  ASSUME NEW x \in Nat, NEW y \in Nat
  PROVE  /\ <<x, y>> \in Seq(Nat) /\ Len(<<x, y>>) = 2
         /\ <<x, y>>[1] = x /\ <<x, y>>[2] = y
         /\ <<x>> \in Seq(Nat) /\ <<y>> \in Seq(Nat) /\ <<x>> \o <<y>> = <<x, y>>
PROOF
<1>1. /\ <<x, y>> \in Seq(Nat) /\ Len(<<x, y>>) = 2
      /\ <<x, y>>[1] = x /\ <<x, y>>[2] = y
  OBVIOUS
<1>2. /\ <<x>> \in Seq(Nat) /\ Len(<<x>>) = 1 /\ <<x>>[1] = x
      /\ <<y>> \in Seq(Nat) /\ Len(<<y>>) = 1 /\ <<y>>[1] = y
  OBVIOUS
<1>3. <<x>> \o <<y>> = <<x, y>>
  <2> DEFINE a == <<x>>
             b == <<y>>
             s == a \o b
             t == <<x, y>>
  <2>1. /\ s \in Seq(Nat) /\ Len(s) = Len(a) + Len(b)
        /\ \A i \in 1..Len(a) + Len(b) : s[i] = IF i <= Len(a) THEN a[i] ELSE b[i - Len(a)]
    BY <1>2, ConcatProperties, Zenon
  <2>2. Len(a) = 1 /\ Len(b) = 1 /\ a[1] = x /\ b[1] = y
    BY <1>2
  <2>3. t \in Seq(Nat) /\ Len(t) = 2 /\ t[1] = x /\ t[2] = y
    BY <1>1
  <2> HIDE DEF a, b, s, t
  <2>4. Len(s) = 2 /\ s[1] = x /\ s[2] = y
    BY <2>1, <2>2
  <2>5. \A i \in 1..Len(s) : s[i] = t[i]
    BY <2>3, <2>4
  <2>6. s = t
    BY <2>1, <2>3, <2>4, <2>5, SeqEqual, Zenon
  <2> QED
    BY <2>6 DEF a, b, s, t
<1> QED
  BY <1>1, <1>2, <1>3

\* Appending two numbers, one after the other or at once.
LEMMA TwoAppended ==
  ASSUME NEW b \in Seq(Nat), NEW x \in Nat, NEW y \in Nat
  PROVE  (b \o <<x>>) \o <<y>> = b \o <<x, y>>
PROOF
<1>1. /\ <<x>> \in Seq(Nat) /\ <<y>> \in Seq(Nat)
      /\ <<x>> \o <<y>> = <<x, y>>
  BY TwoNumbers
<1>2. \A p, q \in Seq(Nat) : (b \o p) \o q = b \o (p \o q)
  BY ConcatAssociative
<1>3. (b \o <<x>>) \o <<y>> = b \o (<<x>> \o <<y>>)
  BY <1>1, <1>2, Zenon
<1> QED
  BY <1>1, <1>3

\* The sizes of the batches.
LEMMA FirstOnes ==
  ASSUME NEW dims, NEW n \in Nat, \A i \in 1..n : dims[i] \in Nat
  PROVE  /\ SubSeq(dims, 1, n) \in Seq(Nat) /\ Len(SubSeq(dims, 1, n)) = n
         /\ \A i \in 1..n : SubSeq(dims, 1, n)[i] = dims[i]
PROOF
<1> DEFINE first == SubSeq(dims, 1, n)
<1>1. /\ first \in Seq(Nat) /\ Len(first) = IF 1 <= n THEN n - 1 + 1 ELSE 0
      /\ \A i \in 1..n - 1 + 1 : first[i] = dims[1 + i - 1]
  BY SubSeqProperties
<1>2. n - 1 + 1 = n /\ (~(1 <= n) => n = 0) /\ \A i \in 1..n : 1 + i - 1 = i
  OBVIOUS
<1> HIDE DEF first
<1>3. first \in Seq(Nat) /\ Len(first) = n /\ \A i \in 1..n : first[i] = dims[i]
  BY <1>1, <1>2
<1> QED
  BY <1>3 DEF first

\* The index of an element of a matrix: that of its batch, then its row and its column.
LEMMA OperandIndex ==
  ASSUME NEW dot, IsDot(dot), NEW bs \in Batches(dot), NEW dims,
         Len(dims) = dot.batch + 2, NEW c \in dot.batch..dot.batch + 1,
         NEW free \in Nat, NEW k \in Nat
  PROVE  LET at == OperandAt(dot, dims, c, bs, free, k)
         IN  /\ \A i \in 1..dot.batch : at[i] = bs[i]
             /\ at[dot.batch + 1] = (IF c = dot.batch THEN k ELSE free)
             /\ at[dot.batch + 2] = (IF c = dot.batch THEN free ELSE k)
PROOF
<1> DEFINE two == [i \in 1..Len(dims) - dot.batch |-> IF dot.batch + i - 1 = c THEN k ELSE free]
<1>1. dot.batch \in {0, 1, 2} /\ bs \in Seq(Nat) /\ Len(bs) = dot.batch
  BY DotSizes, BatchNumbers
<1>2. two \in Seq(Nat) /\ Len(two) = 2
  <2>1. Len(dims) - dot.batch = 2
    BY <1>1
  <2>2. two = [i \in 1..2 |-> IF dot.batch + i - 1 = c THEN k ELSE free]
    BY <2>1
  <2>3. two = <<two[1], two[2]>> /\ two[1] \in Nat /\ two[2] \in Nat
    BY <2>2
  <2> HIDE DEF two
  <2> QED
    BY <2>3, TwoNumbers
<1>3. /\ two[1] = (IF c = dot.batch THEN k ELSE free)
      /\ two[2] = (IF c = dot.batch THEN free ELSE k)
  <2>1. Len(dims) - dot.batch = 2 /\ 1 \in 1..2 /\ 2 \in 1..2
    BY <1>1
  <2>2. /\ two[1] = (IF dot.batch + 1 - 1 = c THEN k ELSE free)
        /\ two[2] = (IF dot.batch + 2 - 1 = c THEN k ELSE free)
    BY <2>1
  <2>3. dot.batch + 1 - 1 = dot.batch /\ dot.batch + 2 - 1 = dot.batch + 1
    BY <1>1
  <2>4. c \in {dot.batch, dot.batch + 1} /\ dot.batch # dot.batch + 1
    BY <1>1
  <2> HIDE DEF two
  <2> QED
    BY <2>2, <2>3, <2>4
<1>4. OperandAt(dot, dims, c, bs, free, k) = bs \o two
  BY DEF OperandAt
<1> HIDE DEF two
<1> QED
  <2>1. /\ \A i \in 1..Len(bs) : (bs \o two)[i] = bs[i]
        /\ (bs \o two)[Len(bs) + 1] = two[1] /\ (bs \o two)[Len(bs) + 2] = two[2]
    BY <1>1, <1>2, BatchAndMatrix, Zenon
  <2> DEFINE at == bs \o two
  <2> HIDE DEF at
  <2>2. /\ \A i \in 1..dot.batch : at[i] = bs[i]
        /\ at[dot.batch + 1] = two[1] /\ at[dot.batch + 2] = two[2]
    BY <1>1, <2>1 DEF at
  <2> QED
    BY <1>3, <1>4, <2>2 DEF at

\* The offset of an element of an operand.
LEMMA OperandOffset ==
  ASSUME NEW dot, IsDot(dot), NEW bs \in Batches(dot), NEW dims,
         BatchesOfMatrices(dot, dims),
         NEW c \in dot.batch..dot.batch + 1, NEW free \in Nat, NEW k \in Nat
  PROVE  /\ c = dot.batch =>
              Offset(dims, OperandAt(dot, dims, c, bs, free, k)) =
                (BatchNumber(dot, bs) * dims[dot.batch + 1] + k) * dims[dot.batch + 2] + free
         /\ c # dot.batch =>
              Offset(dims, OperandAt(dot, dims, c, bs, free, k)) =
                (BatchNumber(dot, bs) * dims[dot.batch + 1] + free) * dims[dot.batch + 2] + k
PROOF
<1> DEFINE at == OperandAt(dot, dims, c, bs, free, k)
<1>0. Len(dims) = dot.batch + 2
  BY DEF BatchesOfMatrices
<1>1. /\ \A i \in 1..dot.batch : at[i] = bs[i]
      /\ at[dot.batch + 1] = (IF c = dot.batch THEN k ELSE free)
      /\ at[dot.batch + 2] = (IF c = dot.batch THEN free ELSE k)
  BY <1>0, OperandIndex
<1> HIDE DEF at
<1>2. CASE c = dot.batch
  <2>1. at[dot.batch + 1] = k /\ at[dot.batch + 2] = free
    BY <1>1, <1>2
  <2>2. Offset(dims, at) =
          (BatchNumber(dot, bs) * dims[dot.batch + 1] + k) * dims[dot.batch + 2] + free
    BY <1>1, <2>1, MatrixOffset
  <2> QED
    BY <1>2, <2>2 DEF at
<1>3. CASE c # dot.batch
  <2>1. at[dot.batch + 1] = free /\ at[dot.batch + 2] = k
    BY <1>1, <1>3
  <2>2. \A x, y \in Nat : at[dot.batch + 1] = x /\ at[dot.batch + 2] = y =>
          Offset(dims, at) = (BatchNumber(dot, bs) * dims[dot.batch + 1] + x) * dims[dot.batch + 2] + y
    BY <1>1, MatrixOffset
  <2> QED
    BY <1>3, <2>1, <2>2 DEF at
<1> QED
  BY <1>2, <1>3

\* The size of the dimension of a matrix that is not contracted.
LEMMA FreeSizes ==
  ASSUME NEW dims, NEW batch \in Nat, Len(dims) = batch + 2, NEW c \in batch..batch + 1
  PROVE  /\ FreeDims(dims, batch, c) # {}
         /\ FreeSize(dims, batch, c) =
              IF c = batch THEN dims[batch + 2] ELSE dims[batch + 1]
PROOF
<1> DEFINE f == IF c = batch THEN batch + 1 ELSE batch
<1>1. FreeDims(dims, batch, c) = {f}
  <2>1. batch..Len(dims) - 1 = {batch, batch + 1}
    OBVIOUS
  <2>2. c \in {batch, batch + 1} /\ batch # batch + 1
    OBVIOUS
  <2> QED
    BY <2>1, <2>2 DEF FreeDims
<1>2. FreeSize(dims, batch, c) = dims[1 + (CHOOSE x \in {f} : TRUE)]
  BY <1>1 DEF FreeSize
<1>3. (CHOOSE x \in {f} : TRUE) = f
  OBVIOUS
<1>4. 1 + f = IF c = batch THEN batch + 2 ELSE batch + 1
  OBVIOUS
<1> HIDE DEF f
<1> QED
  BY <1>1, <1>2, <1>3, <1>4

\* What the products of a product of matrices, or of batches of them, are, with M, N and K for
\* the dimensions they are taken over.
Products(count, M, N, K, lt, rt) ==
  {<<(b * M + m) * N + n,
     IF lt THEN (b * K + k) * M + m ELSE (b * M + m) * K + k,
     IF rt THEN (b * N + n) * K + k ELSE (b * K + k) * N + n>> :
     b \in 0..count - 1, m \in 0..M - 1, n \in 0..N - 1, k \in 0..K - 1}

\* What a dot of matrices sums, and the dimensions of its output.
LEMMA MatrixProducts ==
  ASSUME NEW dot, IsDot(dot), Len(dot.rhs) = dot.batch + 2
  PROVE  LET M == FreeSize(dot.lhs, dot.batch, dot.lc)
             N == FreeSize(dot.rhs, dot.batch, dot.rc)
             K == dot.lhs[dot.lc + 1]
         IN  /\ M \in Nat /\ N \in Nat /\ K \in Nat
             /\ Len(OutputDims(dot)) = dot.batch + 2
             /\ \A i \in 1..dot.batch : OutputDims(dot)[i] = dot.lhs[i]
             /\ OutputDims(dot)[dot.batch + 1] = M /\ OutputDims(dot)[dot.batch + 2] = N
             /\ DotProducts(dot) =
                  Products(BatchCount(dot), M, N, K, dot.lc = dot.batch, dot.rc # dot.batch)
PROOF
<1> DEFINE B == dot.batch
           M == FreeSize(dot.lhs, B, dot.lc)
           N == FreeSize(dot.rhs, B, dot.rc)
           K == dot.lhs[dot.lc + 1]
           out == OutputDims(dot)
<1>1. /\ B \in Nat /\ dot.lc \in B..B + 1 /\ dot.rc \in B..B + 1 /\ Len(dot.lhs) = B + 2
      /\ dot.rhs[dot.rc + 1] = K
      /\ \A i \in 1..B : dot.lhs[i] = dot.rhs[i]
      /\ \A i \in 1..B + 2 : dot.lhs[i] \in Nat /\ dot.rhs[i] \in Nat
  <2>1. B \in {0, 1, 2}
    BY DotSizes
  <2>2. \A i \in 1..B + 2 : dot.lhs[i] \in Nat /\ dot.rhs[i] \in Nat
    BY DotSizes
  <2>3. B \in Nat
    BY <2>1
  <2>4. /\ dot.lc \in B..Len(dot.lhs) - 1 /\ dot.rc \in B..Len(dot.rhs) - 1
        /\ Len(dot.lhs) = B + 2 /\ dot.lhs[dot.lc + 1] = dot.rhs[dot.rc + 1]
        /\ \A i \in 1..B : dot.lhs[i] = dot.rhs[i]
    BY DEF IsDot
  <2>5. Len(dot.lhs) - 1 = B + 1 /\ Len(dot.rhs) - 1 = B + 1
    BY <2>1, <2>4
  <2> QED
    BY <2>2, <2>3, <2>4, <2>5
<1>2. /\ dot.lc = B => K = dot.lhs[B + 1] /\ M = dot.lhs[B + 2]
      /\ dot.lc # B => M = dot.lhs[B + 1] /\ K = dot.lhs[B + 2]
      /\ dot.rc = B => K = dot.rhs[B + 1] /\ N = dot.rhs[B + 2]
      /\ dot.rc # B => N = dot.rhs[B + 1] /\ K = dot.rhs[B + 2]
  <2>1. /\ M = IF dot.lc = B THEN dot.lhs[B + 2] ELSE dot.lhs[B + 1]
        /\ N = IF dot.rc = B THEN dot.rhs[B + 2] ELSE dot.rhs[B + 1]
    BY <1>1, FreeSizes
  <2>2. /\ dot.lc + 1 = IF dot.lc = B THEN B + 1 ELSE B + 2
        /\ dot.rc + 1 = IF dot.rc = B THEN B + 1 ELSE B + 2
    BY <1>1
  <2> HIDE DEF B, M, N
  <2> QED
    BY <1>1, <2>1, <2>2
<1>3. M \in Nat /\ N \in Nat /\ K \in Nat
  <2>1. B + 1 \in 1..B + 2 /\ B + 2 \in 1..B + 2
    BY <1>1
  <2> HIDE DEF B, M, N, K
  <2> QED
    BY <1>1, <1>2, <2>1
<1>4. /\ Len(out) = B + 2 /\ out[B + 1] = M /\ out[B + 2] = N
      /\ \A i \in 1..B : out[i] = dot.lhs[i]
      /\ \A i \in 1..B + 2 : out[i] \in Nat
  <2> DEFINE b == SubSeq(dot.lhs, 1, B)
  <2>1. out = (b \o <<M>>) \o <<N>>
    <3>1. FreeDims(dot.lhs, B, dot.lc) # {} /\ FreeDims(dot.rhs, B, dot.rc) # {}
      BY <1>1, FreeSizes
    <3> QED
      BY <3>1 DEF OutputDims
  <2>2. b \in Seq(Nat) /\ Len(b) = B /\ \A i \in 1..B : b[i] = dot.lhs[i]
    BY <1>1, FirstOnes
  <2> HIDE DEF b, out, M, N
  <2>3. (b \o <<M>>) \o <<N>> = b \o <<M, N>>
    BY <1>3, <2>2, TwoAppended
  <2>4. /\ <<M, N>> \in Seq(Nat) /\ Len(<<M, N>>) = 2
        /\ <<M, N>>[1] = M /\ <<M, N>>[2] = N
    BY <1>3
  <2>5. /\ out \in Seq(Nat) /\ Len(out) = B + 2 /\ out[B + 1] = M /\ out[B + 2] = N
        /\ \A i \in 1..B : out[i] = dot.lhs[i]
    <3>1. /\ b \o <<M, N>> \in Seq(Nat) /\ Len(b \o <<M, N>>) = Len(b) + 2
          /\ \A i \in 1..Len(b) : (b \o <<M, N>>)[i] = b[i]
          /\ (b \o <<M, N>>)[Len(b) + 1] = <<M, N>>[1]
          /\ (b \o <<M, N>>)[Len(b) + 2] = <<M, N>>[2]
      BY <2>2, <2>4, BatchAndMatrix, Zenon
    <3> QED
      BY <2>1, <2>2, <2>3, <2>4, <3>1
  <2> QED
    BY <2>5, ElementOfSeq
<1> DEFINE Triple(bs, m, n, k) ==
             <<Offset(out, OutputAt(dot, bs, m, n)),
               Offset(dot.lhs, OperandAt(dot, dot.lhs, dot.lc, bs, m, k)),
               Offset(dot.rhs, OperandAt(dot, dot.rhs, dot.rc, bs, n, k))>>
           Product(b, m, n, k) ==
             <<(b * M + m) * N + n,
               IF dot.lc = B THEN (b * K + k) * M + m ELSE (b * M + m) * K + k,
               IF dot.rc # B THEN (b * N + n) * K + k ELSE (b * K + k) * N + n>>
<1>5. ASSUME NEW bs \in Batches(dot), NEW m \in Nat, NEW n \in Nat, NEW k \in Nat
      PROVE  Triple(bs, m, n, k) = Product(BatchNumber(dot, bs), m, n, k)
  <2> DEFINE b == BatchNumber(dot, bs)
  <2>1. Offset(out, OutputAt(dot, bs, m, n)) = (b * M + m) * N + n
    <3> DEFINE both == bs \o <<m, n>>
               at == SubSeq(both, 1, B + 2)
    <3>1. bs \in Seq(Nat) /\ Len(bs) = B /\ <<m, n>> \in Seq(Nat) /\ Len(<<m, n>>) = 2
      BY BatchNumbers, TwoNumbers
    <3>2. /\ both \in Seq(Nat) /\ Len(both) = Len(bs) + 2
          /\ \A i \in 1..Len(bs) : both[i] = bs[i]
          /\ both[Len(bs) + 1] = <<m, n>>[1] /\ both[Len(bs) + 2] = <<m, n>>[2]
      BY <3>1, BatchAndMatrix, Zenon
    <3>3. OutputAt(dot, bs, m, n) = at
      BY <1>4 DEF OutputAt
    <3>4. <<m, n>>[1] = m /\ <<m, n>>[2] = n
      OBVIOUS
    <3> HIDE DEF both
    <3>5. \A i \in 1..B + 2 : both[i] \in Nat
      BY <3>1, <3>2, ElementOfSeq
    <3>6. \A i \in 1..B + 2 : at[i] = both[i]
      <4>1. B + 2 \in Nat
        BY <1>1
      <4> QED
        BY <3>5, <4>1, FirstOnes, Zenon
    <3> HIDE DEF at
    <3>7. /\ \A i \in 1..B : at[i] = bs[i]
          /\ at[B + 1] = m /\ at[B + 2] = n
      <4>1. B + 1 \in 1..B + 2 /\ B + 2 \in 1..B + 2 /\ \A i \in 1..B : i \in 1..B + 2
        BY <1>1
      <4> QED
        BY <3>1, <3>2, <3>4, <3>6, <4>1
    <3> HIDE DEF out, M, N
    <3>8. Offset(out, at) =
            (BatchNumber(dot, bs) * out[dot.batch + 1] + m) * out[dot.batch + 2] + n
      BY <1>4, <3>7, MatrixOffset DEF BatchesOfMatrices
    <3> QED
      BY <1>4, <3>3, <3>8
  <2>2. Offset(dot.lhs, OperandAt(dot, dot.lhs, dot.lc, bs, m, k)) =
          IF dot.lc = B THEN (b * K + k) * M + m ELSE (b * M + m) * K + k
    <3>1. /\ dot.lc = B =>
               Offset(dot.lhs, OperandAt(dot, dot.lhs, dot.lc, bs, m, k)) =
                 (b * dot.lhs[B + 1] + k) * dot.lhs[B + 2] + m
          /\ dot.lc # B =>
               Offset(dot.lhs, OperandAt(dot, dot.lhs, dot.lc, bs, m, k)) =
                 (b * dot.lhs[B + 1] + m) * dot.lhs[B + 2] + k
      <4> HIDE DEF M, N, K, out, Triple, Product
      <4>1. BatchesOfMatrices(dot, dot.lhs) /\ dot.lc \in dot.batch..dot.batch + 1
        BY <1>1 DEF BatchesOfMatrices
      <4>2. IsDot(dot) /\ bs \in Batches(dot) /\ m \in Nat /\ k \in Nat
        OBVIOUS
      <4> QED
        BY ONLY <4>1, <4>2, OperandOffset
    <3> HIDE DEF M, N, K, B, b
    <3> QED
      BY <1>2, <3>1
  <2>3. Offset(dot.rhs, OperandAt(dot, dot.rhs, dot.rc, bs, n, k)) =
          IF dot.rc # B THEN (b * N + n) * K + k ELSE (b * K + k) * N + n
    <3>1. /\ dot.rc = B =>
               Offset(dot.rhs, OperandAt(dot, dot.rhs, dot.rc, bs, n, k)) =
                 (b * dot.rhs[B + 1] + k) * dot.rhs[B + 2] + n
          /\ dot.rc # B =>
               Offset(dot.rhs, OperandAt(dot, dot.rhs, dot.rc, bs, n, k)) =
                 (b * dot.rhs[B + 1] + n) * dot.rhs[B + 2] + k
      <4> HIDE DEF M, N, K, out, Triple, Product
      <4>1. BatchesOfMatrices(dot, dot.rhs) /\ dot.rc \in dot.batch..dot.batch + 1
        BY <1>1 DEF BatchesOfMatrices
      <4>2. IsDot(dot) /\ bs \in Batches(dot) /\ n \in Nat /\ k \in Nat
        OBVIOUS
      <4> QED
        BY ONLY <4>1, <4>2, OperandOffset
    <3> HIDE DEF M, N, K, B, b
    <3> QED
      BY <1>2, <3>1
  <2> QED
    BY <2>1, <2>2, <2>3
<1>6. DotProducts(dot) =
        {Triple(bs, m, n, k) :
           bs \in Batches(dot), m \in 0..M - 1, n \in 0..N - 1, k \in 0..K - 1}
  BY DEF DotProducts, Batches
<1>7. Products(BatchCount(dot), M, N, K, dot.lc = B, dot.rc # B) =
        {Product(b, m, n, k) :
           b \in 0..BatchCount(dot) - 1, m \in 0..M - 1, n \in 0..N - 1, k \in 0..K - 1}
  BY DEF Products
<1> HIDE DEF Triple, Product
<1>8. /\ \A bs \in Batches(dot) : BatchNumber(dot, bs) \in 0..BatchCount(dot) - 1
      /\ \A b \in 0..BatchCount(dot) - 1 :
           \E bs \in Batches(dot) : BatchNumber(dot, bs) = b
  BY BatchNumbers
<1>9. DotProducts(dot) = Products(BatchCount(dot), M, N, K, dot.lc = B, dot.rc # B)
  <2> DEFINE ms == 0..M - 1
             ns == 0..N - 1
             ks == 0..K - 1
             bs0 == 0..BatchCount(dot) - 1
  <2>1. ms \subseteq Nat /\ ns \subseteq Nat /\ ks \subseteq Nat
    OBVIOUS
  <2> HIDE DEF ms, ns, ks, bs0
  <2>2. \A bs \in Batches(dot), m \in ms, n \in ns, k \in ks :
          Triple(bs, m, n, k) = Product(BatchNumber(dot, bs), m, n, k)
    BY <1>5, <2>1
  <2>3. {Triple(bs, m, n, k) : bs \in Batches(dot), m \in ms, n \in ns, k \in ks}
          = {Product(b, m, n, k) : b \in bs0, m \in ms, n \in ns, k \in ks}
    <3>1. /\ \A bs \in Batches(dot) : BatchNumber(dot, bs) \in bs0
          /\ \A b \in bs0 : \E bs \in Batches(dot) : BatchNumber(dot, bs) = b
      BY <1>8 DEF bs0
    <3> DEFINE ts == {Triple(bs, m, n, k) : bs \in Batches(dot), m \in ms, n \in ns, k \in ks}
               ps == {Product(b, m, n, k) : b \in bs0, m \in ms, n \in ns, k \in ks}
    <3>4. \A t : t \in ts <=> \E bs \in Batches(dot), m \in ms, n \in ns, k \in ks :
                             t = Triple(bs, m, n, k)
      OBVIOUS
    <3>5. \A t : t \in ps <=> \E b \in bs0, m \in ms, n \in ns, k \in ks :
                             t = Product(b, m, n, k)
      OBVIOUS
    <3> HIDE DEF ts, ps
    <3>6. ASSUME NEW t
          PROVE  t \in ts <=> t \in ps
      BY <2>2, <3>1, <3>4, <3>5
    <3>7. ts = ps
      BY <3>6
    <3> QED
      BY <3>7 DEF ts, ps
  <2>4. DotProducts(dot) =
          {Triple(bs, m, n, k) : bs \in Batches(dot), m \in ms, n \in ns, k \in ks}
    BY <1>6 DEF ms, ns, ks
  <2>5. Products(BatchCount(dot), M, N, K, dot.lc = B, dot.rc # B) =
          {Product(b, m, n, k) : b \in bs0, m \in ms, n \in ns, k \in ks}
    BY <1>7 DEF ms, ns, ks, bs0
  <2> QED
    BY <2>3, <2>4, <2>5
<1> QED
  BY <1>3, <1>4, <1>9

------------------------------------------------------------------------------
(* What the kernels sum. *)

\* What cblas_sgemm multiplies for each product of a batch.
LEMMA BatchOfGemms ==
  ASSUME NEW arg, arg.M \in Nat, arg.N \in Nat, arg.K \in Nat, arg.trA \in BOOLEAN,
         arg.trB \in BOOLEAN, NEW count \in Nat
  PROVE  UNION {Gemm(arg, b) : b \in 0..count - 1} =
           Products(count, arg.M, arg.N, arg.K, arg.trA, arg.trB)
PROOF
<1> DEFINE M == arg.M
           N == arg.N
           K == arg.K
           lda == IF arg.trA THEN M ELSE K
           ldb == IF arg.trB THEN K ELSE N
           Called(b, m, n, k) ==
             <<b * M * N + m * N + n,
               b * M * K + (IF arg.trA THEN k * lda + m ELSE m * lda + k),
               b * K * N + (IF arg.trB THEN n * ldb + k ELSE k * ldb + n)>>
           Product(b, m, n, k) ==
             <<(b * M + m) * N + n,
               IF arg.trA THEN (b * K + k) * M + m ELSE (b * M + m) * K + k,
               IF arg.trB THEN (b * N + n) * K + k ELSE (b * K + k) * N + n>>
           Below(x) == 0..x - 1
<1>1. ASSUME NEW b \in Nat, NEW m \in Nat, NEW n \in Nat, NEW k \in Nat
      PROVE  Called(b, m, n, k) = Product(b, m, n, k)
  <2>1. M \in Nat /\ N \in Nat /\ K \in Nat
    OBVIOUS
  <2> HIDE DEF M, N, K
  <2>2. \A x, y, u, v \in Nat : (x * y + u) * v = x * y * v + u * v
    OBVIOUS
  <2>3. \A x, y, z \in Nat : x * y * z = x * z * y
    OBVIOUS
  <2>4. (b * M + m) * N + n = b * M * N + m * N + n
    BY <2>1, <2>2
  <2>5. /\ (b * K + k) * M + m = b * M * K + (k * M + m)
        /\ (b * M + m) * K + k = b * M * K + (m * K + k)
    BY <2>1, <2>2, <2>3
  <2>6. /\ (b * N + n) * K + k = b * K * N + (n * K + k)
        /\ (b * K + k) * N + n = b * K * N + (k * N + n)
    BY <2>1, <2>2, <2>3
  <2>7. CASE arg.trA /\ arg.trB
    BY <2>4, <2>5, <2>6, <2>7
  <2>8. CASE arg.trA /\ ~arg.trB
    BY <2>4, <2>5, <2>6, <2>8
  <2>9. CASE ~arg.trA /\ arg.trB
    BY <2>4, <2>5, <2>6, <2>9
  <2>10. CASE ~arg.trA /\ ~arg.trB
    BY <2>4, <2>5, <2>6, <2>10
  <2> QED
    BY <2>7, <2>8, <2>9, <2>10
<1>2. \A b : Gemm(arg, b) =
               {Called(b, m, n, k) : m \in Below(M), n \in Below(N), k \in Below(K)}
  BY DEF Gemm
<1>3. Products(count, M, N, K, arg.trA, arg.trB) =
        {Product(b, m, n, k) :
           b \in Below(count), m \in Below(M), n \in Below(N), k \in Below(K)}
  BY DEF Products
<1>4. \A x \in Nat : Below(x) \subseteq Nat
  OBVIOUS
<1>5. M \in Nat /\ N \in Nat /\ K \in Nat
  OBVIOUS
<1> DEFINE all == UNION {Gemm(arg, b) : b \in Below(count)}
<1> HIDE DEF M, N, K, lda, ldb, Called, Product, Below
<1>6. ASSUME NEW t
      PROVE  t \in all <=> \E b \in Below(count), m \in Below(M), n \in Below(N), k \in Below(K) :
                             t = Called(b, m, n, k)
  BY <1>2
<1>7. ASSUME NEW t
      PROVE  t \in Products(count, M, N, K, arg.trA, arg.trB) <=>
               \E b \in Below(count), m \in Below(M), n \in Below(N), k \in Below(K) :
                 t = Product(b, m, n, k)
  BY <1>3
<1>8. all = Products(count, M, N, K, arg.trA, arg.trB)
  <2> HIDE DEF all
  <2>1. \A b \in Below(count), m \in Below(M), n \in Below(N), k \in Below(K) :
          Called(b, m, n, k) = Product(b, m, n, k)
    <3>1. /\ \A x \in Below(count) : x \in Nat
          /\ \A x \in Below(M) : x \in Nat
          /\ \A x \in Below(N) : x \in Nat
          /\ \A x \in Below(K) : x \in Nat
      BY <1>4, <1>5
    <3> QED
      BY <1>1, <3>1
  <2>2. ASSUME NEW t
        PROVE  t \in all <=> t \in Products(count, M, N, K, arg.trA, arg.trB)
    BY <1>6, <1>7, <2>1
  <2> QED
    BY <2>2
<1> QED
  BY <1>8 DEF M, N, K, Below

\* The products of a matrix and a vector.
LEMMA VectorProducts ==
  ASSUME NEW dot, IsDot(dot), Len(dot.rhs) = 1
  PROVE  /\ dot.batch = 0 /\ dot.lhs[1] \in Nat /\ dot.lhs[2] \in Nat
         /\ dot.lc \in {0, 1} /\ Len(OutputDims(dot)) = 1
         /\ DotProducts(dot) =
              IF dot.lc = 0
              THEN {<<m, k * dot.lhs[2] + m, k>> : m \in 0..dot.lhs[2] - 1, k \in 0..dot.lhs[1] - 1}
              ELSE {<<m, m * dot.lhs[2] + k, k>> : m \in 0..dot.lhs[1] - 1, k \in 0..dot.lhs[2] - 1}
PROOF
<1>1. /\ dot.batch = 0 /\ Len(dot.lhs) = 2 /\ dot.lc \in 0..1 /\ dot.rc \in 0..0
      /\ dot.lhs[1] \in Nat /\ dot.lhs[2] \in Nat /\ dot.rhs[1] \in Nat
  <2>1. dot.batch = 0 /\ Len(dot.lhs) = 2 /\ dot.lc \in 0..1 /\ dot.rc \in 0..0
    BY DEF IsDot
  <2>2. /\ \A i \in 1..dot.batch + 2 : dot.lhs[i] \in Nat
        /\ \A i \in 1..Len(dot.rhs) : dot.rhs[i] \in Nat
    BY DotSizes
  <2>3. 1 \in 1..0 + 2 /\ 2 \in 1..0 + 2 /\ 1 \in 1..1
    OBVIOUS
  <2> QED
    BY <2>1, <2>2, <2>3
<1>2. dot.lc \in {0, 1} /\ dot.rc = 0
  BY <1>1
<1> DEFINE M == IF dot.lc = 0 THEN dot.lhs[2] ELSE dot.lhs[1]
           K == IF dot.lc = 0 THEN dot.lhs[1] ELSE dot.lhs[2]
<1>3. /\ FreeSize(dot.lhs, 0, dot.lc) = M /\ FreeDims(dot.lhs, 0, dot.lc) # {}
      /\ dot.lhs[dot.lc + 1] = K
  <2>1. /\ FreeDims(dot.lhs, 0, dot.lc) # {}
        /\ FreeSize(dot.lhs, 0, dot.lc) = IF dot.lc = 0 THEN dot.lhs[0 + 2] ELSE dot.lhs[0 + 1]
    <3>1. Len(dot.lhs) = 0 + 2 /\ dot.lc \in 0..0 + 1
      BY <1>1
    <3> QED
      BY <3>1, FreeSizes
  <2> QED
    BY <1>2, <2>1
<1>4. FreeDims(dot.rhs, 0, dot.rc) = {} /\ FreeSize(dot.rhs, 0, dot.rc) = 1
  BY <1>2 DEF FreeDims, FreeSize
<1>5. Len(OutputDims(dot)) = 1 /\ OutputDims(dot)[1] \in Nat
  <2>1. OutputDims(dot) = (SubSeq(dot.lhs, 1, 0) \o <<M>>) \o <<>>
    BY <1>1, <1>3, <1>4 DEF OutputDims
  <2>2. SubSeq(dot.lhs, 1, 0) \in Seq(Nat) /\ Len(SubSeq(dot.lhs, 1, 0)) = 0
    BY FirstOnes
  <2>3. M \in Nat
    BY <1>1
  <2> HIDE DEF M
  <2>4. <<M>> \in Seq(Nat) /\ Len(<<M>>) = 1 /\ <<>> \in Seq(Nat) /\ Len(<<>>) = 0
    BY <2>3
  <2>5. \A a, b, c \in Seq(Nat) :
          (a \o b) \o c \in Seq(Nat) /\ Len((a \o b) \o c) = Len(a) + Len(b) + Len(c)
    BY ConcatProperties
  <2> DEFINE out == OutputDims(dot)
  <2> HIDE DEF out
  <2>6. out \in Seq(Nat) /\ Len(out) = 1
    BY <2>1, <2>2, <2>4, <2>5 DEF out
  <2> QED
    BY <2>6, ElementOfSeq DEF out
<1>6. Batches(dot) = {<<>>}
  BY <1>1, BatchTuples
<1> DEFINE Triple(bs, m, n, k) ==
             <<Offset(OutputDims(dot), OutputAt(dot, bs, m, n)),
               Offset(dot.lhs, OperandAt(dot, dot.lhs, dot.lc, bs, m, k)),
               Offset(dot.rhs, OperandAt(dot, dot.rhs, dot.rc, bs, n, k))>>
           Product(m, k) ==
             <<m, IF dot.lc = 0 THEN k * dot.lhs[2] + m ELSE m * dot.lhs[2] + k, k>>
<1>7. ASSUME NEW m \in Nat, NEW k \in Nat
      PROVE  Triple(<<>>, m, 0, k) = Product(m, k)
  <2> DEFINE none == <<>>
  <2>n. none \in Seq(Nat) /\ Len(none) = 0 /\ none \in Batches(dot) /\ BatchNumber(dot, none) = 0
    BY <1>1, <1>6, EmptySeq DEF BatchNumber
  <2> HIDE DEF none
  <2>1. Offset(OutputDims(dot), OutputAt(dot, none, m, 0)) = m
    <3> DEFINE two == <<m, 0>>
               both == none \o two
               at == SubSeq(both, 1, 1)
    <3>1. two \in Seq(Nat) /\ Len(two) = 2 /\ two[1] = m
      BY TwoNumbers
    <3> HIDE DEF two
    <3>2. both \in Seq(Nat) /\ both[1] = m
      <4>1. both \in Seq(Nat) /\ both[Len(none) + 1] = two[1]
        BY <2>n, <3>1, BatchAndMatrix, Zenon
      <4>2. Len(none) + 1 = 1
        BY <2>n
      <4> QED
        BY <3>1, <4>1, <4>2
    <3>3. OutputAt(dot, none, m, 0) = at
      BY <1>5 DEF OutputAt, two
    <3> HIDE DEF both
    <3>4. at[1] = m
      <4>1. \A i \in 1..1 : both[i] \in Nat
        BY <3>2
      <4>2. \A i \in 1..1 : at[i] = both[i]
        BY <4>1, FirstOnes
      <4> QED
        BY <3>2, <4>2
    <3> DEFINE out == OutputDims(dot)
    <3>5. 1 \in 1..4 /\ Len(out) = 1 /\ \A i \in 1..1 : out[i] \in Nat /\ at[i] \in Nat
      BY <1>5, <3>4
    <3> HIDE DEF at, out
    <3>6. Offset(out, at) = at[1]
      BY <3>5, Offsets
    <3> QED
      BY <3>3, <3>4, <3>6 DEF out
  <2>2. Offset(dot.lhs, OperandAt(dot, dot.lhs, dot.lc, none, m, k)) =
          IF dot.lc = 0 THEN k * dot.lhs[2] + m ELSE m * dot.lhs[2] + k
    <3> DEFINE at == OperandAt(dot, dot.lhs, dot.lc, none, m, k)
    <3>1. BatchesOfMatrices(dot, dot.lhs) /\ dot.lc \in dot.batch..dot.batch + 1
      <4>1. \A i \in 1..0 + 2 : i \in {1, 2}
        OBVIOUS
      <4> QED
        BY <1>1, <4>1 DEF BatchesOfMatrices
    <3>2. /\ dot.lc = dot.batch => Offset(dot.lhs, at) =
               (BatchNumber(dot, none) * dot.lhs[dot.batch + 1] + k) * dot.lhs[dot.batch + 2] + m
          /\ dot.lc # dot.batch => Offset(dot.lhs, at) =
               (BatchNumber(dot, none) * dot.lhs[dot.batch + 1] + m) * dot.lhs[dot.batch + 2] + k
      BY <2>n, <3>1, OperandOffset
    <3> HIDE DEF at
    <3>3. \A x \in Nat : 0 * dot.lhs[1] + x = x
      BY <1>1
    <3>4. dot.batch + 1 = 1 /\ dot.batch + 2 = 2
      BY <1>1
    <3>5. /\ dot.lc = 0 => Offset(dot.lhs, at) = k * dot.lhs[2] + m
          /\ dot.lc # 0 => Offset(dot.lhs, at) = m * dot.lhs[2] + k
      BY <1>1, <2>n, <3>2, <3>3, <3>4
    <3> QED
      BY <3>5 DEF at
  <2>3. Offset(dot.rhs, OperandAt(dot, dot.rhs, dot.rc, none, 0, k)) = k
    <3> DEFINE one == [i \in 1..1 |-> IF 0 + i - 1 = 0 THEN k ELSE 0]
               at == none \o one
    <3>1. OperandAt(dot, dot.rhs, dot.rc, none, 0, k) = at
      BY <1>1, <1>2 DEF OperandAt
    <3>2. one = <<k>>
      OBVIOUS
    <3> HIDE DEF one
    <3>3. one \in Seq(Nat) /\ Len(one) = 1 /\ one[1] = k
      BY <3>2
    <3>4. at[1] = k
      <4>1. \A i \in 1..Len(none) + Len(one) :
              at[i] = IF i <= Len(none) THEN none[i] ELSE one[i - Len(none)]
        BY <2>n, <3>3, ConcatProperties, Zenon
      <4> HIDE DEF at
      <4> QED
        BY <2>n, <3>3, <4>1
    <3> HIDE DEF at
    <3>5. 1 \in 1..4 /\ Len(dot.rhs) = 1 /\ \A i \in 1..1 : dot.rhs[i] \in Nat /\ at[i] \in Nat
      BY <1>1, <3>4
    <3> DEFINE rhs == dot.rhs
    <3> HIDE DEF rhs
    <3>6. Offset(rhs, at) = at[1]
      <4>1. Len(rhs) = 1 /\ \A i \in 1..1 : rhs[i] \in Nat /\ at[i] \in Nat
        BY <3>5 DEF rhs
      <4> QED
        BY <4>1, <3>5, Offsets
    <3> QED
      BY <3>1, <3>4, <3>6 DEF rhs
  <2> HIDE DEF M, K
  <2> QED
    BY <2>1, <2>2, <2>3 DEF none
<1>8. DotProducts(dot) = {Triple(bs, m, n, k) : bs \in {<<>>}, m \in 0..M - 1, n \in 0..0, k \in 0..K - 1}
  <2> DEFINE lhs == FreeSize(dot.lhs, dot.batch, dot.lc)
             rhs == FreeSize(dot.rhs, dot.batch, dot.rc)
             lck == dot.lhs[dot.lc + 1]
  <2>1. DotProducts(dot) = {Triple(bs, m, n, k) : bs \in Batches(dot), m \in 0..lhs - 1,
                                                  n \in 0..rhs - 1, k \in 0..lck - 1}
    BY DEF DotProducts, Batches
  <2>2. lhs = M /\ rhs = 1 /\ lck = K
    BY <1>1, <1>3, <1>4
  <2> HIDE DEF lhs, rhs, lck, Triple, M, K
  <2>3. 1 - 1 = 0
    OBVIOUS
  <2> QED
    BY <1>6, <2>1, <2>2, <2>3
<1>9. DotProducts(dot) = {Product(m, k) : m \in 0..M - 1, k \in 0..K - 1}
  <2> DEFINE ms == 0..M - 1
             ks == 0..K - 1
             ps == {Product(m, k) : m \in ms, k \in ks}
  <2> HIDE DEF Triple, Product, M, K
  <2>1. ASSUME NEW t
        PROVE  t \in DotProducts(dot) <=> \E m \in ms, k \in ks : t = Triple(<<>>, m, 0, k)
    <3>1. \A n : n \in 0..0 <=> n = 0
      OBVIOUS
    <3> HIDE DEF ms, ks
    <3>2. DotProducts(dot) = {Triple(bs, m, n, k) : bs \in {<<>>}, m \in ms, n \in 0..0, k \in ks}
      BY <1>8 DEF ms, ks
    <3> QED
      BY <3>1, <3>2
  <2>2. \A m \in ms, k \in ks : Triple(<<>>, m, 0, k) = Product(m, k)
    <3>1. ms \subseteq Nat /\ ks \subseteq Nat
      OBVIOUS
    <3> HIDE DEF ms, ks
    <3> QED
      BY <1>7, <3>1
  <2>3. ASSUME NEW t
        PROVE  t \in ps <=> \E m \in ms, k \in ks : t = Product(m, k)
    <3> HIDE DEF ms, ks
    <3> QED
      OBVIOUS
  <2> HIDE DEF ps, ms, ks
  <2>4. ASSUME NEW t
        PROVE  t \in DotProducts(dot) <=> t \in ps
    BY <2>1, <2>2, <2>3
  <2>5. DotProducts(dot) = ps
    BY <2>4
  <2> QED
    BY <2>5 DEF ps, ms, ks
<1>10. CASE dot.lc = 0
  BY <1>1, <1>2, <1>5, <1>9, <1>10
<1>11. CASE dot.lc = 1
  BY <1>1, <1>2, <1>5, <1>9, <1>11
<1> QED
  BY <1>2, <1>10, <1>11

\* What cblas_sgemv multiplies: the products of a matrix and a vector, unless the matrix is
\* transposed and not square.
LEMMA GemvProducts ==
  ASSUME NEW dot, IsDot(dot), Len(dot.rhs) = 1, dot.lc = 0 => dot.lhs[1] = dot.lhs[2],
         NEW arg, arg.trA = (dot.lc = 0),
         arg.M = dot.lhs[IF dot.lc = 0 THEN 2 ELSE 1], arg.N = dot.lhs[IF dot.lc = 0 THEN 1 ELSE 2]
  PROVE  Gemv(arg) = DotProducts(dot)
PROOF
<1> DEFINE p == dot.lhs[1]
           q == dot.lhs[2]
<1>1. /\ p \in Nat /\ q \in Nat /\ dot.lc \in {0, 1}
      /\ dot.lc = 0 => DotProducts(dot) = {<<m, k * q + m, k>> : m \in 0..q - 1, k \in 0..p - 1}
      /\ dot.lc # 0 => DotProducts(dot) = {<<m, m * q + k, k>> : m \in 0..p - 1, k \in 0..q - 1}
  BY VectorProducts
<1>2. CASE dot.lc = 0
  <2>1. arg.trA /\ arg.M = q /\ arg.N = q /\ p = q
    BY <1>2
  <2>2. Gemv(arg) = {<<n, m * q + n, m>> : m \in 0..q - 1, n \in 0..q - 1}
    BY <2>1 DEF Gemv
  <2>3. DotProducts(dot) = {<<m, k * q + m, k>> : m \in 0..q - 1, k \in 0..q - 1}
    BY <1>1, <1>2, <2>1
  <2> HIDE DEF p, q
  <2>4. {<<n, m * q + n, m>> : m \in 0..q - 1, n \in 0..q - 1} =
          {<<m, k * q + m, k>> : m \in 0..q - 1, k \in 0..q - 1}
    OBVIOUS
  <2> QED
    BY <2>2, <2>3, <2>4
<1>3. CASE dot.lc = 1
  <2>1. ~arg.trA /\ arg.M = p /\ arg.N = q
    <3>1. dot.lc # 0
      BY <1>3
    <3>2. ~arg.trA
      BY <3>1, Zenon
    <3> QED
      BY <3>1, <3>2
  <2>2. Gemv(arg) = {<<m, m * q + n, n>> : m \in 0..p - 1, n \in 0..q - 1}
    BY <2>1 DEF Gemv
  <2> QED
    BY <1>1, <1>3, <2>2
<1> QED
  BY <1>1, <1>2, <1>3

\* What cblas_sgemm multiplies, for the one product of a GEMM or those of a batch.
LEMMA GemmProducts ==
  ASSUME NEW dot, IsDot(dot), Len(dot.rhs) = dot.batch + 2,
         NEW arg, arg.trA = (dot.lc = dot.batch), arg.trB = (dot.rc = dot.batch + 1),
         arg.M = OutputDims(dot)[dot.batch + 1], arg.N = OutputDims(dot)[dot.batch + 2],
         arg.K = dot.lhs[dot.lc + 1]
  PROVE  UNION {Gemm(arg, b) : b \in 0..BatchCount(dot) - 1} = DotProducts(dot)
PROOF
<1> DEFINE M == FreeSize(dot.lhs, dot.batch, dot.lc)
           N == FreeSize(dot.rhs, dot.batch, dot.rc)
           K == dot.lhs[dot.lc + 1]
           count == BatchCount(dot)
<1>1. /\ M \in Nat /\ N \in Nat /\ K \in Nat
      /\ OutputDims(dot)[dot.batch + 1] = M /\ OutputDims(dot)[dot.batch + 2] = N
      /\ DotProducts(dot) = Products(count, M, N, K, dot.lc = dot.batch, dot.rc # dot.batch)
  BY MatrixProducts
<1>2. (dot.rc = dot.batch + 1) = (dot.rc # dot.batch)
  <2>1. dot.batch \in {0, 1, 2}
    BY DotSizes
  <2>2. dot.rc \in dot.batch..Len(dot.rhs) - 1
    BY DEF IsDot
  <2> QED
    BY <2>1, <2>2
<1>3. count \in Nat
  BY DotSizes
<1> HIDE DEF M, N, count
<1>4. /\ arg.M = M /\ arg.N = N /\ arg.K = K
      /\ arg.trA = (dot.lc = dot.batch) /\ arg.trB = (dot.rc # dot.batch)
  BY <1>1, <1>2
<1>5. arg.trA \in BOOLEAN /\ arg.trB \in BOOLEAN
  BY <1>4
<1>6. UNION {Gemm(arg, b) : b \in 0..count - 1} =
        Products(count, arg.M, arg.N, arg.K, arg.trA, arg.trB)
  <2>1. arg.M \in Nat /\ arg.N \in Nat /\ arg.K \in Nat
    BY <1>1, <1>4
  <2> QED
    BY <1>3, <1>5, <2>1, BatchOfGemms
<1> QED
  BY <1>1, <1>4, <1>6 DEF count

\* The names of the operands, for each operation.
LEMMA ParametersAre ==
  /\ Parameters("GEMM") = <<"trA", "trB", "A", "B", "M", "N", "K", "alpha", "beta">>
  /\ Parameters("GEMV") = <<"trA", "A", "X", "M", "N", "alpha", "beta">>
  /\ Parameters("BATCH3D") = <<"trA", "trB", "A", "B", "P", "M", "N", "K">>
  /\ Parameters("BATCH4D") = <<"trA", "trB", "A", "B", "Q", "P", "M", "N", "K">>
PROOF
  BY DEF Parameters

\* The emitter passes an operand on by the name of the parameter in its place.
LEMMA EmittedOperand ==
  ASSUME NEW call, NEW names, names = Parameters(call.op_type), NEW i \in DOMAIN names,
         \A j \in DOMAIN names : names[j] = names[i] => j = i
  PROVE  Emitted(call)[names[i]] = call.operands[i]
PROOF
<1>1. names[i] \in {names[j] : j \in DOMAIN names}
  OBVIOUS
<1>2. (CHOOSE j \in DOMAIN names : names[j] = names[i]) = i
  OBVIOUS
<1> QED
  BY <1>1, <1>2 DEF Emitted

\* What is multiplied for each operation.
LEMMA KernelProductsAre ==
  ASSUME NEW arg
  PROVE  /\ KernelProducts("GEMM", arg) = Gemm(arg, 0)
         /\ KernelProducts("GEMV", arg) = Gemv(arg)
         /\ KernelProducts("BATCH3D", arg) = UNION {Gemm(arg, b) : b \in 0..arg.P - 1}
         /\ KernelProducts("BATCH4D", arg) = UNION {Gemm(arg, b) : b \in 0..arg.Q * arg.P - 1}
PROOF
  BY DEF KernelProducts

\* The request that is made for a dot.
LEMMA OperationOf ==
  ASSUME NEW dot, IsDot(dot)
  PROVE  /\ dot.batch = 0 /\ Len(OutputDims(dot)) # 1 => HandleDot(dot) = GemmRequest(dot)
         /\ dot.batch = 0 /\ Len(OutputDims(dot)) = 1 => HandleDot(dot) = GemvRequest(dot)
         /\ dot.batch = 1 => HandleDot(dot) = Batch3DRequest(dot)
         /\ dot.batch = 2 => HandleDot(dot) = Batch4DRequest(dot)
PROOF
<1>1. dot.batch = 0 => dot.batch # 1 /\ dot.batch # 2
  OBVIOUS
<1>2. dot.batch = 1 => dot.batch # 0 /\ dot.batch # 2
  OBVIOUS
<1>3. dot.batch = 2 => dot.batch # 0 /\ dot.batch # 1
  OBVIOUS
<1>4. /\ dot.batch = 0 /\ Len(OutputDims(dot)) # 1 => getOperation(dot) = "GEMM"
      /\ dot.batch = 0 /\ Len(OutputDims(dot)) = 1 => getOperation(dot) = "GEMV"
      /\ dot.batch = 1 => getOperation(dot) = "BATCH_MATMUL_3D"
      /\ dot.batch = 2 => getOperation(dot) = "BATCH_MATMUL_4D"
  BY <1>1, <1>2, <1>3 DEF getOperation
<1> QED
  BY <1>4 DEF HandleDot

\* The call for a product of matrices.
LEMMA GemmCall ==
  ASSUME NEW dot, IsDot(dot), dot.batch = 0, Len(dot.rhs) = dot.batch + 2,
         NEW call, call.op_type = "GEMM", call.operands = GemmRequest(dot).operands
  PROVE  KernelProducts("GEMM", Emitted(call)) = DotProducts(dot)
PROOF
<1> DEFINE arg == Emitted(call)
           names == <<"trA", "trB", "A", "B", "M", "N", "K", "alpha", "beta">>
           operands == call.operands
<1>1. names = Parameters(call.op_type)
  BY ParametersAre
<1>2. operands = <<dot.lc = 0, dot.rc = 1, "A", "B", OutputDims(dot)[0 + 1],
                   OutputDims(dot)[1 + 1], dot.lhs[dot.lc + 1], 1, 0>>
  BY DEF GemmRequest, OutputSize, ContractingSize
<1>3. /\ arg["trA"] = operands[1] /\ arg["trB"] = operands[2]
      /\ arg["M"] = operands[5] /\ arg["N"] = operands[6] /\ arg["K"] = operands[7]
  <2>1. DOMAIN names = 1..9
    OBVIOUS
  <2>2. \A i \in {1, 2, 5, 6, 7} : \A j \in DOMAIN names : names[j] = names[i] => j = i
    OBVIOUS
  <2>3. names[1] = "trA" /\ names[2] = "trB" /\ names[5] = "M" /\ names[6] = "N" /\ names[7] = "K"
    OBVIOUS
  <2> HIDE DEF arg, names, operands
  <2>4. \A i \in {1, 2, 5, 6, 7} : Emitted(call)[names[i]] = call.operands[i]
    BY <1>1, <2>1, <2>2, EmittedOperand
  <2> QED
    BY <2>3, <2>4 DEF arg, operands
<1>4. /\ arg.trA = (dot.lc = dot.batch) /\ arg.trB = (dot.rc = dot.batch + 1)
      /\ arg.M = OutputDims(dot)[dot.batch + 1] /\ arg.N = OutputDims(dot)[dot.batch + 2]
      /\ arg.K = dot.lhs[dot.lc + 1]
  <2> HIDE DEF arg, operands
  <2>1. dot.batch = 0 /\ 0 + 1 = 1 /\ 1 + 1 = 0 + 2
    OBVIOUS
  <2> QED
    BY <1>2, <1>3, <2>1
<1> HIDE DEF arg
<1>5. UNION {Gemm(arg, b) : b \in 0..BatchCount(dot) - 1} = DotProducts(dot)
  <2>1. IsDot(dot) /\ Len(dot.rhs) = dot.batch + 2
    OBVIOUS
  <2> QED
    BY ONLY <1>4, <2>1, GemmProducts
<1>6. UNION {Gemm(arg, b) : b \in 0..BatchCount(dot) - 1} = Gemm(arg, 0)
  <2>1. BatchCount(dot) - 1 = 0 /\ 0..0 = {0}
    BY DEF BatchCount
  <2> QED
    BY <2>1
<1> QED
  BY <1>5, <1>6, KernelProductsAre DEF arg

\* The call for a product of a matrix and a vector.
LEMMA GemvCall ==
  ASSUME NEW dot, IsDot(dot), dot.batch = 0, Len(dot.rhs) = 1,
         dot.lc = 0 => dot.lhs[1] = dot.lhs[2],
         NEW call, call.op_type = "GEMV", call.operands = GemvRequest(dot).operands
  PROVE  KernelProducts("GEMV", Emitted(call)) = DotProducts(dot)
PROOF
<1> DEFINE arg == Emitted(call)
           names == <<"trA", "A", "X", "M", "N", "alpha", "beta">>
           operands == call.operands
<1>1. names = Parameters(call.op_type)
  BY ParametersAre
<1>2. operands = <<dot.lc = 0, "A", "X", dot.lhs[IF dot.lc = 0 THEN 2 ELSE 1],
                   dot.lhs[IF dot.lc = 0 THEN 1 ELSE 2], 1, 0>>
  BY DEF GemvRequest
<1>3. arg["trA"] = operands[1] /\ arg["M"] = operands[4] /\ arg["N"] = operands[5]
  <2>1. DOMAIN names = 1..7
    OBVIOUS
  <2>2. \A i \in {1, 4, 5} : \A j \in DOMAIN names : names[j] = names[i] => j = i
    OBVIOUS
  <2>3. names[1] = "trA" /\ names[4] = "M" /\ names[5] = "N"
    OBVIOUS
  <2> HIDE DEF arg, names, operands
  <2>4. \A i \in {1, 4, 5} : Emitted(call)[names[i]] = call.operands[i]
    BY <1>1, <2>1, <2>2, EmittedOperand
  <2> QED
    BY <2>3, <2>4 DEF arg, operands
<1>4. /\ arg.trA = (dot.lc = 0)
      /\ arg.M = dot.lhs[IF dot.lc = 0 THEN 2 ELSE 1]
      /\ arg.N = dot.lhs[IF dot.lc = 0 THEN 1 ELSE 2]
  <2> HIDE DEF arg, operands
  <2> QED
    BY <1>2, <1>3
<1> HIDE DEF arg
<1>5. Gemv(arg) = DotProducts(dot)
  BY <1>4, GemvProducts
<1> QED
  BY <1>5, KernelProductsAre DEF arg

\* The call for a batch of products.
LEMMA Batch3DCall ==
  ASSUME NEW dot, IsDot(dot), dot.batch = 1,
         NEW call, call.op_type = "BATCH3D", call.operands = Batch3DRequest(dot).operands
  PROVE  KernelProducts("BATCH3D", Emitted(call)) = DotProducts(dot)
PROOF
<1> DEFINE arg == Emitted(call)
           names == <<"trA", "trB", "A", "B", "P", "M", "N", "K">>
           operands == call.operands
<1>1. names = Parameters(call.op_type)
  BY ParametersAre
<1>2. operands = <<dot.lc = 1, dot.rc = 2, "A", "B", OutputDims(dot)[0 + 1],
                   OutputDims(dot)[1 + 1], OutputDims(dot)[2 + 1], dot.lhs[dot.lc + 1]>>
  BY DEF Batch3DRequest, OutputSize, ContractingSize
<1>3. /\ arg["trA"] = operands[1] /\ arg["trB"] = operands[2] /\ arg["P"] = operands[5]
      /\ arg["M"] = operands[6] /\ arg["N"] = operands[7] /\ arg["K"] = operands[8]
  <2>1. DOMAIN names = 1..8
    OBVIOUS
  <2>2. \A i \in {1, 2, 5, 6, 7, 8} : \A j \in DOMAIN names : names[j] = names[i] => j = i
    OBVIOUS
  <2>3. /\ names[1] = "trA" /\ names[2] = "trB" /\ names[5] = "P"
        /\ names[6] = "M" /\ names[7] = "N" /\ names[8] = "K"
    OBVIOUS
  <2> HIDE DEF arg, names, operands
  <2>4. \A i \in {1, 2, 5, 6, 7, 8} : Emitted(call)[names[i]] = call.operands[i]
    BY <1>1, <2>1, <2>2, EmittedOperand
  <2> QED
    BY <2>3, <2>4 DEF arg, operands
<1>4. Len(dot.rhs) = dot.batch + 2
  BY DEF IsDot
<1>5. /\ arg.trA = (dot.lc = dot.batch) /\ arg.trB = (dot.rc = dot.batch + 1)
      /\ arg.M = OutputDims(dot)[dot.batch + 1] /\ arg.N = OutputDims(dot)[dot.batch + 2]
      /\ arg.K = dot.lhs[dot.lc + 1] /\ arg.P = OutputDims(dot)[1]
  <2> HIDE DEF arg, operands
  <2>1. dot.batch = 1 /\ 0 + 1 = 1 /\ 1 + 1 = 2 /\ 2 + 1 = 1 + 2
    OBVIOUS
  <2> QED
    BY <1>2, <1>3, <2>1
<1> HIDE DEF arg
<1>6. UNION {Gemm(arg, b) : b \in 0..BatchCount(dot) - 1} = DotProducts(dot)
  BY <1>4, <1>5, GemmProducts
<1>7. BatchCount(dot) = arg.P
  <2>1. OutputDims(dot)[1] = dot.lhs[1]
    <3>1. \A i \in 1..dot.batch : OutputDims(dot)[i] = dot.lhs[i]
      BY <1>4, MatrixProducts
    <3> QED
      BY <3>1
  <2> QED
    BY <1>5, <2>1 DEF BatchCount
<1> QED
  BY <1>6, <1>7, KernelProductsAre DEF arg

\* The call for batches of batches of products.
LEMMA Batch4DCall ==
  ASSUME NEW dot, IsDot(dot), dot.batch = 2,
         NEW call, call.op_type = "BATCH4D", call.operands = Batch4DRequest(dot).operands
  PROVE  KernelProducts("BATCH4D", Emitted(call)) = DotProducts(dot)
PROOF
<1> DEFINE arg == Emitted(call)
           names == <<"trA", "trB", "A", "B", "Q", "P", "M", "N", "K">>
           operands == call.operands
<1>1. names = Parameters(call.op_type)
  BY ParametersAre
<1>2. operands = <<dot.lc = 2, dot.rc = 3, "A", "B", OutputDims(dot)[0 + 1],
                   OutputDims(dot)[1 + 1], OutputDims(dot)[2 + 1], OutputDims(dot)[3 + 1],
                   dot.lhs[dot.lc + 1]>>
  BY DEF Batch4DRequest, OutputSize, ContractingSize
<1>3. /\ arg["trA"] = operands[1] /\ arg["trB"] = operands[2]
      /\ arg["Q"] = operands[5] /\ arg["P"] = operands[6]
      /\ arg["M"] = operands[7] /\ arg["N"] = operands[8] /\ arg["K"] = operands[9]
  <2>1. DOMAIN names = 1..9
    OBVIOUS
  <2>2. \A i \in {1, 2, 5, 6, 7, 8, 9} : \A j \in DOMAIN names : names[j] = names[i] => j = i
    OBVIOUS
  <2>3. /\ names[1] = "trA" /\ names[2] = "trB" /\ names[5] = "Q" /\ names[6] = "P"
        /\ names[7] = "M" /\ names[8] = "N" /\ names[9] = "K"
    OBVIOUS
  <2> HIDE DEF arg, names, operands
  <2>4. \A i \in {1, 2, 5, 6, 7, 8, 9} : Emitted(call)[names[i]] = call.operands[i]
    BY <1>1, <2>1, <2>2, EmittedOperand
  <2> QED
    BY <2>3, <2>4 DEF arg, operands
<1>4. Len(dot.rhs) = dot.batch + 2
  BY DEF IsDot
<1>5. /\ arg.trA = (dot.lc = dot.batch) /\ arg.trB = (dot.rc = dot.batch + 1)
      /\ arg.M = OutputDims(dot)[dot.batch + 1] /\ arg.N = OutputDims(dot)[dot.batch + 2]
      /\ arg.K = dot.lhs[dot.lc + 1] /\ arg.Q = OutputDims(dot)[1] /\ arg.P = OutputDims(dot)[2]
  <2> HIDE DEF arg, operands
  <2>1. dot.batch = 2 /\ 0 + 1 = 1 /\ 1 + 1 = 2 /\ 2 + 1 = 3 /\ 3 + 1 = 2 + 2
    OBVIOUS
  <2> QED
    BY <1>2, <1>3, <2>1
<1> HIDE DEF arg
<1>6. UNION {Gemm(arg, b) : b \in 0..BatchCount(dot) - 1} = DotProducts(dot)
  BY <1>4, <1>5, GemmProducts
<1>7. BatchCount(dot) = arg.Q * arg.P
  <2>1. OutputDims(dot)[1] = dot.lhs[1] /\ OutputDims(dot)[2] = dot.lhs[2]
    <3>1. \A i \in 1..dot.batch : OutputDims(dot)[i] = dot.lhs[i]
      BY <1>4, MatrixProducts
    <3> QED
      BY <3>1
  <2> QED
    BY <1>5, <2>1 DEF BatchCount
<1> QED
  BY <1>6, <1>7, KernelProductsAre DEF arg

\* A call made for a dot as it was requested sums the products of the dot.
LEMMA DotCall ==
  ASSUME NEW dot, IsDot(dot), dot.opcode = "dot",
         Len(dot.rhs) = 1 /\ dot.lc = 0 => dot.lhs[1] = dot.lhs[2],
         NEW call, call.op_type = Request(dot).op_type, call.operands = Request(dot).operands
  PROVE  KernelProducts(call.op_type, Emitted(call)) = DotProducts(dot)
PROOF
<1>1. Request(dot) = HandleDot(dot)
  BY DEF Request
<1>2. dot.batch \in {0, 1, 2} /\ Len(dot.rhs) \in {dot.batch + 2, 1}
      /\ (Len(dot.rhs) = 1 => dot.batch = 0)
  <2>1. dot.batch \in {0, 1, 2}
    BY DotSizes
  <2> QED
    BY <2>1 DEF IsDot
<1>3. CASE dot.batch = 0 /\ Len(dot.rhs) = 1
  <2>1. HandleDot(dot) = GemvRequest(dot)
    <3>1. Len(OutputDims(dot)) = 1
      BY <1>3, VectorProducts
    <3> QED
      BY <1>3, <3>1, OperationOf
  <2>2. call.op_type = "GEMV" /\ call.operands = GemvRequest(dot).operands
    BY <1>1, <2>1 DEF GemvRequest
  <2> QED
    BY <1>3, <2>2, GemvCall
<1>4. CASE dot.batch = 0 /\ Len(dot.rhs) = dot.batch + 2
  <2>1. HandleDot(dot) = GemmRequest(dot)
    <3>1. Len(OutputDims(dot)) = dot.batch + 2
      BY <1>4, MatrixProducts
    <3>2. Len(OutputDims(dot)) # 1
      BY <1>4, <3>1
    <3> QED
      BY <1>4, <3>2, OperationOf
  <2>2. call.op_type = "GEMM" /\ call.operands = GemmRequest(dot).operands
    BY <1>1, <2>1 DEF GemmRequest
  <2> QED
    BY <1>4, <2>2, GemmCall
<1>5. CASE dot.batch = 1
  <2>1. HandleDot(dot) = Batch3DRequest(dot)
    BY <1>5, OperationOf
  <2>2. call.op_type = "BATCH3D" /\ call.operands = Batch3DRequest(dot).operands
    BY <1>1, <2>1 DEF Batch3DRequest
  <2> QED
    BY <1>5, <2>2, Batch3DCall
<1>6. CASE dot.batch = 2
  <2>1. HandleDot(dot) = Batch4DRequest(dot)
    BY <1>6, OperationOf
  <2>2. call.op_type = "BATCH4D" /\ call.operands = Batch4DRequest(dot).operands
    BY <1>1, <2>1 DEF Batch4DRequest
  <2> QED
    BY <1>6, <2>2, Batch4DCall
<1>7. \/ dot.batch = 0 /\ Len(dot.rhs) = 1
      \/ dot.batch = 0 /\ Len(dot.rhs) = dot.batch + 2
      \/ dot.batch = 1
      \/ dot.batch = 2
  BY <1>2
<1> QED
  BY <1>3, <1>4, <1>5, <1>6, <1>7, Zenon

------------------------------------------------------------------------------
(* Calls. *)

\* A call carries the operation and the operands of the request it was made for.
MadeAsAsked ==
  \A c \in Compilations : \A i \in DOMAIN calls[c] :
    /\ i \in DOMAIN module[c]
    /\ Made(c, i) => /\ calls[c][i].op_type = Asked(c, i).op_type
                     /\ calls[c][i].operands = Asked(c, i).operands

\* Nothing but a visit makes calls, and a visit makes one.
LEMMA NextMadeAsAsked ==
  ASSUME SInv, MadeAsAsked, [Next]_vars
  PROVE  MadeAsAsked'
PROOF
<1>1. ASSUME calls' = calls, module' = module
      PROVE  MadeAsAsked'
  BY <1>1 DEF MadeAsAsked, Made, Asked
<1>2. ASSUME NEW c \in Compilations, Visit(c)
      PROVE  MadeAsAsked'
  <2>n. PICK n : n = Visited(c)
    OBVIOUS
  <2>i. PICK instr : instr = module[c][n]
    OBVIOUS
  <2>1. PICK e : /\ calls' = [calls EXCEPT ![c] = Append(@, e)]
                 /\ \/ e = NoCall
                    \/ /\ e.op_type = Request(instr).op_type
                       /\ e.operands = Request(instr).operands
    <3> DEFINE request == Request(instr)
               found == Lookup(sizesToSymbol, request.kTy, request.keys)
               Replacement(key) == [symbol |-> sizesToSymbol[key], op_type |-> request.op_type,
                                    operands |-> request.operands]
    <3>1. \/ calls' = [calls EXCEPT ![c] = Append(@, NoCall)]
          \/ \E key \in found : calls' = [calls EXCEPT ![c] = Append(@, Replacement(key))]
      BY <1>2, <2>n, <2>i, Zenon DEF Visit
    <3>2. \A key : /\ Replacement(key).op_type = request.op_type
                   /\ Replacement(key).operands = request.operands
      OBVIOUS
    <3> HIDE DEF request, found, Replacement
    <3> QED
      BY <3>1, <3>2, Zenon DEF request
  <2>2. module' = module /\ n <= Len(module[c])
    BY <1>2, <2>n DEF Visit
  <2>3. /\ IsSeq(calls[c]) /\ DOMAIN calls = Compilations
        /\ module[c] \in Modules
    BY DEF SInv, Phases, TypeOK
  <2>4. /\ Len(calls[c]) \in Nat /\ DOMAIN calls[c] = 1..Len(calls[c])
        /\ DOMAIN Append(calls[c], e) = 1..Len(calls[c]) + 1
        /\ Append(calls[c], e)[Len(calls[c]) + 1] = e
        /\ \A i \in 1..Len(calls[c]) : Append(calls[c], e)[i] = calls[c][i]
    BY <2>3, AppendFacts
  <2>5. /\ calls'[c] = Append(calls[c], e)
        /\ \A d \in Compilations : d # c => calls'[d] = calls[d]
    BY <2>1, <2>3
  <2>6. n \in DOMAIN module[c]
    <3>1. module[c] \in Seq({module[c][i] : i \in DOMAIN module[c]})
      BY <2>3, ModulesAssumption
    <3>2. Len(module[c]) \in Nat /\ DOMAIN module[c] = 1..Len(module[c])
      BY <3>1, LenProperties, Zenon
    <3> QED
      BY <2>2, <2>4, <2>n, <3>2 DEF Visited
  <2>7. /\ n = Len(calls[c]) + 1
        /\ calls'[c][n] = e
        /\ \A i \in DOMAIN calls'[c] :
             i # n => i \in DOMAIN calls[c] /\ calls'[c][i] = calls[c][i]
    BY <2>n, <2>4, <2>5 DEF Visited
  <2>8. SUFFICES ASSUME NEW d \in Compilations, NEW i \in DOMAIN calls'[d]
                 PROVE  /\ i \in DOMAIN module[d]
                        /\ calls'[d][i] # NoCall =>
                             /\ calls'[d][i].op_type = Request(module[d][i]).op_type
                             /\ calls'[d][i].operands = Request(module[d][i]).operands
    BY <2>2 DEF MadeAsAsked, Made, Asked
  <2>9. CASE d = c /\ i = n
    BY <2>1, <2>6, <2>7, <2>9, <2>i
  <2>10. CASE ~(d = c /\ i = n)
    <3>1. i \in DOMAIN calls[d] /\ calls'[d][i] = calls[d][i]
      BY <2>5, <2>7, <2>10
    <3> QED
      BY <3>1 DEF MadeAsAsked, Made, Asked
  <2> QED
    BY <2>9, <2>10
<1>3. ASSUME NEW c \in Compilations, RunStep(c), ~Visit(c)
      PROVE  MadeAsAsked'
  BY <1>1, <1>3 DEF RunStep, RunUnset, RunOpens, RunKeeps, ReadLine, EndReading, EndRun
<1>4. CASE RaceAborts
  BY <1>1, <1>4 DEF RaceAborts
<1>5. CASE Quiet \/ UNCHANGED vars
  BY <1>1, <1>5 DEF Quiet, vars
<1> QED
  BY <1>2, <1>3, <1>4, <1>5 DEF Next

\* A matrix that is transposed before it is multiplied by a vector is square.
SquareTransposes ==
  \A m \in Modules : \A i \in DOMAIN m :
    m[i].opcode = "dot" /\ Len(m[i].rhs) = 1 /\ m[i].lc = 0 => m[i].lhs[1] = m[i].lhs[2]

\* For every map file and module, and however runs overlap, a kernel called for a dot is given the
\* operands by which it sums the products of the dot: whichever of the four operations it is,
\* whichever operands are transposed and whatever their sizes, except for a matrix that is not
\* square and is transposed before it is multiplied by a vector.
THEOREM SelectorCallsComputeDots ==
  ASSUME SquareTransposes
  PROVE  Spec => []CallsComputeDots
PROOF
<1>1. Init => MadeAsAsked
  BY EmptyMap DEF Init, MadeAsAsked
<1>2. SInv /\ MadeAsAsked /\ [Next]_vars => MadeAsAsked'
  BY NextMadeAsAsked
<1>3. SInv /\ MadeAsAsked => CallsComputeDots
  <2> SUFFICES ASSUME SInv, MadeAsAsked, NEW c \in Compilations, NEW i \in DOMAIN calls[c],
                      Made(c, i), module[c][i].opcode = "dot"
               PROVE  KernelProducts(calls[c][i].op_type, Emitted(calls[c][i])) =
                        DotProducts(module[c][i])
    BY DEF CallsComputeDots
  <2>1. module[c] \in Modules /\ i \in DOMAIN module[c]
    BY DEF SInv, TypeOK, MadeAsAsked
  <2>2. /\ IsDot(module[c][i])
        /\ Len(module[c][i].rhs) = 1 /\ module[c][i].lc = 0 =>
             module[c][i].lhs[1] = module[c][i].lhs[2]
    BY <2>1, ModulesAssumption DEF SquareTransposes
  <2>3. /\ calls[c][i].op_type = Request(module[c][i]).op_type
        /\ calls[c][i].operands = Request(module[c][i]).operands
    BY DEF MadeAsAsked, Asked
  <2> QED
    BY <2>2, <2>3, DotCall
<1> QED
  BY <1>1, <1>2, <1>3, SelectorInvariant, PTL DEF Spec
=============================================================================
