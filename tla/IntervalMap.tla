----------------------------- MODULE IntervalMap -----------------------------
(***************************************************************************)
(* IntervalMap of kernel_selector_ops_rewriter.cc, and the lines of the    *)
(* map file that fill it.  A range is a pair, a key a kernel type with a   *)
(* sequence of ranges, the map a function from keys to symbols.            *)
(*                                                                         *)
(* A line is what parseLine's regular expression finds in it: [regex |->   *)
(* FALSE] when it does not match, and else the kernel's name, the elements *)
(* between the parentheses and the symbol.  An element is the sequence of  *)
(* its parts: <<4>> for 4, <<4, 9>> for 4:9, <<4, Star>> for 4:*, and      *)
(* <<Star>>.  Numbers beyond an int, for which stoi throws, are left out.  *)
(***************************************************************************)
EXTENDS Integers, Sequences, FiniteSets

IntMax == 2147483647
maxRange == <<0, IntMax>>

\* The order of std::pair, and of std::vector for keys of one rank.
RangeBefore(r, s) == r[1] < s[1] \/ (r[1] = s[1] /\ r[2] < s[2])
Before(rs, ss) ==
  \E i \in DOMAIN rs : RangeBefore(rs[i], ss[i]) /\ \A j \in 1..i - 1 : rs[j] = ss[j]

KeyOf(kTy, ranges) == [kTy |-> kTy, ranges |-> ranges]

Insert(map, key, value) ==
  [k \in DOMAIN map \cup {key} |-> IF k = key THEN value ELSE map[k]]

Fits(ranges, keys) ==
  /\ Len(ranges) = Len(keys)
  /\ \A i \in DOMAIN ranges : ranges[i][1] <= keys[i] /\ keys[i] <= ranges[i][2]

\* The kernel type not compared (a mutant of Hits).
HitsAnyKernel(map, kTy, keys) == {key \in DOMAIN map : kTy # "none" /\ Fits(key.ranges, keys)}

Hits(map, kTy, keys) == {key \in DOMAIN map : key.kTy = kTy /\ Fits(key.ranges, keys)}

\* The loop over the map in its order stops at the first hit: the key of what lookup returns,
\* in a set that is empty when there is none.
Lookup(map, kTy, keys) ==
  {key \in Hits(map, kTy, keys) :
     \A other \in Hits(map, kTy, keys) : other = key \/ Before(key.ranges, other.ranges)}

------------------------------------------------------------------------------
(* The map file. *)

KernelType == {"gemv", "gemm", "batch3d", "batch4d", "argmax"}
kernelTypeToSizeRank == [gemv |-> 2, gemm |-> 3, argmax |-> 3, batch3d |-> 4, batch4d |-> 5]

Star == -1
parseInt(part) == IF part = Star THEN IntMax ELSE part
parseRange(element) ==
  IF element = <<Star>> THEN maxRange
  ELSE <<parseInt(element[1]), parseInt(element[Len(element)])>>

IsKernelLine(line) == line.regex /\ line.kernel \in KernelType

\* The ranges under which a line is stored: a lone wildcard stands for one per size.
Ranges(line) ==
  LET sizes == [i \in DOMAIN line.elements |-> parseRange(line.elements[i])]
  IN  IF sizes = <<maxRange>>
      THEN [i \in 1..kernelTypeToSizeRank[line.kernel] |-> maxRange]
      ELSE sizes

IsEntry(line) ==
  IsKernelLine(line) /\ Len(Ranges(line)) = kernelTypeToSizeRank[line.kernel]

\* The number of sizes not compared (a mutant of AfterLine).
AfterLineOfAnyRank(map, line) ==
  IF IsKernelLine(line) THEN Insert(map, KeyOf(line.kernel, Ranges(line)), line.symbol) ELSE map

\* The map after a line that does not end the reading.
AfterLine(map, line) ==
  IF IsEntry(line) THEN Insert(map, KeyOf(line.kernel, Ranges(line)), line.symbol) ELSE map

\* A name that is no kernel's ends the reading.
EndsReading(line) == line.regex /\ line.kernel \notin KernelType
=============================================================================
