------------------------------ MODULE CpuIdX86 ------------------------------
(***************************************************************************)
(* sd-cpuidx86: what an x86 processor says of itself (sd-cpuidx86.c).      *)
(* The cache descriptors of an Intel processor come from cpuid (2), which  *)
(* has a state of its own: each execution returns the next set of          *)
(* registers, in a cycle, and the low byte of each is how many there are.  *)
(* The program searches the cycle once for each table of caches, and may   *)
(* stop in the middle of it.                                               *)
(***************************************************************************)
EXTENDS Integers, Sequences, FiniteSets

CONSTANTS Machines,  \* the processors to ask
          LongLimit  \* the kilobytes that an unsigned long can count as bytes

ASSUME LimitAssumption == LongLimit \in Nat \ {0}

VARIABLES hw,     \* the processor
          turn,   \* the set cpuid (2) returns next
          pc,
          level,  \* the table that is searched
          left,   \* executions of cpuid (2) left for it
          cpu,    \* the sizes in kilobytes, the line, and the feature flags
          out, rc \* what is printed, and the status

vars == <<hw, turn, pc, level, left, cpu, out, rc>>

Levels == {"l1i", "l1d", "l2", "l3"}
After == [l1i |-> "l1d", l1d |-> "l2", l2 |-> "l3", l3 |-> "none"]

\* Descriptor, size and line of each row.
Table == [
  l1i |-> {<<\h06, 8, 32>>, <<\h08, 16, 32>>, <<\h09, 32, 64>>,
           <<\h15, 16, 32>>, <<\h30, 32, 64>>, <<\h77, 16, 64>>},
  l1d |-> {<<\h0A, 8, 32>>, <<\h0C, 16, 32>>, <<\h0D, 16, 64>>,
           <<\h10, 16, 32>>, <<\h2C, 32, 64>>, <<\h60, 16, 64>>,
           <<\h66, 8, 64>>, <<\h67, 16, 64>>, <<\h68, 32, 64>>},
  l2 |-> {<<\h21, 256, 64>>, <<\h39, 128, 64>>, <<\h3A, 192, 64>>,
          <<\h3B, 128, 64>>, <<\h3C, 256, 64>>, <<\h3D, 384, 64>>,
          <<\h3E, 512, 64>>, <<\h41, 128, 32>>, <<\h42, 256, 32>>,
          <<\h43, 512, 32>>, <<\h44, 1024, 32>>, <<\h45, 2048, 32>>,
          <<\h48, 3072, 64>>, <<\h49, 4096, 64>>, <<\h4E, 6144, 64>>,
          <<\h78, 1024, 64>>, <<\h79, 128, 64>>, <<\h7A, 256, 64>>,
          <<\h7B, 512, 64>>, <<\h7C, 1024, 64>>, <<\h7D, 2048, 64>>,
          <<\h7F, 512, 64>>, <<\h82, 256, 32>>, <<\h83, 512, 32>>,
          <<\h84, 1024, 32>>, <<\h85, 2048, 32>>, <<\h86, 512, 64>>,
          <<\h87, 1024, 64>>},
  l3 |-> {<<\h22, 512, 64>>, <<\h23, 1024, 64>>, <<\h25, 2048, 64>>,
          <<\h29, 4096, 64>>, <<\hD0, 524288, 64>>, <<\hD1, 1048576, 64>>,
          <<\hD2, 2097152, 64>>, <<\hD6, 1048576, 64>>, <<\hD7, 2097152, 64>>,
          <<\hD8, 8388608, 64>>, <<\hDC, 1572864, 64>>, <<\hDD, 3145728, 64>>,
          <<\hDE, 6291456, 64>>, <<\hE2, 2097152, 64>>, <<\hE3, 4194304, 64>>,
          <<\hE4, 8388608, 64>>, <<\hEA, 12582912, 64>>,
          <<\hEB, 18874368, 64>>, <<\hEC, 25165824, 64>>}]

Row(l, d) == CHOOSE r \in Table[l] : r[1] = d
Describes(l, d) == \E r \in Table[l] : r[1] = d

\* A set of registers: eax, ebx, ecx and edx, each from its high byte to its
\* low one; that of eax counts the sets, so few that no table describes it.
Registers == [1 .. 4 -> [1 .. 4 -> 0 .. 255]]
ASSUME MachinesAssumption ==
  \A m \in Machines :
    /\ m.sets \in Seq(Registers)
    /\ \A k \in DOMAIN m.sets : m.sets[k][1][4] = Len(m.sets)
    /\ \A l \in Levels : ~Describes(l, Len(m.sets))

----------------------------------------------------------------------------
(* The processor                                                           *)

\* A register whose high bit is set holds nothing.
Holds(register) == register[1] < \h80
Nothing == <<0, 0, 0, 0>>
NoSets == <<Nothing, Nothing, Nothing, Nothing>>

SetCount == Len(hw.sets)
CurrentSet == IF SetCount = 0 THEN NoSets ELSE hw.sets[turn]
ExecuteCacheLeaf == turn' = IF SetCount = 0 THEN 1 ELSE (turn % SetCount) + 1

Init ==
  /\ hw \in Machines /\ turn \in IF Len(hw.sets) = 0 THEN {1} ELSE 1 .. Len(hw.sets)
  /\ pc = "check" /\ level = "none" /\ left = 0
  /\ cpu = [l1i |-> 0, l1d |-> 0, l2 |-> 0, l3 |-> 0, line |-> 0, flags |-> {}]
  /\ out = 0 /\ rc = 0

Goto(from, to) == pc = from /\ pc' = to
Silent == UNCHANGED <<hw, out, rc>>
Exit(value, status) == pc' = "done" /\ out' = value /\ rc' = status

----------------------------------------------------------------------------
Unsupported ==
  /\ pc = "check" /\ ~hw.cpuid /\ Exit(0, 0)
  /\ UNCHANGED <<hw, turn, level, left, cpu>>

\* The highest parameters, and the vendor.
Identify ==
  /\ hw.cpuid
  /\ Goto("check", CASE hw.vendor = "intel" -> "intel" [] hw.vendor = "amd" -> "amd"
                     [] OTHER -> "common")
  /\ Silent /\ UNCHANGED <<turn, level, left, cpu>>

\* cpu_vendor_intel: cpuid (1); the mask of MMX2 is the one of SSE.
IntelFeatures ==
  /\ Goto("intel", "count") /\ level' = "l1i"
  /\ cpu' = [cpu EXCEPT !.flags =
               @ \union hw.basic \union (IF "sse" \in hw.basic THEN {"mmx2"} ELSE {})]
  /\ Silent /\ UNCHANGED <<turn, left>>

NextLevel ==
  /\ level' = After[level]
  /\ pc' = IF level = "l3" THEN "common" ELSE "count"

\* cpu_cache_size asks how many sets there are.
CountSets ==
  /\ Goto("count", "search") /\ ExecuteCacheLeaf
  /\ left' = CurrentSet[1][4]
  /\ Silent /\ UNCHANGED <<level, cpu>>

\* Seeded fault: a register that holds nothing is searched as well.
ByteOfAll(r, b) == CurrentSet[r][b]

\* The bytes of a set, and the first one that the table describes, in the order
\* of the registers and from high to low.
Byte(r, b) == IF Holds(CurrentSet[r]) THEN CurrentSet[r][b] ELSE 0
Matching == {p \in (1 .. 4) \X (1 .. 4) : Describes(level, Byte(p[1], p[2]))}
Rank(p) == 4 * p[1] + p[2]
FirstMatch == CHOOSE p \in Matching : \A q \in Matching : Rank(p) <= Rank(q)
Match == Row(level, Byte(FirstMatch[1], FirstMatch[2]))

\* Seeded fault: the line of the first cache that is found stays.
SearchSetFirstLine ==
  /\ pc = "search" /\ left > 0 /\ left' = left - 1 /\ ExecuteCacheLeaf
  /\ \/ Matching = {} /\ UNCHANGED <<pc, level, cpu>>
     \/ /\ Matching # {} /\ NextLevel
        /\ cpu' = [cpu EXCEPT ![level] = Match[2], !.line = IF @ = 0 THEN Match[3] ELSE @]
  /\ Silent

\* The next set; the search ends with the first row that is found, and the line
\* is overwritten by it.
SearchSet ==
  /\ pc = "search" /\ left > 0 /\ left' = left - 1 /\ ExecuteCacheLeaf
  /\ \/ Matching = {} /\ UNCHANGED <<pc, level, cpu>>
     \/ /\ Matching # {} /\ NextLevel
        /\ cpu' = [cpu EXCEPT ![level] = Match[2], !.line = Match[3]]
  /\ Silent

SearchEnds ==
  /\ pc = "search" /\ left = 0 /\ NextLevel
  /\ Silent /\ UNCHANGED <<turn, left, cpu>>

\* cpu_vendor_amd: a leaf is asked for when the processor has it.
AmdCaches ==
  /\ Goto("amd", "common")
  /\ cpu' = [cpu EXCEPT
       !.l1i = IF hw.extended >= 5 THEN hw.amd.l1i ELSE @,
       !.l1d = IF hw.extended >= 5 THEN hw.amd.l1d ELSE @,
       !.line = IF hw.extended >= 5 THEN hw.amd.line ELSE @,
       !.l2 = IF hw.extended >= 6 THEN hw.amd.l2 \div 256 ELSE @]
  /\ Silent /\ UNCHANGED <<turn, level, left>>

\* cpuid (0x80000001)
CommonFeatures ==
  /\ Goto("common", "answer")
  /\ cpu' = [cpu EXCEPT !.flags = IF hw.extended >= 1 THEN @ \union hw.more ELSE @]
  /\ Silent /\ UNCHANGED <<turn, level, left>>

Features == {"mmx", "mmx2", "3dnow", "3dnowext", "sse", "sse2", "sse3", "sse4.1",
             "sse4.2"}

AnswerFeature(name) ==
  /\ pc = "answer" /\ Exit(IF name \in cpu.flags THEN 1 ELSE 0, 0)
  /\ level' = "none" /\ UNCHANGED <<hw, turn, left, cpu>>

\* Seeded fault: the instruction cache is printed as the data cache.
AnswerCacheSwapped(l) ==
  /\ pc = "answer" /\ Exit(cpu[IF l = "l1i" THEN "l1d" ELSE l] % LongLimit, 1)
  /\ level' = l /\ UNCHANGED <<hw, turn, left, cpu>>

\* The size in bytes, here in kilobytes: a multiple that does not fit wraps.
\* The status is the truth of what printf returned.
AnswerCache(l) ==
  /\ pc = "answer" /\ Exit(cpu[l] % LongLimit, 1)
  /\ level' = l /\ UNCHANGED <<hw, turn, left, cpu>>

AnswerLine ==
  /\ pc = "answer" /\ Exit(cpu.line, 1)
  /\ level' = "none" /\ UNCHANGED <<hw, turn, left, cpu>>

AnswerUnknown ==
  /\ pc = "answer" /\ Exit(0, 0)
  /\ level' = "none" /\ UNCHANGED <<hw, turn, left, cpu>>

Next ==
  \/ Unsupported \/ Identify \/ IntelFeatures
  \/ CountSets \/ SearchSet \/ SearchEnds
  \/ AmdCaches \/ CommonFeatures
  \/ \E name \in Features : AnswerFeature(name)
  \/ \E l \in Levels : AnswerCache(l)
  \/ AnswerLine \/ AnswerUnknown

Spec == Init /\ [][Next]_vars

----------------------------------------------------------------------------
\* The sizes that an Intel processor reports for a level.
Reported(l) ==
  {Row(l, d)[2] : d \in {e \in \h01 .. \hFF : Describes(l, e)
     /\ \E k \in 1 .. SetCount, r \in 1 .. 4 :
          /\ Holds(hw.sets[k][r])
          /\ \E b \in 1 .. 4 : <<r, b>> # <<1, 4>> /\ hw.sets[k][r][b] = e}}

\* A cache is found if and only if the processor reports one, at whichever set
\* its cycle stood when the search of the table began, and wherever the search
\* of the table before it stopped; the count is not taken for a descriptor.
CachesFound ==
  (hw.vendor = "intel" /\ pc \in {"common", "answer"}) =>
    \A l \in Levels : cpu[l] \in Reported(l) \/ (cpu[l] = 0 /\ Reported(l) = {})

\* The line is that of the last level that was found, of one of its rows.
LineOfLastLevel ==
  (hw.vendor = "intel" /\ pc \in {"common", "answer"}) =>
    \/ cpu.line = 0 /\ \A l \in Levels : cpu[l] = 0
    \/ \E l \in Levels :
         /\ \E r \in Table[l] : r[2] = cpu[l] /\ r[3] = cpu.line
         /\ l = "l1i" => cpu.l1d = 0
         /\ l \in {"l1i", "l1d"} => cpu.l2 = 0
         /\ l \in {"l1i", "l1d", "l2"} => cpu.l3 = 0

\* What is printed for a level of an Intel processor is a size it reports, or 0
\* if it reports none; only a size that no unsigned long can hold in bytes, as
\* rows of the third level are, comes out as something else.
SizePrinted ==
  (hw.vendor = "intel" /\ pc = "done" /\ level # "none") =>
    \/ out \in Reported(level)
    \/ out = 0 /\ Reported(level) = {}
    \/ \E s \in Reported(level) : s >= LongLimit
=============================================================================
