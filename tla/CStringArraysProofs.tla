------------------------ MODULE CStringArraysProofs ------------------------
(***************************************************************************)
(* Proofs about CStringArrays, for any strings, any lengths of arrays, any *)
(* Integer'Last and any number of writes by C.                             *)
(***************************************************************************)
EXTENDS CStringArrays, FiniteSetTheorems, WellFoundedInduction, TLAPS

ReadOps == TerminatedOps \union SizedOps

\* What the heap holds.
Blocks == UNION {BlocksOf(n) : n \in Nat}
CStrings == {b \in Blocks : Terminated(b)}

\* An array of pointers into a heap of h blocks.
IsArray(x, h) == \E n \in Nat : x \in [0 .. n - 1 -> 0 .. h]

\* The blocks and their pointers.
Memory ==
  /\ heap \in Seq(CStrings)
  /\ IsArray(arr, Len(heap)) /\ IsArray(entry, Len(heap))
  /\ \A k \in DOMAIN table : table[k] \in 0 .. Len(heap)
  /\ \A s \in source : s \in Seq(AdaStrings)

\* The call and where it stands.
Control ==
  /\ call \in ReadCalls \union BuildCalls \union DeallocateCalls
  /\ pc \in Ended \union {"scan", "check", "core", "convert", "allocate", "fill"}
  /\ size \in 0 .. IntegerLast /\ pos \in Nat /\ writes \in 0 .. MaxWrites
  /\ pc = "scan" => call.op \in TerminatedOps
  /\ pc \in {"check", "core"} => call.op \in {"Index", "Index_Terminated"}
  /\ pc = "convert" => call.op \in {"Convert", "Convert_Terminated"}
  /\ pc \in {"allocate", "fill"} => call.op \in BuildOps
  /\ call.op \in SizedOps => size = call.size
  /\ pc \in {"scan", "check", "core", "allocate"} => out = <<>> /\ pos = 0

\* C only clears entries of the array the call is about.
Kept ==
  (call.op \in ReadOps \/ pc \in {"allocate", "fill"}) =>
    /\ DOMAIN arr = DOMAIN entry
    /\ \A k \in DOMAIN arr : arr[k] # NULL => arr[k] = entry[k]
    /\ writes = 0 => arr = entry

\* No null pointer was among the first k entries when the call was made.
Passed(k) == \A j \in 0 .. k - 1 : j \in DOMAIN entry /\ entry[j] # NULL

\* What a read knows of the size it works with.
Sized ==
  /\ call.op \in TerminatedOps => Passed(size)
  /\ (pc \in {"check", "core", "convert", "returned"}
      /\ call.op \in TerminatedOps) => size \in DOMAIN arr /\ arr[size] = NULL
  /\ pc = "core" => call.index < size

\* The heap when the table was allocated: every string since is in the table.
Base == Len(heap) - (pos - First)

\* A table under construction.
Filling ==
  pc = "fill" =>
    /\ Last >= First /\ pos \in First .. TableLast /\ Base \in Nat
    /\ DOMAIN table = First .. TableLast
    /\ \A k \in DOMAIN arr : arr[k] <= Base
    /\ \A k \in DOMAIN entry : entry[k] <= Base
    /\ \A k \in First .. pos - 1 : table[k] = Base + (k - First) + 1
    /\ \A k \in pos .. TableLast : table[k] = NULL
    /\ \A k \in First .. pos - 1 :
         heap[table[k]] = ToC(call.strings.elems[k - First + 1])

\* x is the array Convert_To_C_Terminated makes of s in heap h.
IsTable(x, s, h) ==
  /\ DOMAIN x = 0 .. Len(s) /\ x[Len(s)] = NULL
  /\ \A k \in 0 .. Len(s) - 1 : x[k] # NULL /\ h[x[k]] = ToC(s[k + 1])

Sourced == \A s \in source : IsTable(arr, s, heap)

\* What Convert has put in its result so far.
Converted ==
  (pc = "convert" /\ writes = 0) =>
    pos <= size /\ out = [j \in 1 .. pos |-> EntryText(j - 1)]

IInv == /\ Memory /\ Control /\ Kept /\ Sized /\ Filling /\ Sourced
        /\ Converted /\ NoOverrun /\ ReadsExact /\ TerminatedTable
-----------------------------------------------------------------------------
(* Blocks, arrays and calls.                                               *)

AllOps == ReadOps \union BuildOps \union DeallocateOps

\* What a call is made of.
LEMMA CallParts ==
  ASSUME NEW c \in ReadCalls \union BuildCalls \union DeallocateCalls
  PROVE  /\ c.op \in AllOps
         /\ c.size \in 0 .. IntegerLast /\ c.index \in 0 .. IntegerLast
         /\ c.strings.first \in 0 .. IntegerLast
         /\ c.strings.elems \in Seq(AdaStrings)
         /\ c.strings.first + Len(c.strings.elems) <= IntegerLast + 1
         /\ c.op \in BuildOps \union DeallocateOps => c.size = 0
         /\ c.op \in TerminatedOps => c.size = 0
  <1> USE BoundsAssumption
  <1>0. /\ NoStrings.first = 0 /\ NoStrings.elems = <<>>
        /\ NoStrings.elems \in Seq(AdaStrings) /\ Len(NoStrings.elems) = 0
    BY DEF NoStrings
  <1>1. CASE c \in ReadCalls
    <2>1. /\ c.op \in ReadOps /\ c.strings = NoStrings
          /\ c.size \in 0 .. IntegerLast /\ c.index \in 0 .. IntegerLast
          /\ c.op \in TerminatedOps => c.size = 0
      BY <1>1 DEF ReadCalls, ReadOps
    <2>2. c.strings.first = 0 /\ c.strings.elems \in Seq(AdaStrings)
          /\ Len(c.strings.elems) = 0
      BY <1>0, <2>1
    <2>3. c.strings.first \in 0 .. IntegerLast
          /\ c.strings.first + Len(c.strings.elems) <= IntegerLast + 1
      BY <2>2
    <2> QED BY <2>1, <2>2, <2>3 DEF AllOps, ReadOps, TerminatedOps, SizedOps, BuildOps,
                              DeallocateOps
  <1>2. CASE c \in BuildCalls
    <2>0. c.op \in BuildOps /\ c.size = 0 /\ c.index = 0 /\ c.strings \in AdaArrays
      BY <1>2 DEF BuildCalls
    <2>1. PICK n \in 0 .. MaxLen : c.strings.elems \in [1 .. n -> AdaStrings]
      BY <2>0 DEF AdaArrays
    <2>2. /\ c.strings.first \in 0 .. IntegerLast
          /\ c.strings.first + Len(c.strings.elems) <= IntegerLast + 1
      BY <2>0 DEF AdaArrays
    <2>3. c.strings.elems \in Seq(AdaStrings)
      BY <2>1
    <2> QED BY <2>0, <2>2, <2>3 DEF AllOps
  <1>3. CASE c \in DeallocateCalls
    <2>1. /\ c.op \in DeallocateOps /\ c.strings = NoStrings
          /\ c.size = 0 /\ c.index = 0
      BY <1>3 DEF DeallocateCalls
    <2>2. c.strings.first = 0 /\ c.strings.elems \in Seq(AdaStrings)
          /\ Len(c.strings.elems) = 0
      BY <1>0, <2>1
    <2>3. c.strings.first \in 0 .. IntegerLast
          /\ c.strings.first + Len(c.strings.elems) <= IntegerLast + 1
      BY <2>2
    <2> QED BY <2>1, <2>2, <2>3 DEF AllOps
  <1> QED BY <1>1, <1>2, <1>3

\* To_C makes a terminated block.
LEMMA ToCIsCString ==
  ASSUME NEW s \in AdaStrings
  PROVE  ToC(s) \in CStrings
  <1>1. s \in Seq(Cells)
    BY StringsAssumption
  <1>2. ToC(s) \in BlocksOf(Len(s) + 1)
    BY <1>1 DEF ToC, BlocksOf, Cells
  <1>3. ToC(s)[Len(s)] = Nul /\ Len(s) \in DOMAIN ToC(s)
    BY <1>1 DEF ToC
  <1> QED BY <1>1, <1>2, <1>3 DEF CStrings, Blocks, Terminated

\* Writing over a character leaves a terminated block.
LEMMA CStringWrite ==
  ASSUME NEW b \in CStrings, NEW k \in DOMAIN b, b[k] # Nul, NEW c \in Cells
  PROVE  [b EXCEPT ![k] = c] \in CStrings
  <1>1. PICK n \in Nat : b \in [0 .. n - 1 -> Cells]
    BY DEF CStrings, Blocks, BlocksOf
  <1>2. PICK j \in DOMAIN b : b[j] = Nul
    BY DEF CStrings, Terminated
  <1>3. [b EXCEPT ![k] = c] \in BlocksOf(n)
    BY <1>1 DEF BlocksOf
  <1>4. [b EXCEPT ![k] = c][j] = Nul /\ j \in DOMAIN [b EXCEPT ![k] = c]
    BY <1>1, <1>2
  <1> QED BY <1>3, <1>4 DEF CStrings, Blocks, Terminated

\* An array stays one in a larger heap.
LEMMA ArrayGrows ==
  ASSUME NEW x, NEW h \in Nat, NEW g \in Nat, h <= g, IsArray(x, h)
  PROVE  IsArray(x, g)
  BY DEF IsArray

\* The entries of an array are addresses.
LEMMA ArrayEntries ==
  ASSUME NEW x, NEW h \in Nat, IsArray(x, h)
  PROVE  \A k \in DOMAIN x : x[k] \in 0 .. h
  BY DEF IsArray

\* A set of naturals has a least element: of the intervals that end in it one
\* is minimal for inclusion.
LEMMA LeastElement ==
  ASSUME NEW S \in SUBSET Nat, S # {}
  PROVE  \E k \in S : \A j \in S : k <= j
  <1> DEFINE T == {0 .. k : k \in S}
  <1>1. T \subseteq FiniteSubsetsOf(Nat)
    <2>1. \A k \in S : IsFiniteSet(0 .. k)
      BY FS_Interval
    <2> QED BY <2>1 DEF FiniteSubsetsOf
  <1>2. PICK m \in S : 0 .. m \in T
    OBVIOUS
  <1>3. PICK t \in T : \A u \in T : ~(<<u, t>> \in StrictSubsetOrdering(Nat))
    <2> HIDE DEF T
    <2> QED BY <1>1, <1>2, FS_StrictSubsetOrderingWellFounded, WFMin, Zenon
  <1>4. PICK k \in S : t = 0 .. k
    OBVIOUS
  <1>5. ASSUME NEW j \in S, j < k PROVE FALSE
    <2>1. 0 .. j \in T
      OBVIOUS
    <2>2. /\ 0 .. j \subseteq 0 .. k /\ 0 .. j # 0 .. k
          /\ 0 .. j \subseteq Nat /\ 0 .. k \subseteq Nat
      BY <1>5
    <2>3. <<0 .. j, t>> \in StrictSubsetOrdering(Nat)
      BY <1>4, <2>2 DEF StrictSubsetOrdering
    <2> QED BY <1>3, <2>1, <2>3
  <1> QED BY <1>5

\* An array with a null pointer has a first one.
LEMMA FirstNullExists ==
  ASSUME NEW x, NEW h \in Nat, IsArray(x, h),
         NEW m \in DOMAIN x, x[m] = NULL
  PROVE  \E k \in 0 .. m : IsFirstNull(x, k)
  <1>1. PICK n \in Nat : x \in [0 .. n - 1 -> 0 .. h]
    BY DEF IsArray
  <1> DEFINE S == {k \in 0 .. n - 1 : x[k] = NULL}
  <1>2. S \in SUBSET Nat /\ m \in S
    BY <1>1
  <1>3. PICK k \in S : \A j \in S : k <= j
    <2> HIDE DEF S
    <2> QED BY <1>2, LeastElement
  <1>4. \A j \in 0 .. k - 1 : x[j] # NULL
    BY <1>1, <1>3
  <1> QED BY <1>1, <1>2, <1>3, <1>4 DEF IsFirstNull

-----------------------------------------------------------------------------
(* The initial state.                                                      *)

LEMMA InitIInv == Init => IInv
  <1> SUFFICES ASSUME Init PROVE IInv
    OBVIOUS
  <1> USE BoundsAssumption
  <1>0. /\ call.op = "Deallocate" /\ pc = "idle" /\ source = {} /\ size = 0
        /\ pos = 0 /\ writes = 0 /\ out = <<>> /\ table = <<>> /\ entry = arr
        /\ call \in DeallocateCalls
    BY DEF Init, DeallocateCalls, DeallocateOps, NoStrings
  <1>1. Memory
    <2>1. Given \in Seq(AdaStrings) /\ Len(Given) \in Nat
      BY StringsAssumption
    <2>2. \A k \in 1 .. Len(Given) : ToC(Given[k]) \in CStrings
      BY <2>1, ToCIsCString
    <2>3. heap = [k \in 1 .. Len(Given) |-> ToC(Given[k])]
      BY DEF Init
    <2>4. heap \in Seq(CStrings) /\ Len(heap) = Len(Given)
      BY <2>1, <2>2, <2>3
    <2>5. PICK n \in 0 .. MaxLen + 1 : arr \in [0 .. n - 1 -> 0 .. Len(Given)]
      BY DEF Init
    <2>6. IsArray(arr, Len(heap))
      BY <2>4, <2>5 DEF IsArray
    <2> QED BY <1>0, <2>4, <2>6 DEF Memory
  <1>2. Control
    BY <1>0 DEF Control, Ended, TerminatedOps, SizedOps
  <1>3. Kept BY <1>0 DEF Kept
  <1>4. Sized BY <1>0 DEF Sized, TerminatedOps
  <1>5. Filling BY <1>0 DEF Filling
  <1>6. Sourced BY <1>0 DEF Sourced
  <1>7. Converted BY <1>0 DEF Converted
  <1>8. NoOverrun BY <1>0 DEF NoOverrun
  <1>9. ReadsExact BY <1>0 DEF ReadsExact, TerminatedOps, SizedOps
  <1>10. TerminatedTable BY <1>0 DEF TerminatedTable
  <1> QED BY <1>1, <1>2, <1>3, <1>4, <1>5, <1>6, <1>7, <1>8, <1>9, <1>10
      DEF IInv

-----------------------------------------------------------------------------
(* Reading.                                                                *)

\* A step of a read changes neither the memory nor the call.
Quiet == UNCHANGED <<heap, arr, entry, source, call, table, writes>>

LEMMA ReadQuiet == Read => Quiet
  BY DEF Read, Quiet, Goto, ScanEntry, ScanNull, CheckIndex, Index, IndexCore,
         ConvertEntry, ConvertDone, Overrun

\* What is said of the entries of an array stays said of it.
LEMMA QuietEntries ==
  ASSUME Quiet
  PROVE  /\ \A k : EntryText(k)' = EntryText(k)
         /\ \A k : TooLong(k)' <=> TooLong(k)
         /\ First' = First /\ Legal(entry, call)' = Legal(entry, call)
  BY DEF Quiet, EntryText, TooLong, First, Legal

\* How a step of a read moves.
LEMMA ReadMoves ==
  ASSUME Control, Read
  PROVE  /\ pc \in {"scan", "check", "core", "convert"} /\ call.op \in ReadOps
         /\ pc' \notin {"allocate", "fill", "idle", "deallocated"}
  <1> USE DEF Control, ReadOps, TerminatedOps, SizedOps, Goto
  <1>1. CASE ScanEntry BY <1>1 DEF ScanEntry
  <1>2. CASE ScanNull BY <1>2 DEF ScanNull
  <1>3. CASE CheckIndex BY <1>3 DEF CheckIndex
  <1>4. CASE Index BY <1>4 DEF Index, IndexCore
  <1>5. CASE ConvertEntry BY <1>5 DEF ConvertEntry, MoreToConvert, IndexCore
  <1>6. CASE ConvertDone BY <1>6 DEF ConvertDone
  <1>7. CASE Overrun BY <1>7 DEF Overrun, MoreToConvert
  <1> QED BY <1>1, <1>2, <1>3, <1>4, <1>5, <1>6, <1>7 DEF Read

LEMMA ReadControl == Control /\ Read => Control'
  <1> SUFFICES ASSUME Control, Read PROVE Control'
    OBVIOUS
  <1>0. Quiet
    BY ReadQuiet
  <1>c. call.op \in AllOps /\ call.size \in 0 .. IntegerLast
        /\ call.index \in 0 .. IntegerLast
    BY CallParts DEF Control
  <1> USE <1>0, <1>c, BoundsAssumption
      DEF Control, Quiet, AllOps, ReadOps, TerminatedOps, SizedOps, BuildOps,
          Ended, Goto
  <1>1. CASE ScanEntry BY <1>1 DEF ScanEntry
  <1>2. CASE ScanNull BY <1>2 DEF ScanNull
  <1>3. CASE CheckIndex BY <1>3 DEF CheckIndex
  <1>4. CASE Index BY <1>4 DEF Index, IndexCore
  <1>5. CASE ConvertEntry BY <1>5 DEF ConvertEntry, MoreToConvert, IndexCore
  <1>6. CASE ConvertDone BY <1>6 DEF ConvertDone
  <1>7. CASE Overrun BY <1>7 DEF Overrun
  <1> QED BY <1>1, <1>2, <1>3, <1>4, <1>5, <1>6, <1>7 DEF Read

LEMMA ReadSized == Memory /\ Control /\ Kept /\ Sized /\ Read => Sized'
  <1> SUFFICES ASSUME Memory, Control, Kept, Sized, Read PROVE Sized'
    OBVIOUS
  <1>0. Quiet
    BY ReadQuiet
  <1>c. call.op \in AllOps /\ call.size \in 0 .. IntegerLast
        /\ call.index \in 0 .. IntegerLast
    BY CallParts DEF Control
  <1> USE <1>0, <1>c, BoundsAssumption
      DEF Control, Sized, Passed, Quiet, AllOps, ReadOps, TerminatedOps, SizedOps, BuildOps,
          Goto
  <1>1. CASE ScanEntry
    <2>1. size \in DOMAIN entry /\ entry[size] # NULL
      BY <1>1 DEF ScanEntry, Kept
    <2> QED BY <1>1, <2>1 DEF ScanEntry
  <1>2. CASE ScanNull BY <1>2 DEF ScanNull
  <1>3. CASE CheckIndex BY <1>3 DEF CheckIndex
  <1>4. CASE Index BY <1>4 DEF Index, IndexCore
  <1>5. CASE ConvertEntry BY <1>5 DEF ConvertEntry, MoreToConvert, IndexCore
  <1>6. CASE ConvertDone BY <1>6 DEF ConvertDone
  <1>7. CASE Overrun BY <1>7 DEF Overrun
  <1> QED BY <1>1, <1>2, <1>3, <1>4, <1>5, <1>6, <1>7 DEF Read

\* A read outside the array needs a caller that broke the types' contract.
LEMMA ReadNoOverrun ==
  IInv /\ Read => NoOverrun'
  <1> SUFFICES ASSUME IInv, Read, pc' = "fault", Legal(entry, call)
               PROVE  FALSE
    BY ReadQuiet, QuietEntries DEF NoOverrun
  <1>0. Quiet /\ call.op \in ReadOps /\ pc # "fault"
    BY ReadQuiet, ReadMoves DEF IInv
  <1>c. call.op \in AllOps /\ call.size \in 0 .. IntegerLast
        /\ call.index \in 0 .. IntegerLast
    BY CallParts DEF IInv, Control
  <1>1. Overrun
    BY <1>0 DEF Read, Goto, ScanEntry, ScanNull, CheckIndex, Index, IndexCore,
                ConvertEntry, ConvertDone, IInv, Control, TerminatedOps
  <1>2. PICK n \in Nat : DOMAIN arr = 0 .. n - 1
    BY DEF IInv, Memory, IsArray
  <1>3. DOMAIN entry = DOMAIN arr
    BY <1>0 DEF IInv, Kept
  <1> USE BoundsAssumption DEF IInv, Control
  <1>4. CASE pc = "scan" /\ size \notin DOMAIN arr
    <2>1. call.op \in TerminatedOps /\ Passed(size)
      BY <1>4 DEF Sized
    <2>2. PICK k \in DOMAIN entry : entry[k] = NULL
      BY <2>1 DEF Legal, TerminatedOps, SizedOps, BuildOps, DeallocateOps
    <2> QED BY <1>2, <1>3, <1>4, <2>1, <2>2 DEF Passed
  <1>5. CASE pc = "core" /\ call.index \notin DOMAIN arr
    <2>1. call.index < size
      BY <1>5 DEF Sized
    <2>2. CASE call.op \in TerminatedOps
      BY <1>2, <1>5, <2>1, <2>2, <1>c DEF Sized
    <2>3. CASE call.op \in SizedOps
      BY <1>2, <1>3, <1>5, <2>1, <2>3, <1>c
         DEF Legal, TerminatedOps, SizedOps, BuildOps, DeallocateOps
    <2> QED BY <1>0, <2>2, <2>3 DEF ReadOps
  <1>6. CASE MoreToConvert /\ pos \notin DOMAIN arr
    <2>1. pc = "convert" /\ pos < size
      BY <1>6 DEF MoreToConvert
    <2>2. CASE call.op \in TerminatedOps
      BY <1>2, <1>6, <2>1, <2>2 DEF Sized
    <2>3. CASE call.op \in SizedOps
      BY <1>2, <1>3, <1>6, <2>1, <2>3, <1>c
         DEF Legal, TerminatedOps, SizedOps, BuildOps, DeallocateOps
    <2> QED BY <1>0, <2>2, <2>3 DEF ReadOps
  <1> QED BY <1>1, <1>4, <1>5, <1>6 DEF Overrun

\* One more entry makes the next result.
LEMMA ResultGrows ==
  ASSUME NEW k \in Nat, NEW x, x = [j \in 1 .. k |-> EntryText(j - 1)]
  PROVE  Append(x, EntryText(k)) = [j \in 1 .. k + 1 |-> EntryText(j - 1)]
  <1> DEFINE S == {EntryText(j) : j \in Nat}
  <1>1. x \in Seq(S) /\ Len(x) = k
    OBVIOUS
  <1> QED BY <1>1

LEMMA ReadConverted == IInv /\ Read => Converted'
  <1> SUFFICES ASSUME IInv, Read, pc' = "convert", writes' = 0
               PROVE  (pos <= size /\ out = [j \in 1 .. pos |-> EntryText(j - 1)])'
    BY DEF Converted
  <1>0. Quiet /\ \A k : EntryText(k)' = EntryText(k)
    BY ReadQuiet, QuietEntries
  <1> USE BoundsAssumption DEF IInv, Control
  <1>1. CASE ScanNull
    <2>1. pos' = 0 /\ out' = <<>> /\ size' \in Nat
      BY <1>1 DEF ScanNull, Goto
    <2> QED BY <2>1
  <1>2. CASE ConvertEntry
    <2>1. /\ pos < size /\ pos' = pos + 1 /\ size' = size
          /\ out' = Append(out, EntryText(pos))
          /\ out = [j \in 1 .. pos |-> EntryText(j - 1)]
      BY <1>0, <1>2 DEF ConvertEntry, MoreToConvert, IndexCore, Goto, Quiet, Converted
    <2>2. out' = [j \in 1 .. pos + 1 |-> EntryText(j - 1)]
      BY <2>1, ResultGrows
    <2> QED BY <1>0, <2>1, <2>2
  <1>3. pc = "scan" \/ pc = "convert"
    BY DEF Read, Goto, ScanEntry, ScanNull, CheckIndex, Index, IndexCore,
           ConvertEntry, MoreToConvert, ConvertDone, Overrun
  <1> QED BY <1>1, <1>2, <1>3
      DEF Read, Goto, ScanEntry, CheckIndex, Index, ConvertDone, Overrun

\* A read of undisturbed memory returns what its declaration says.
LEMMA ReadReadsExact == IInv /\ Read => ReadsExact'
  <1> DEFINE Bad(k) == Overflows(k) \/ TooLong(k)
             isIndex == call.op \in {"Index", "Index_Terminated"}
  <1>0. ASSUME IInv, Read
        PROVE  /\ Quiet /\ call' = call
               /\ \A k : EntryText(k)' = EntryText(k)
               /\ \A k : TooLong(k)' <=> TooLong(k)
    BY <1>0, ReadQuiet, QuietEntries DEF Quiet
  <1> SUFFICES ASSUME IInv, Read, writes = 0
               PROVE  /\ (pc' = "returned" /\ isIndex) =>
                           call.index < size' /\ out' = <<EntryText(call.index)>>
                      /\ (pc' = "returned"
                          /\ call.op \in {"Convert", "Convert_Terminated"}) =>
                           out' = [j \in 1 .. size' |-> EntryText(j - 1)]
                      /\ (pc' = "Constraint_Error" /\ isIndex) =>
                           call.index >= size' \/ Bad(call.index) \/ TooMany'
                      /\ (pc' = "Constraint_Error" /\ ~isIndex) =>
                           TooMany' \/ \E k \in 0 .. size' - 1 : Bad(k)
    <2> SUFFICES ASSUME IInv, Read, writes' = 0 PROVE ReadsExact'
      BY DEF ReadsExact
    <2>1. writes = 0
      BY <1>0 DEF Quiet
    <2> QED BY <1>0, <2>1 DEF ReadsExact, Overflows
  <1>c. call.op \in AllOps /\ call.size \in 0 .. IntegerLast
        /\ call.index \in 0 .. IntegerLast
    BY CallParts DEF IInv, Control
  <1> HIDE DEF Bad
  <1> USE <1>c, BoundsAssumption DEF Goto
  <1>1. CASE ScanEntry
    <2>1. CASE size = IntegerLast
      <3>1. TooMany'
        BY <1>0, <1>1, <2>1
           DEF ScanEntry, TooMany, Quiet, IInv, Control
      <3> QED BY <1>1, <2>1, <3>1 DEF ScanEntry
    <2> QED BY <1>1, <2>1 DEF ScanEntry
  <1>2. CASE ScanNull
    BY <1>2 DEF ScanNull, IInv, Control, TerminatedOps
  <1>3. CASE CheckIndex
    BY <1>3 DEF CheckIndex, IInv, Control
  <1>4. CASE Index
    BY <1>4 DEF Index, IndexCore, IInv, Control, Sized, Bad
  <1>5. CASE ConvertEntry
    BY <1>5 DEF ConvertEntry, MoreToConvert, IndexCore, IInv, Control, Bad
  <1>6. CASE ConvertDone
    <2>1. pos <= size /\ out = [j \in 1 .. pos |-> EntryText(j - 1)]
          /\ pos = size
      BY <1>6 DEF ConvertDone, MoreToConvert, IInv, Converted, Control
    <2> QED BY <1>6, <2>1 DEF ConvertDone, IInv, Control
  <1>7. CASE Overrun
    BY <1>7 DEF Overrun
  <1> QED BY <1>1, <1>2, <1>3, <1>4, <1>5, <1>6, <1>7 DEF Read

LEMMA ReadStep == IInv /\ Read => IInv'
  <1> SUFFICES ASSUME IInv, Read PROVE IInv'
    OBVIOUS
  <1>0. Quiet /\ call.op \in ReadOps /\ pc' \notin {"allocate", "fill"}
    BY ReadQuiet, ReadMoves DEF IInv
  <1>1. Memory'
    BY <1>0 DEF IInv, Memory, Quiet
  <1>2. Control' /\ Sized'
    BY ReadControl, ReadSized DEF IInv
  <1>3. Kept'
    BY <1>0 DEF IInv, Kept, Quiet, ReadOps
  <1>4. Filling'
    BY <1>0 DEF Filling
  <1>5. Sourced'
    BY <1>0 DEF IInv, Sourced, Quiet
  <1>6. TerminatedTable'
    BY <1>0 DEF TerminatedTable, Quiet, ReadOps, TerminatedOps, SizedOps
  <1> QED BY <1>1, <1>2, <1>3, <1>4, <1>5, <1>6, ReadConverted, ReadNoOverrun,
             ReadReadsExact
      DEF IInv

-----------------------------------------------------------------------------
(* Beginning a call.                                                       *)

\* A call begins knowing nothing yet.
LEMMA BeginStep ==
  ASSUME IInv, NEW c \in ReadCalls \union BuildCalls \union DeallocateCalls,
         NEW next, Begin(c, next), source' = source \/ source' = {},
         \/ next = "scan" /\ c.op \in TerminatedOps
         \/ next = "check" /\ c.op = "Index"
         \/ next = "convert" /\ c.op = "Convert"
         \/ next = "allocate" /\ c.op \in BuildOps
         \/ next = "deallocated" /\ c.op \in DeallocateOps
  PROVE  IInv'
  <1>0. /\ call' = c /\ pc' = next /\ entry' = arr /\ size' = c.size
        /\ table' = <<>> /\ pos' = 0 /\ out' = <<>> /\ writes' = 0
        /\ heap' = heap /\ arr' = arr
    BY DEF Begin
  <1>c. /\ c.op \in AllOps /\ c.size \in 0 .. IntegerLast
        /\ c.op \in BuildOps \union DeallocateOps => c.size = 0
        /\ c.op \in TerminatedOps => c.size = 0
    BY CallParts
  <1> USE <1>0, BoundsAssumption
      DEF AllOps, ReadOps, TerminatedOps, SizedOps, BuildOps, DeallocateOps
  <1>1. Memory'
    BY DEF IInv, Memory
  <1>2. Control'
    BY <1>c DEF Control, Ended
  <1>3. Kept'
    BY DEF Kept
  <1>4. Sized'
    BY <1>c DEF Sized, Passed
  <1>5. Filling'
    BY DEF Filling
  <1>6. Sourced'
    BY DEF IInv, Sourced
  <1>7. Converted'
    <2> SUFFICES ASSUME pc' = "convert"
                 PROVE  0 <= c.size /\ <<>> = [j \in 1 .. 0 |-> EntryText(j - 1)']
      BY DEF Converted
    <2> QED BY <1>c
  <1>8. NoOverrun'
    BY DEF NoOverrun
  <1>9. ReadsExact'
    BY DEF ReadsExact
  <1>10. TerminatedTable'
    BY DEF TerminatedTable
  <1> QED BY <1>1, <1>2, <1>3, <1>4, <1>5, <1>6, <1>7, <1>8, <1>9, <1>10
      DEF IInv

LEMMA CallStep ==
  ASSUME IInv,
         \/ \E c \in ReadCalls : CallRead(c)
         \/ \E c \in BuildCalls : CallBuild(c)
         \/ \E c \in DeallocateCalls : CallDeallocate(c)
  PROVE  IInv'
  <1>1. CASE \E c \in ReadCalls : CallRead(c)
    <2>1. PICK c \in ReadCalls : CallRead(c)
      BY <1>1
    <2>2. c.op \in ReadOps
      BY DEF ReadCalls, ReadOps
    <2>3. CASE c.op \in TerminatedOps
      BY <2>1, <2>3, BeginStep DEF CallRead
    <2>4. CASE c.op = "Index"
      BY <2>1, <2>4, BeginStep DEF CallRead, TerminatedOps
    <2>5. CASE c.op = "Convert"
      BY <2>1, <2>5, BeginStep DEF CallRead, TerminatedOps
    <2> QED BY <2>2, <2>3, <2>4, <2>5 DEF ReadOps, SizedOps
  <1>2. CASE \E c \in BuildCalls : CallBuild(c)
    <2>1. PICK c \in BuildCalls : CallBuild(c)
      BY <1>2
    <2> QED BY <2>1, BeginStep DEF CallBuild, BuildCalls
  <1>3. CASE \E c \in DeallocateCalls : CallDeallocate(c)
    <2>1. PICK c \in DeallocateCalls : CallDeallocate(c)
      BY <1>3
    <2> QED BY <2>1, BeginStep DEF CallDeallocate, DeallocateCalls
  <1> QED BY <1>1, <1>2, <1>3

-----------------------------------------------------------------------------
(* Building.                                                               *)

\* No read is in progress or has ended, so only the table matters.
LEMMA NotReading ==
  ASSUME call'.op \in BuildOps, pc' \notin {"fault", "core"}
  PROVE  Sized' /\ NoOverrun' /\ ReadsExact' /\ (pc' # "convert" => Converted')
  BY DEF Sized, NoOverrun, ReadsExact, Converted, BuildOps, TerminatedOps, SizedOps

LEMMA AllocateStep == IInv /\ (AllocateTable \/ AllocationFails) => IInv'
  <1> SUFFICES ASSUME IInv, AllocateTable \/ AllocationFails PROVE IInv'
    OBVIOUS
  <1>c. /\ First \in 0 .. IntegerLast /\ call.strings.elems \in Seq(AdaStrings)
        /\ call.op \in AllOps
    BY CallParts DEF IInv, Control, First
  <1>d. Len(call.strings.elems) \in Nat /\ Last \in Int /\ TableLast \in Int
        /\ Last <= TableLast
    BY <1>c DEF Last, TableLast
  <1>0. /\ UNCHANGED <<heap, arr, entry, source, call, size, out, writes>>
        /\ call.op \in BuildOps
        /\ pc' = "fill" => AllocateTable /\ pc = "allocate"
        /\ pc' # "fill" => table' = table /\ pos' = pos
        /\ pc' \in {"fill", "Length_Error", "Constraint_Error", "Storage_Error"}
    BY DEF AllocateTable, AllocationFails, Goto, IInv, Control
  <1>1. pc' = "fill" =>
          /\ Last >= First /\ TableLast <= IntegerLast /\ pos' = First
          /\ table' = [k \in First .. TableLast |-> NULL]
    BY <1>0 DEF AllocateTable, Goto
  <1> USE <1>0
  <1>2. Memory'
    <2>1. \A k \in DOMAIN table' : table'[k] \in 0 .. Len(heap)
      <3>1. Len(heap) \in Nat /\ \A k \in DOMAIN table : table[k] \in 0 .. Len(heap)
        BY DEF IInv, Memory
      <3>2. CASE pc' = "fill"
        BY <1>1, <3>1, <3>2 DEF NULL
      <3> QED BY <3>1, <3>2
    <2> QED BY <2>1 DEF IInv, Memory
  <1>3. Control'
    BY <1>1, <1>c DEF IInv, Control, Ended, BuildOps, TerminatedOps, SizedOps
  <1>4. Kept'
    BY DEF IInv, Kept, BuildOps, ReadOps, TerminatedOps, SizedOps, AllocateTable,
           AllocationFails
  <1>5. Sized' /\ NoOverrun' /\ ReadsExact' /\ Converted'
    BY NotReading
  <1>6. Filling'
    <2> SUFFICES ASSUME pc' = "fill" PROVE Filling'
      BY DEF Filling
    <2>1. First' = First /\ Last' = Last /\ TableLast' = TableLast
      BY DEF First, Last, TableLast
    <2>2. Base' = Len(heap) /\ Len(heap) \in Nat
      BY <1>1, <1>c, <2>1 DEF Base, IInv, Memory
    <2>3. \A k \in DOMAIN arr : arr[k] <= Len(heap)
      BY ArrayEntries DEF IInv, Memory
    <2>4. \A k \in DOMAIN entry : entry[k] <= Len(heap)
      BY ArrayEntries DEF IInv, Memory
    <2> QED BY <1>1, <1>c, <1>d, <2>1, <2>2, <2>3, <2>4 DEF Filling
  <1>7. Sourced'
    BY DEF IInv, Sourced
  <1>8. TerminatedTable'
    BY DEF TerminatedTable
  <1> QED BY <1>2, <1>3, <1>4, <1>5, <1>6, <1>7, <1>8 DEF IInv

\* A string for the table goes to a new address.
LEMMA FillEntryStep == IInv /\ FillEntry => IInv'
  <1> SUFFICES ASSUME IInv, FillEntry PROVE IInv'
    OBVIOUS
  <1> DEFINE elem == call.strings.elems[pos - First + 1]
  <1>c. /\ First \in Nat /\ call.strings.elems \in Seq(AdaStrings)
        /\ Len(call.strings.elems) \in Nat
    BY CallParts DEF IInv, Control, First
  <1>0. /\ pc = "fill" /\ pc' = "fill" /\ call.op \in BuildOps
        /\ UNCHANGED <<arr, entry, source, call, size, out, writes>>
        /\ heap' = Append(heap, ToC(elem)) /\ pos' = pos + 1
        /\ table' = [table EXCEPT ![pos] = Len(heap) + 1]
    BY DEF FillEntry, IInv, Control
  <1>1. /\ Last >= First /\ pos \in First .. TableLast - 1 /\ TableLast \in Int
        /\ Last = First + Len(call.strings.elems) - 1 /\ TableLast <= Last + 1
    <2>1. Last = First + Len(call.strings.elems) - 1 /\ Last \in Int
      BY <1>c DEF Last
    <2>2. TableLast \in Int /\ TableLast <= Last + 1
      BY <2>1 DEF TableLast
    <2>3. Last >= First /\ pos \in First .. TableLast /\ pos <= TableLast - 1
      BY <1>0 DEF FillEntry, FillLast, IInv, Filling
    <2> QED BY <1>c, <2>1, <2>2, <2>3
  <1>2. elem \in AdaStrings
    BY <1>c, <1>1
  <1>3. heap \in Seq(CStrings) /\ ToC(elem) \in CStrings /\ Len(heap) \in Nat
    BY <1>2, ToCIsCString DEF IInv, Memory
  <1> HIDE DEF elem
  <1>4. heap' \in Seq(CStrings) /\ Len(heap') = Len(heap) + 1
        /\ heap'[Len(heap) + 1] = ToC(elem)
        /\ \A k \in 1 .. Len(heap) : heap'[k] = heap[k]
    BY <1>0, <1>3
  <1>f. First' = First /\ Last' = Last /\ TableLast' = TableLast
    BY <1>0 DEF First, Last, TableLast
  <1>5. Memory'
    <2>1. IsArray(arr, Len(heap) + 1) /\ IsArray(entry, Len(heap) + 1)
      BY <1>3, ArrayGrows DEF IInv, Memory
    <2>2. \A k \in DOMAIN table' : table'[k] \in 0 .. Len(heap) + 1
      BY <1>0, <1>3 DEF IInv, Memory
    <2> QED BY <1>0, <1>4, <2>1, <2>2 DEF IInv, Memory
  <1>6. Control'
    BY <1>0 DEF IInv, Control, BuildOps, TerminatedOps, SizedOps
  <1>7. Kept'
    BY <1>0 DEF IInv, Kept
  <1>8. Sized' /\ NoOverrun' /\ ReadsExact' /\ Converted'
    BY <1>0, NotReading
  <1>9. Filling'
    <2>1. /\ Base \in Nat /\ Base' = Base /\ Base = Len(heap) - (pos - First)
          /\ DOMAIN table = First .. TableLast
          /\ \A k \in First .. pos - 1 : table[k] = Base + (k - First) + 1
          /\ \A k \in pos .. TableLast : table[k] = NULL
          /\ \A k \in First .. pos - 1 :
               heap[table[k]] = ToC(call.strings.elems[k - First + 1])
      <3>1. Base = Len(heap) - (pos - First) /\ Base' = Base
        BY <1>0, <1>1, <1>3, <1>4, <1>c, <1>f DEF Base
      <3> QED BY <1>0, <3>1 DEF IInv, Filling
    <2>2. table'[pos] = Base + (pos - First) + 1 /\ DOMAIN table' = DOMAIN table
          /\ \A k \in DOMAIN table : k # pos => table'[k] = table[k]
      BY <1>0, <1>1, <1>3, <1>c, <2>1
    <2>3. \A k \in First .. pos : table'[k] = Base + (k - First) + 1
      <3> SUFFICES ASSUME NEW k \in First .. pos
                   PROVE  table'[k] = Base + (k - First) + 1
        OBVIOUS
      <3>1. CASE k = pos
        BY <2>2, <3>1
      <3>2. CASE k # pos
        <4>1. k \in First .. pos - 1 /\ k \in First .. TableLast
          BY <1>1, <1>c, <3>2
        <4> QED BY <2>1, <2>2, <3>2, <4>1
      <3> QED BY <3>1, <3>2
    <2>4. \A k \in pos + 1 .. TableLast : table'[k] = NULL
      BY <1>1, <1>c, <2>1, <2>2
    <2>5. ASSUME NEW k \in First .. pos
          PROVE  heap'[table'[k]] = ToC(call.strings.elems[k - First + 1])
      <3>1. CASE k = pos
        BY <1>1, <1>c, <1>3, <1>4, <2>1, <2>3, <3>1 DEF elem
      <3>2. CASE k # pos
        <4>1. k \in First .. pos - 1 /\ k \in First .. TableLast
          BY <1>1, <1>c, <3>2
        <4>2. table'[k] = table[k] /\ table[k] = Base + (k - First) + 1
          BY <2>1, <2>2, <3>2, <4>1
        <4>3. table[k] \in 1 .. Len(heap)
          BY <1>1, <1>3, <1>c, <2>1, <4>1, <4>2
        <4> QED BY <1>4, <2>1, <4>1, <4>2, <4>3
      <3> QED BY <3>1, <3>2
    <2>6. /\ \A k \in DOMAIN arr : arr[k] <= Base
          /\ \A k \in DOMAIN entry : entry[k] <= Base
      BY <1>0 DEF IInv, Filling
    <2>7. pos' - 1 = pos /\ pos' \in First .. TableLast
      BY <1>0, <1>1, <1>c
    <2> QED BY <1>0, <1>1, <1>f, <2>1, <2>2, <2>3, <2>4, <2>5, <2>6, <2>7
        DEF Filling
  <1>10. Sourced'
    <2> SUFFICES ASSUME NEW s \in source, NEW k \in 0 .. Len(s) - 1
                 PROVE  heap'[arr[k]] = heap[arr[k]]
      BY <1>0 DEF IInv, Sourced, IsTable
    <2>1. s \in Seq(AdaStrings) /\ k \in DOMAIN arr /\ arr[k] # NULL
      BY DEF IInv, Memory, Sourced, IsTable
    <2>2. arr[k] \in 1 .. Len(heap)
      BY <1>3, <2>1, ArrayEntries DEF IInv, Memory, NULL
    <2> QED BY <1>4, <2>2
  <1>11. TerminatedTable'
    BY <1>0 DEF TerminatedTable
  <1> QED BY <1>5, <1>6, <1>7, <1>8, <1>9, <1>10, <1>11 DEF IInv

\* The finished table is the array C expects.
LEMMA FillDoneStep == IInv /\ FillDone => IInv'
  <1> SUFFICES ASSUME IInv, FillDone PROVE IInv'
    OBVIOUS
  <1> DEFINE elems == call.strings.elems
  <1>c. /\ First \in Nat /\ elems \in Seq(AdaStrings)
        /\ Len(elems) \in Nat /\ Len(heap) \in Nat
    BY CallParts DEF IInv, Control, First, Memory
  <1>0. /\ pc = "fill" /\ pc' = "returned" /\ call.op \in BuildOps
        /\ UNCHANGED <<heap, entry, call, table, size, pos, out, writes>>
        /\ arr' = [k \in 0 .. TableLast - First |-> table[First + k]]
        /\ source' = IF call.op = "Convert_To_C_Terminated" THEN {elems} ELSE {}
    BY DEF FillDone, IInv, Control
  <1>1. /\ Last >= First /\ pos = TableLast /\ TableLast \in Int
        /\ Last = First + Len(elems) - 1 /\ TableLast >= First
        /\ call.op = "Convert_To_C_Terminated" => TableLast - First = Len(elems)
    <2>1. Last = First + Len(elems) - 1 /\ Last \in Int
      BY <1>c DEF Last
    <2>2. TableLast \in Int /\ TableLast >= Last
          /\ (call.op = "Convert_To_C_Terminated" => TableLast = Last + 1)
      BY <2>1 DEF TableLast
    <2>3. Last >= First /\ pos \in First .. TableLast /\ pos > TableLast - 1
      BY <1>0 DEF FillDone, FillLast, IInv, Filling
    <2>4. pos = TableLast /\ TableLast >= First
      BY <1>c, <2>1, <2>2, <2>3
    <2>5. Last - First + 1 = Len(elems)
      BY <1>c, <2>1
    <2> HIDE DEF elems
    <2>6. call.op = "Convert_To_C_Terminated" => TableLast - First = Len(elems)
      <3> SUFFICES ASSUME call.op = "Convert_To_C_Terminated"
                   PROVE  TableLast - First = Len(elems)
        OBVIOUS
      <3>1. TableLast = Last + 1
        BY <2>2
      <3> QED BY <1>c, <2>1, <2>5, <3>1
    <2> QED BY <2>1, <2>2, <2>3, <2>4, <2>6
  <1>2. /\ Base \in Nat
        /\ \A k \in DOMAIN entry : entry[k] <= Base
        /\ \A k \in First .. TableLast - 1 :
             /\ table[k] = Base + (k - First) + 1
             /\ heap[table[k]] = ToC(elems[k - First + 1])
        /\ table[TableLast] = NULL
        /\ DOMAIN table = First .. TableLast
    BY <1>0, <1>1, <1>c DEF IInv, Filling
  <1> HIDE DEF elems
  <1>3. /\ DOMAIN arr' = 0 .. TableLast - First
        /\ arr'[TableLast - First] = NULL
        /\ \A k \in 0 .. TableLast - First - 1 :
             /\ arr'[k] = Base + k + 1
             /\ heap[arr'[k]] = ToC(elems[k + 1])
    <2>1. \A k \in 0 .. TableLast - First : arr'[k] = table[First + k]
      BY <1>0
    <2>2. TableLast - First \in 0 .. TableLast - First
          /\ First + (TableLast - First) = TableLast
      BY <1>1, <1>c
    <2>3. ASSUME NEW k \in 0 .. TableLast - First - 1
          PROVE  arr'[k] = Base + k + 1 /\ heap[arr'[k]] = ToC(elems[k + 1])
      <3>1. /\ First + k \in First .. TableLast - 1
            /\ ((First + k) - First) + 1 = k + 1
            /\ Base + ((First + k) - First) + 1 = Base + k + 1
            /\ k \in 0 .. TableLast - First
        BY <1>1, <1>2, <1>c
      <3>2. arr'[k] = table[First + k]
        BY <2>1, <3>1
      <3>3. table[First + k] = Base + ((First + k) - First) + 1
            /\ heap[table[First + k]] = ToC(elems[((First + k) - First) + 1])
        BY <1>2, <3>1
      <3> QED BY <3>1, <3>2, <3>3
    <2> QED BY <1>0, <1>2, <2>1, <2>2, <2>3
  <1>4. Memory'
    <2>1. arr' \in [0 .. (TableLast - First + 1) - 1 -> 0 .. Len(heap)]
      <3>1. \A k \in 0 .. TableLast - First : table[First + k] \in 0 .. Len(heap)
        <4>1. \A k \in First .. TableLast : table[k] \in 0 .. Len(heap)
          BY <1>2 DEF IInv, Memory
        <4> QED BY <1>1, <1>c, <4>1
      <3>2. 0 .. (TableLast - First + 1) - 1 = 0 .. TableLast - First
        BY <1>1, <1>c
      <3> QED BY <1>0, <3>1, <3>2
    <2>2. IsArray(arr', Len(heap))
      <3>1. TableLast - First + 1 \in Nat
        BY <1>1, <1>c
      <3> QED BY <2>1, <3>1 DEF IsArray
    <2> QED BY <1>0, <1>c, <2>2 DEF IInv, Memory
  <1>5. Control'
    BY <1>0 DEF IInv, Control, BuildOps, TerminatedOps, SizedOps, Ended
  <1>6. Kept'
    BY <1>0 DEF Kept, BuildOps, ReadOps, TerminatedOps, SizedOps
  <1>7. Sized' /\ NoOverrun' /\ ReadsExact' /\ Converted'
    BY <1>0, NotReading
  <1>8. Filling'
    BY <1>0 DEF Filling
  <1>9. Sourced'
    <2> SUFFICES ASSUME call.op = "Convert_To_C_Terminated"
                 PROVE  IsTable(arr', elems, heap)
      BY <1>0 DEF Sourced
    <2> QED BY <1>1, <1>2, <1>3 DEF IsTable, NULL
  <1>10. TerminatedTable'
    <2>0. call' = call /\ heap' = heap /\ entry' = entry /\ pc' = "returned"
      BY <1>0
    <2> SUFFICES ASSUME call.op = "Convert_To_C_Terminated"
                 PROVE  /\ DOMAIN arr' = 0 .. Len(elems)
                        /\ arr'[Len(elems)] = NULL
                        /\ \A k \in 0 .. Len(elems) - 1 :
                             /\ arr'[k] # NULL
                             /\ heap[arr'[k]] = ToC(elems[k + 1])
                             /\ arr'[k] \notin {entry[j] : j \in DOMAIN entry}
                             /\ \A j \in 0 .. k - 1 : arr'[j] # arr'[k]
      BY <2>0 DEF TerminatedTable, elems
    <2>1. TableLast - First = Len(elems)
      BY <1>1
    <2>2. ASSUME NEW k \in 0 .. Len(elems) - 1
          PROVE  arr'[k] # NULL /\ arr'[k] \notin {entry[j] : j \in DOMAIN entry}
      <3>1. arr'[k] = Base + k + 1
        BY <1>3, <2>1
      <3>2. \A j \in DOMAIN entry : entry[j] \in 0 .. Len(heap)
        BY <1>c, ArrayEntries DEF IInv, Memory
      <3> QED BY <1>2, <1>c, <3>1, <3>2 DEF NULL
    <2>3. \A k \in 0 .. Len(elems) - 1 : \A j \in 0 .. k - 1 : arr'[j] # arr'[k]
      BY <1>2, <1>3, <1>c, <2>1
    <2> QED BY <1>3, <2>1, <2>2, <2>3
  <1> QED BY <1>4, <1>5, <1>6, <1>7, <1>8, <1>9, <1>10 DEF IInv

-----------------------------------------------------------------------------
(* The C side.                                                             *)

LEMMA ForeignNullStep ==
  ASSUME IInv, NEW k \in DOMAIN arr, ForeignNull(k)
  PROVE  IInv'
  <1>0. /\ arr' = [arr EXCEPT ![k] = NULL] /\ writes' = writes + 1
        /\ writes < MaxWrites /\ source' = {}
        /\ UNCHANGED <<heap, entry, call, pc, table, size, pos, out>>
    BY DEF ForeignNull
  <1>w. writes' # 0 /\ writes' \in 0 .. MaxWrites /\ Len(heap) \in Nat
    BY <1>0, BoundsAssumption DEF IInv, Control, Memory
  <1>1. /\ DOMAIN arr' = DOMAIN arr
        /\ \A j \in DOMAIN arr : arr'[j] = NULL \/ arr'[j] = arr[j]
    BY <1>0
  <1>2. Memory'
    <2>1. PICK n \in Nat : arr \in [0 .. n - 1 -> 0 .. Len(heap)]
      BY DEF IInv, Memory, IsArray
    <2>2. arr' \in [0 .. n - 1 -> 0 .. Len(heap)]
      BY <1>0, <1>w, <2>1 DEF NULL
    <2> QED BY <1>0, <2>2 DEF IInv, Memory, IsArray
  <1>3. Control'
    BY <1>0, <1>w DEF IInv, Control
  <1>4. Kept'
    BY <1>0, <1>1, <1>w DEF IInv, Kept
  <1>5. Sized'
    BY <1>0, <1>1 DEF IInv, Sized, Passed
  <1>6. Filling'
    <2>1. First' = First /\ Last' = Last /\ TableLast' = TableLast /\ Base' = Base
      BY <1>0 DEF First, Last, TableLast, Base
    <2>2. pc = "fill" => \A j \in DOMAIN arr' : arr'[j] <= Base
      BY <1>1 DEF IInv, Filling, NULL
    <2> QED BY <1>0, <2>1, <2>2 DEF IInv, Filling
  <1>7. Sourced'
    BY <1>0 DEF Sourced
  <1>8. Converted' /\ ReadsExact' /\ TerminatedTable'
    BY <1>w DEF Converted, ReadsExact, TerminatedTable
  <1>9. NoOverrun'
    BY <1>0 DEF IInv, NoOverrun, Legal
  <1> QED BY <1>2, <1>3, <1>4, <1>5, <1>6, <1>7, <1>8, <1>9 DEF IInv

LEMMA ForeignChangeStep ==
  ASSUME IInv, NEW a \in Addresses, NEW k \in DOMAIN heap[a], NEW c \in Cells,
         ForeignChange(a, k, c)
  PROVE  IInv'
  <1>0. /\ heap' = [heap EXCEPT ![a][k] = c] /\ heap[a][k] # Nul
        /\ writes' = writes + 1 /\ writes < MaxWrites /\ source' = {}
        /\ UNCHANGED <<arr, entry, call, pc, table, size, pos, out>>
    BY DEF ForeignChange
  <1>w. writes' # 0 /\ writes' \in 0 .. MaxWrites /\ Len(heap) \in Nat
    BY <1>0, BoundsAssumption DEF IInv, Control, Memory
  <1>1. /\ heap' \in Seq(CStrings) /\ Len(heap') = Len(heap)
        /\ \A j \in 1 .. Len(heap) : j # a => heap'[j] = heap[j]
    <2>1. heap \in Seq(CStrings) /\ a \in 1 .. Len(heap)
      BY DEF IInv, Memory, Addresses
    <2>2. [heap[a] EXCEPT ![k] = c] \in CStrings
      BY <1>0, <2>1, CStringWrite
    <2>3. heap' = [heap EXCEPT ![a] = [heap[a] EXCEPT ![k] = c]]
      BY <1>0
    <2> QED BY <2>1, <2>2, <2>3
  <1>2. Memory'
    BY <1>0, <1>1 DEF IInv, Memory
  <1>3. Control'
    BY <1>0, <1>w DEF IInv, Control
  <1>4. Kept'
    BY <1>0, <1>w DEF IInv, Kept
  <1>5. Sized'
    BY <1>0 DEF IInv, Sized, Passed
  <1>6. Filling'
    <2> SUFFICES ASSUME pc = "fill" PROVE Filling'
      BY <1>0 DEF Filling
    <2>1. First' = First /\ Last' = Last /\ TableLast' = TableLast /\ Base' = Base
      BY <1>0, <1>1 DEF First, Last, TableLast, Base
    <2>c. First \in 0 .. IntegerLast
      BY CallParts DEF IInv, Control, First
    <2>2. a <= Base
      BY DEF IInv, Filling, ForeignChange
    <2>3. ASSUME NEW j \in First .. pos - 1
          PROVE  heap'[table[j]] = heap[table[j]]
      <3>1. /\ table[j] = Base + (j - First) + 1 /\ Base \in Nat /\ pos \in Nat
            /\ Base = Len(heap) - (pos - First)
        BY DEF IInv, Filling, Control, Base
      <3>2. table[j] # a /\ table[j] \in 1 .. Len(heap)
        BY <1>w, <2>2, <2>c, <3>1 DEF Addresses
      <3> QED BY <1>1, <3>2
    <2> QED BY <1>0, <2>1, <2>3 DEF IInv, Filling
  <1>7. Sourced'
    BY <1>0 DEF Sourced
  <1>8. Converted' /\ ReadsExact' /\ TerminatedTable'
    BY <1>w DEF Converted, ReadsExact, TerminatedTable
  <1>9. NoOverrun'
    BY <1>0 DEF IInv, NoOverrun, Legal
  <1> QED BY <1>2, <1>3, <1>4, <1>5, <1>6, <1>7, <1>8, <1>9 DEF IInv

-----------------------------------------------------------------------------
(* The invariant and what follows from it.                                 *)

LEMMA StutterStep == IInv /\ UNCHANGED vars => IInv'
  BY DEF vars, IInv, Memory, Control, Kept, Sized, Passed, Filling, Sourced,
         Converted, NoOverrun, ReadsExact, TerminatedTable, First, Last,
         TableLast, Base, EntryText, TooLong, TooMany, Legal

LEMMA NextStep == IInv /\ [Next]_vars => IInv'
  <1> SUFFICES ASSUME IInv, [Next]_vars PROVE IInv'
    OBVIOUS
  <1>1. CASE Read
    BY <1>1, ReadStep
  <1>2. CASE Build
    BY <1>2, AllocateStep, FillEntryStep, FillDoneStep DEF Build
  <1>3. CASE \/ \E c \in ReadCalls : CallRead(c)
             \/ \E c \in BuildCalls : CallBuild(c)
             \/ \E c \in DeallocateCalls : CallDeallocate(c)
    BY <1>3, CallStep
  <1>4. CASE \E k \in DOMAIN arr : ForeignNull(k)
    BY <1>4, ForeignNullStep
  <1>5. CASE \E a \in Addresses : \E k \in DOMAIN heap[a], c \in Cells :
               ForeignChange(a, k, c)
    BY <1>5, ForeignChangeStep
  <1>6. CASE UNCHANGED vars
    BY <1>6, StutterStep
  <1> QED BY <1>1, <1>2, <1>3, <1>4, <1>5, <1>6 DEF Next

\* The inductive invariant.
THEOREM Invariance == Spec => []IInv
  BY InitIInv, NextStep, PTL DEF Spec

\* Every variable keeps its type.
THEOREM TypeCorrect == Spec => []TypeOK
  <1>1. IInv => TypeOK
    <2> SUFFICES ASSUME IInv PROVE TypeOK
      OBVIOUS
    <2>1. heap \in Seq(CStrings) /\ Addresses = 1 .. Len(heap) /\ Len(heap) \in Nat
      BY DEF IInv, Memory, Addresses
    <2>2. ASSUME NEW a \in Addresses
          PROVE  Terminated(heap[a]) /\ \A k \in DOMAIN heap[a] : heap[a][k] \in Cells
      <3>1. heap[a] \in CStrings
        BY <2>1
      <3> QED BY <3>1 DEF CStrings, Blocks, BlocksOf
    <2>3. \A k \in DOMAIN arr : arr[k] = NULL \/ arr[k] \in Addresses
      BY <2>1, ArrayEntries DEF IInv, Memory, NULL
    <2>4. \A k \in DOMAIN table : table[k] = NULL \/ table[k] \in Addresses
      BY <2>1 DEF IInv, Memory, NULL
    <2> QED BY <2>2, <2>3, <2>4 DEF TypeOK, IInv, Control
  <1> QED BY Invariance, <1>1, PTL

\* A caller that keeps the types' contract never makes these functions read
\* outside the array.
THEOREM NoOverrunHolds == Spec => []NoOverrun
  <1>1. IInv => NoOverrun
    BY DEF IInv
  <1> QED BY Invariance, <1>1, PTL

\* The size a call works with lies between the array's present size and its
\* size when the call was made.
THEOREM SizeBracketedHolds == Spec => []SizeBracketed
  <1>1. IInv => SizeBracketed
    <2> SUFFICES ASSUME IInv, pc \in {"check", "core", "convert", "returned"},
                        call.op \in TerminatedOps, Legal(entry, call)
                 PROVE  /\ \E k \in 0 .. size : IsFirstNull(arr, k)
                        /\ \E k \in DOMAIN entry : k >= size /\ IsFirstNull(entry, k)
      BY DEF SizeBracketed
    <2>0. Len(heap) \in Nat /\ IsArray(arr, Len(heap)) /\ IsArray(entry, Len(heap))
      BY DEF IInv, Memory
    <2>1. size \in DOMAIN arr /\ arr[size] = NULL /\ Passed(size) /\ size \in Nat
      BY BoundsAssumption DEF IInv, Sized, Control
    <2>2. \E k \in 0 .. size : IsFirstNull(arr, k)
      BY <2>0, <2>1, FirstNullExists
    <2>3. PICK m \in DOMAIN entry : entry[m] = NULL
      BY DEF Legal, TerminatedOps, SizedOps, BuildOps, DeallocateOps
    <2>4. PICK k \in 0 .. m : IsFirstNull(entry, k)
      BY <2>0, <2>3, FirstNullExists
    <2>5. k \in DOMAIN entry /\ entry[k] = NULL /\ k \in Int
      BY <2>4 DEF IsFirstNull
    <2>6. k >= size
      BY <2>1, <2>4, <2>5 DEF Passed
    <2> QED BY <2>2, <2>4, <2>5, <2>6
  <1> QED BY Invariance, <1>1, PTL

\* Without a write by C, a legal read returns what its declaration says.
THEOREM ReadsExactHolds == Spec => []ReadsExact
  <1>1. IInv => ReadsExact
    BY DEF IInv
  <1> QED BY Invariance, <1>1, PTL

\* The array Convert_To_C_Terminated returns is the one C expects.
THEOREM TerminatedTableHolds == Spec => []TerminatedTable
  <1>1. IInv => TerminatedTable
    BY DEF IInv
  <1> QED BY Invariance, <1>1, PTL

\* Ada to C and back is the identity up to embedded nuls.
THEOREM RoundTripHolds == Spec => []RoundTrip
  <1>1. IInv => RoundTrip
    <2> SUFFICES ASSUME IInv, pc = "returned", call.op = "Convert_Terminated",
                        writes = 0, NEW s \in source
                 PROVE  out = [j \in 1 .. Len(s) |-> Truncated(s[j])]
      BY DEF RoundTrip
    <2>0. s \in Seq(AdaStrings) /\ Len(s) \in Nat /\ size \in Nat
      BY BoundsAssumption DEF IInv, Memory, Control
    <2>1. /\ DOMAIN arr = 0 .. Len(s) /\ arr[Len(s)] = NULL
          /\ \A k \in 0 .. Len(s) - 1 : arr[k] # NULL /\ heap[arr[k]] = ToC(s[k + 1])
      BY DEF IInv, Sourced, IsTable
    <2>2. arr = entry /\ Len(s) \in DOMAIN arr
      BY <2>0, <2>1 DEF IInv, Kept, ReadOps, TerminatedOps
    <2>3. Legal(entry, call)
      BY <2>1, <2>2 DEF Legal, TerminatedOps
    <2>4. out = [j \in 1 .. size |-> EntryText(j - 1)]
      BY <2>3 DEF IInv, ReadsExact, TerminatedOps
    <2>5. size = Len(s)
      <3>1. size \in DOMAIN arr /\ arr[size] = NULL /\ Passed(size)
        BY DEF IInv, Sized, TerminatedOps
      <3> QED BY <2>0, <2>1, <3>1
    <2>6. ASSUME NEW j \in 1 .. Len(s)
          PROVE  EntryText(j - 1) = Truncated(s[j])
      <3>1. j - 1 \in 0 .. Len(s) - 1 /\ (j - 1) + 1 = j
        BY <2>0
      <3>2. arr[j - 1] # NULL /\ heap[arr[j - 1]] = ToC(s[j])
        BY <2>1, <3>1
      <3> QED BY <3>2 DEF EntryText, Truncated
    <2> QED BY <2>4, <2>5, <2>6
  <1> QED BY Invariance, <1>1, PTL
=============================================================================
