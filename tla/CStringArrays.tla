--------------------------- MODULE CStringArrays ---------------------------
(***************************************************************************)
(* Package body C_String.Arrays (c_string-arrays.adb): arrays of pointers  *)
(* to C strings, read from Ada and built for C, one action per loop step.  *)
(* The Ada caller may keep an array across calls, and the C side may       *)
(* change an array it shares at any moment.                                *)
(***************************************************************************)
EXTENDS CMemory, FiniteSets

CONSTANTS AdaStrings,   \* the strings Ada converts: sequences of Cells
          Given,        \* the strings C owns at the start, as a sequence
          MaxLen,       \* bound: elements of an Ada array
          MaxHeap,      \* bound: C strings ever allocated
          MaxWrites,    \* bound: the C side's writes during one call
          WordSize,     \* Word_Size, the bytes of a pointer
          IntegerLast   \* Integer'Last

ASSUME StringsAssumption ==
  AdaStrings \subseteq Seq(Cells) /\ Given \in Seq(AdaStrings)
ASSUME BoundsAssumption ==
  /\ MaxLen \in Nat /\ MaxHeap \in Nat /\ MaxWrites \in Nat
  /\ WordSize \in Nat \ {0} /\ IntegerLast \in Nat

VARIABLES heap,    \* address |-> block of a C string; addresses are 1, 2, ...
          arr,     \* the caller's C array: offset |-> address or NULL
          entry,   \* history: arr when the call was made
          source,  \* history: {S} while arr is the array
                   \* Convert_To_C_Terminated (S) returned and C left alone
          call,    \* the call in progress, or the last one
          pc,      \* where the call stands, or how it ended
          table,   \* Pointer_Array.all during a conversion to C
          size,    \* Size
          pos,     \* the loop parameter
          out,     \* the Ada result: one string, or Table from 1
          writes   \* history: C's writes during the call

vars == <<heap, arr, entry, source, call, pc, table, size, pos, out, writes>>

NULL == 0
Addresses == DOMAIN heap
Ended == {"idle", "returned", "deallocated", "fault", "Constraint_Error",
          "Length_Error", "Storage_Error"}

\* String_Array_t values: an index range and the elements in order.
AdaArrays ==
  {a \in [first : 0 .. IntegerLast,
          elems : UNION {[1 .. n -> AdaStrings] : n \in 0 .. MaxLen}] :
     a.first + Len(a.elems) <= IntegerLast + 1}

TerminatedOps == {"Size_Terminated", "Index_Terminated", "Convert_Terminated"}
SizedOps == {"Index", "Convert"}
BuildOps == {"Convert_To_C", "Convert_To_C_Terminated"}
DeallocateOps == {"Deallocate", "Deallocate_Terminated"}

NoStrings == [first |-> 0, elems |-> <<>>]

\* A call; a parameter the operation does not have is 0 or NoStrings, and
\* Size and Index are Naturals.
ReadCalls ==
  {c \in [op : TerminatedOps \union SizedOps, strings : {NoStrings},
          size : 0 .. MaxLen + 1, index : 0 .. MaxLen + 1] :
     /\ c.size <= IntegerLast /\ c.index <= IntegerLast
     /\ c.op \in TerminatedOps => c.size = 0
     /\ c.op \notin {"Index", "Index_Terminated"} => c.index = 0}
BuildCalls == [op : BuildOps, strings : AdaArrays, size : {0}, index : {0}]
DeallocateCalls ==
  [op : DeallocateOps, strings : {NoStrings}, size : {0}, index : {0}]

\* The caller passes a null-terminated array, or its true size.
Legal(a, c) ==
  \/ c.op \in TerminatedOps /\ \E k \in DOMAIN a : a[k] = NULL
  \/ c.op \in SizedOps /\ \A k \in 0 .. c.size - 1 : k \in DOMAIN a
  \/ c.op \in BuildOps \union DeallocateOps

\* C_String.To_String, as CString models it in detail.
To_String(b) == Prefix(b, FirstNul(b))

Init ==
  /\ heap = [a \in 1 .. Len(Given) |-> ToC(Given[a])]
  /\ arr \in UNION {[0 .. n - 1 -> 0 .. Len(Given)] : n \in 0 .. MaxLen + 1}
  /\ entry = arr /\ source = {}
  /\ call = [op |-> "Deallocate", strings |-> NoStrings, size |-> 0, index |-> 0]
  /\ pc = "idle"
  /\ table = <<>> /\ size = 0 /\ pos = 0 /\ out = <<>> /\ writes = 0

----------------------------------------------------------------------------
(* Calls.                                                                  *)

Begin(c, next) ==
  /\ pc \in Ended
  /\ call' = c /\ pc' = next /\ entry' = arr /\ size' = c.size
  /\ table' = <<>> /\ pos' = 0 /\ out' = <<>> /\ writes' = 0
  /\ UNCHANGED <<heap, arr>>

CallRead(c) ==
  /\ UNCHANGED source
  /\ Begin(c, CASE c.op \in TerminatedOps -> "scan"
                [] c.op = "Index" -> "check"
                [] c.op = "Convert" -> "convert")

CallBuild(c) ==
  /\ Len(heap) + Len(c.strings.elems) <= MaxHeap
  /\ UNCHANGED source
  /\ Begin(c, "allocate")

\* Both procedure bodies are "null;"; the caller gives the array up.
CallDeallocate(c) == source' = {} /\ Begin(c, "deallocated")

\* Go to the next point of the call, or end it.
Goto(next) ==
  /\ pc' = next
  /\ UNCHANGED <<heap, arr, entry, source, call, table, size, pos, out, writes>>

----------------------------------------------------------------------------
(* Reading an array.                                                       *)

ScanEntry ==
  /\ pc = "scan" /\ size \in DOMAIN arr /\ arr[size] # NULL
  /\ IF size = IntegerLast
     THEN Goto("Constraint_Error")
     ELSE /\ size' = size + 1
          /\ UNCHANGED <<heap, arr, entry, source, call, pc, table, pos, out,
                         writes>>

\* Seeded fault: the size counts the null pointer.
ScanNullCounted ==
  /\ pc = "scan" /\ size \in DOMAIN arr /\ arr[size] = NULL
  /\ size' = size + 1
  /\ pc' = CASE call.op = "Size_Terminated" -> "returned"
             [] call.op = "Index_Terminated" -> "check"
             [] call.op = "Convert_Terminated" -> "convert"
  /\ UNCHANGED <<heap, arr, entry, source, call, table, pos, out, writes>>

ScanNull ==
  /\ pc = "scan" /\ size \in DOMAIN arr /\ arr[size] = NULL
  /\ Goto(CASE call.op = "Size_Terminated" -> "returned"
            [] call.op = "Index_Terminated" -> "check"
            [] call.op = "Convert_Terminated" -> "convert")

\* Seeded fault: the index may equal the size.
CheckIndexOffByOne ==
  /\ pc = "check"
  /\ Goto(IF size < call.index THEN "Constraint_Error" ELSE "core")

CheckIndex ==
  /\ pc = "check"
  /\ Goto(IF size <= call.index THEN "Constraint_Error" ELSE "core")

\* Index * Word_Size is computed in Integer, before anything is read; what is
\* an Integer is a Storage_Offset, which is as wide as an address.
Overflows(k) == k * WordSize > IntegerLast

\* The entry's string is too long for an Ada String.
TooLong(k) == arr[k] # NULL /\ FirstNul(heap[arr[k]]) > IntegerLast

\* The string of entry k; a null pointer reads as the empty string.
EntryText(k) == IF arr[k] = NULL THEN <<>> ELSE To_String(heap[arr[k]])

\* Index_Core at offset k: add its string to the result and go to next.
IndexCore(k, next) ==
  IF Overflows(k) THEN Goto("Constraint_Error")
  ELSE /\ k \in DOMAIN arr
       /\ IF TooLong(k) THEN Goto("Constraint_Error")
          ELSE /\ out' = Append(out, EntryText(k))
               /\ pos' = pos + 1 /\ pc' = next
               /\ UNCHANGED <<heap, arr, entry, source, call, table, size,
                              writes>>

Index == pc = "core" /\ IndexCore(call.index, "returned")

\* Seeded fault: Table (0 .. Size).
MoreToConvertOffByOne == pc = "convert" /\ pos <= size

\* Table (0 .. Size - 1)
MoreToConvert == pc = "convert" /\ pos < size

ConvertEntry == MoreToConvert /\ IndexCore(pos, "convert")

ConvertDone == pc = "convert" /\ ~MoreToConvert /\ Goto("returned")

\* The address arithmetic checks no bound: reading past the array is a fault.
Overrun ==
  /\ \/ pc = "scan" /\ size \notin DOMAIN arr
     \/ pc = "core" /\ ~Overflows(call.index) /\ call.index \notin DOMAIN arr
     \/ MoreToConvert /\ ~Overflows(pos) /\ pos \notin DOMAIN arr
  /\ Goto("fault")

----------------------------------------------------------------------------
(* Building an array for C.                                                *)

First == call.strings.first
Last == First + Len(call.strings.elems) - 1
\* Seeded fault: no room for the terminating null.
TableLastTooSmall == Last

TableLast == IF call.op = "Convert_To_C_Terminated" THEN Last + 1 ELSE Last

\* Strings'Length = 0, then Strings'Last + 1, then new Table_t, set to null.
AllocateTable ==
  /\ pc = "allocate"
  /\ \/ /\ Last < First
        /\ Goto("Length_Error")
     \/ /\ Last >= First /\ TableLast > IntegerLast
        /\ Goto("Constraint_Error")
     \/ /\ Last >= First /\ TableLast <= IntegerLast
        /\ table' = [k \in First .. TableLast |-> NULL]
        /\ pos' = First /\ pc' = "fill"
        /\ UNCHANGED <<heap, arr, entry, source, call, size, out, writes>>

\* Pointer_Array.all'First .. Pointer_Array.all'Last - 1, in both functions.
FillLast == TableLast - 1

\* Seeded fault: one char_array serves every iteration.
FillEntryOneBuffer ==
  /\ pc = "fill" /\ pos <= FillLast
  /\ LET block == ToC(call.strings.elems[pos - First + 1])
     IN heap' = IF pos = First THEN Append(heap, block)
                ELSE [heap EXCEPT ![Len(heap)] = block]
  /\ table' = [table EXCEPT ![pos] = Len(heap')]
  /\ pos' = pos + 1
  /\ UNCHANGED <<arr, entry, source, call, pc, size, out, writes>>

FillEntry ==
  /\ pc = "fill" /\ pos <= FillLast
  /\ heap' = Append(heap, ToC(call.strings.elems[pos - First + 1]))
  /\ table' = [table EXCEPT ![pos] = Len(heap) + 1]
  /\ pos' = pos + 1
  /\ UNCHANGED <<arr, entry, source, call, pc, size, out, writes>>

\* The address of Pointer_Array.all (Strings'First) is C's offset 0.
FillDone ==
  /\ pc = "fill" /\ pos > FillLast
  /\ arr' = [k \in 0 .. TableLast - First |-> table[First + k]]
  /\ source' = IF call.op = "Convert_To_C_Terminated"
               THEN {call.strings.elems} ELSE {}
  /\ pc' = "returned"
  /\ UNCHANGED <<heap, entry, call, table, size, pos, out, writes>>

\* An allocator raises Storage_Error; what was allocated before stays.
AllocationFails ==
  /\ \/ pc = "allocate" /\ Last >= First /\ TableLast <= IntegerLast
     \/ pc = "fill" /\ pos <= FillLast
  /\ Goto("Storage_Error")

----------------------------------------------------------------------------
(* The C side, which shares arr and its strings.                           *)

ForeignNull(k) ==
  /\ writes < MaxWrites /\ arr[k] # NULL
  /\ arr' = [arr EXCEPT ![k] = NULL]
  /\ writes' = writes + 1 /\ source' = {}
  /\ UNCHANGED <<heap, entry, call, pc, table, size, pos, out>>

ForeignChange(a, k, c) ==
  /\ writes < MaxWrites /\ heap[a][k] # Nul
  /\ a \in {arr[j] : j \in DOMAIN arr}
  /\ heap' = [heap EXCEPT ![a][k] = c]
  /\ writes' = writes + 1 /\ source' = {}
  /\ UNCHANGED <<arr, entry, call, pc, table, size, pos, out>>

Read == ScanEntry \/ ScanNull \/ CheckIndex \/ Index \/ ConvertEntry
        \/ ConvertDone \/ Overrun
Build == AllocateTable \/ FillEntry \/ FillDone \/ AllocationFails

Next ==
  \/ Read \/ Build
  \/ \E c \in ReadCalls : CallRead(c)
  \/ \E c \in BuildCalls : CallBuild(c)
  \/ \E c \in DeallocateCalls : CallDeallocate(c)
  \/ \E k \in DOMAIN arr : ForeignNull(k)
  \/ \E a \in Addresses : \E k \in DOMAIN heap[a], c \in Cells :
       ForeignChange(a, k, c)

Spec == Init /\ [][Next]_vars

----------------------------------------------------------------------------
(* Properties.                                                             *)

\* Every variable keeps its type: every pointer is NULL or the address of a
\* terminated string.
TypeOK ==
  /\ \A a \in Addresses :
       Terminated(heap[a]) /\ \A k \in DOMAIN heap[a] : heap[a][k] \in Cells
  /\ \A k \in DOMAIN arr : arr[k] = NULL \/ arr[k] \in Addresses
  /\ \A k \in DOMAIN table : table[k] = NULL \/ table[k] \in Addresses
  /\ call \in ReadCalls \union BuildCalls \union DeallocateCalls
  /\ pc \in Ended \union {"scan", "check", "core", "convert", "allocate", "fill"}
  /\ size \in 0 .. IntegerLast /\ pos \in Nat /\ writes \in 0 .. MaxWrites

\* A caller that passes a null-terminated array, or its true size, never
\* makes these functions read outside the array (c_string-arrays.adb:31,75),
\* even while the C side clears entries under the call.
NoOverrun == pc = "fault" => ~Legal(entry, call)

\* k is the offset of the first null pointer of a.
IsFirstNull(a, k) ==
  k \in DOMAIN a /\ a[k] = NULL /\ \A j \in 0 .. k - 1 : a[j] # NULL

\* Size_Terminated is not atomic: if C clears entries during the scan the
\* size used by the rest of the call (c_string-arrays.adb:118,222,230) is
\* stale, but it lies between the present size and the size at the call.
SizeBracketed ==
  (/\ pc \in {"check", "core", "convert", "returned"}
   /\ call.op \in TerminatedOps /\ Legal(entry, call))
    => /\ \E k \in 0 .. size : IsFirstNull(arr, k)
       /\ \E k \in DOMAIN entry : k >= size /\ IsFirstNull(entry, k)

\* Size_Terminated ran out of Naturals: more entries than Integer'Last.
TooMany ==
  /\ call.op \in TerminatedOps /\ size = IntegerLast
  /\ size \in DOMAIN arr /\ arr[size] # NULL

\* Without a write by C, a legal read returns what its declaration says:
\* Index the entry's string, or Constraint_Error exactly when the index is not
\* below the size (or its byte offset, or the array's size, is not an
\* Integer); Convert "output [Index] = Pointer [Index]" for every Index below
\* the size (c_string-arrays.ads:67-68), a null entry reading as the empty
\* string.
ReadsExact ==
  (/\ call.op \in TerminatedOps \union SizedOps
   /\ writes = 0 /\ Legal(entry, call)) =>
    LET Bad(k) == Overflows(k) \/ TooLong(k)
        isIndex == call.op \in {"Index", "Index_Terminated"}
    IN /\ (pc = "returned" /\ isIndex) =>
            call.index < size /\ out = <<EntryText(call.index)>>
       /\ (pc = "returned" /\ call.op \in {"Convert", "Convert_Terminated"}) =>
            out = [j \in 1 .. size |-> EntryText(j - 1)]
       /\ (pc = "Constraint_Error" /\ isIndex) =>
            call.index >= size \/ Bad(call.index) \/ TooMany
       /\ (pc = "Constraint_Error" /\ ~isIndex) =>
            TooMany \/ \E k \in 0 .. size - 1 : Bad(k)

\* The array Convert_To_C_Terminated returns is the one C expects: a pointer
\* for every element, to a string of its own that no other array holds, then
\* the only null (c_string-arrays.adb:245-261).
TerminatedTable ==
  (pc = "returned" /\ call.op = "Convert_To_C_Terminated" /\ writes = 0) =>
    LET n == Len(call.strings.elems)
    IN /\ DOMAIN arr = 0 .. n
       /\ arr[n] = NULL
       /\ \A k \in 0 .. n - 1 :
            /\ arr[k] # NULL
            /\ heap[arr[k]] = ToC(call.strings.elems[k + 1])
            /\ arr[k] \notin {entry[j] : j \in DOMAIN entry}
            /\ \A j \in 0 .. k - 1 : arr[j] # arr[k]

\* The part of an Ada string that survives in C: what precedes its first nul.
Truncated(s) == To_String(ToC(s))

\* Ada to C and back is the identity up to embedded nuls, whatever reads,
\* failed or not, come between: as long as C left the array alone,
\* Convert_Terminated returns the strings Convert_To_C_Terminated was given.
RoundTrip ==
  (pc = "returned" /\ call.op = "Convert_Terminated" /\ writes = 0) =>
    \A s \in source : out = [j \in 1 .. Len(s) |-> Truncated(s[j])]

\* "Convert Ada -> C" (c_string-arrays.ads:86): every string of the Ada array
\* has its C string in the array Convert_To_C returns.
ConvertsEveryString ==
  (pc = "returned" /\ call.op = "Convert_To_C" /\ writes = 0) =>
    \A k \in 0 .. Len(call.strings.elems) - 1 :
      arr[k] # NULL /\ heap[arr[k]] = ToC(call.strings.elems[k + 1])

\* The strings Convert_To_C and Convert_To_C_Terminated allocated.
Allocated == Addresses \ 1 .. Len(Given)

\* "Deallocation" (c_string-arrays.ads:96): after Deallocate or
\* Deallocate_Terminated no string of the array that Convert_To_C or
\* Convert_To_C_Terminated allocated for it is still allocated.
DeallocateReleases ==
  pc = "deallocated" => {arr[k] : k \in DOMAIN arr} \intersect Allocated = {}
============================================================================
