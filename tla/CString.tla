------------------------------ MODULE CString ------------------------------
(***************************************************************************)
(* Package body C_String (c_string.adb), one action per loop step.  An     *)
(* operation reads raw memory a cell at a time, so C code that shares the  *)
(* memory may write to it between two reads.                               *)
(***************************************************************************)
EXTENDS CMemory

CONSTANTS SizeLast,     \* Interfaces.C.size_t'Last
          OffsetLast,   \* System.Storage_Elements.Storage_Offset'Last
          IntegerLast,  \* Integer'Last
          MaxWrites     \* bound: the C side's writes during one call

ASSUME WidthAssumption ==
  SizeLast \in Nat /\ OffsetLast \in Nat /\ IntegerLast \in Nat
ASSUME MaxWritesAssumption == MaxWrites \in Nat

VARIABLES block,   \* the memory Item designates
          entry,   \* history: that memory when the call was made
          call,    \* the call: its operation and its parameters
          pc,      \* where the call stands, or how it ended
          i,       \* the loop parameter
          len,     \* the value Length returned inside this call
          text,    \* Result, as far as it is filled
          writes   \* history: C's writes during the call

vars == <<block, entry, call, pc, i, len, text, writes>>

Running == {"called", "scan", "measured", "copy", "fetch", "has_null"}
Ended == {"returned", "Constraint_Error", "Null_Termination_Error", "fault"}

\* The caller's view.  The contract speaks of the memory as it was passed, so
\* it has nothing to say of a call that C has disturbed: that one stays open.
Contract == INSTANCE CStringContract WITH
  block <- entry,
  status <- IF pc \in Running \/ writes # 0 THEN "running" ELSE pc,
  number <- IF pc = "returned" /\ writes = 0 /\ call.name = "Length"
            THEN len ELSE 0,
  text <- IF pc = "returned" /\ writes = 0 THEN text ELSE <<>>

Calls == Contract!Calls
Blocks == Contract!Blocks
Legal(b, c) == Contract!Legal(b, c)
Scanning == Contract!TerminatedOps

\* Any call, with any memory: the package keeps no state between calls.
Init ==
  /\ block \in Blocks /\ call \in Calls /\ entry = block
  /\ pc = "called" /\ i = 0 /\ len = 0 /\ text = <<>> /\ writes = 0

----------------------------------------------------------------------------
(* Entering an operation.                                                  *)

\* Go to the next point of the call, or end it.
Goto(next) ==
  /\ pc' = next
  /\ UNCHANGED <<block, entry, call, i, len, text, writes>>

\* The "not null" subtypes of the declarations are checked on entry.
RejectNull ==
  /\ pc = "called" /\ call.null
  /\ Goto("Constraint_Error")

Called(names) == pc = "called" /\ ~call.null /\ call.name \in names

EnterScan == Called(Scanning) /\ Goto("scan")

\* Result : String (1 .. Integer (Size))
EnterToStringSized ==
  /\ Called({"To_String_Sized"})
  /\ Goto(IF call.size > IntegerLast THEN "Constraint_Error" ELSE "copy")

\* Seeded fault: the index may equal the size.
EnterIndexSizedOffByOne ==
  /\ Called({"Index_Sized"})
  /\ Goto(IF call.index > call.size THEN "Constraint_Error" ELSE "fetch")

EnterIndexSized ==
  /\ Called({"Index_Sized"})
  /\ Goto(IF call.index >= call.size THEN "Constraint_Error" ELSE "fetch")

EnterToCString == Called({"To_C_String"}) /\ Goto("has_null")

\* Item (Item'First) is checked against the array's bounds.
ToCCharArray ==
  /\ Called({"To_C_Char_Array"})
  /\ Goto(IF DOMAIN block = {} THEN "Constraint_Error" ELSE "returned")

----------------------------------------------------------------------------
(* Unsafe_Index, which every operation on a pointer reads with.            *)

\* Storage_Offset (Index) is a conversion to a signed type, with its range
\* checked; no loop goes past size_t'Last.
Readable(k) == k <= SizeLast /\ k <= OffsetLast

\* Seeded fault: the loop runs over 0 .. Size.
CopyLengthOffByOne == (IF call.name = "To_String" THEN len ELSE call.size) + 1

CopyLength == IF call.name = "To_String" THEN len ELSE call.size

Reading == pc \in {"scan", "fetch"} \/ (pc = "copy" /\ i < CopyLength)

At == IF pc = "fetch" THEN call.index ELSE i

\* The index is no Storage_Offset (or the scan has used up size_t'Range).
OutOfRange == Reading /\ ~Readable(At) /\ Goto("Constraint_Error")

\* Nothing else is checked: a read outside the block is a fault.
Overrun ==
  /\ Reading /\ Readable(At) /\ At \notin DOMAIN block
  /\ Goto("fault")

----------------------------------------------------------------------------
(* Length, and the operations that begin by calling it.                    *)

\* Seeded fault: the loop parameter does not advance.
ScanCellStuck ==
  /\ pc = "scan" /\ Readable(i)
  /\ i \in DOMAIN block /\ block[i] # Nul
  /\ UNCHANGED vars

ScanCell ==
  /\ pc = "scan" /\ Readable(i)
  /\ i \in DOMAIN block /\ block[i] # Nul
  /\ i' = i + 1
  /\ UNCHANGED <<block, entry, call, pc, len, text, writes>>

\* Seeded fault: the length counts the nul.
ScanFoundCountsNul ==
  /\ pc = "scan" /\ Readable(i)
  /\ i \in DOMAIN block /\ block[i] = Nul
  /\ len' = i + 1 /\ pc' = "measured"
  /\ UNCHANGED <<block, entry, call, i, text, writes>>

ScanFound ==
  /\ pc = "scan" /\ Readable(i)
  /\ i \in DOMAIN block /\ block[i] = Nul
  /\ len' = i /\ pc' = "measured"
  /\ UNCHANGED <<block, entry, call, i, text, writes>>

ReturnLength == pc = "measured" /\ call.name = "Length" /\ Goto("returned")

CheckIndex ==
  /\ pc = "measured" /\ call.name = "Index"
  /\ Goto(IF call.index >= len THEN "Constraint_Error" ELSE "fetch")

\* Result : String (1 .. Integer (Length (Item)))
AllocateResult ==
  /\ pc = "measured" /\ call.name = "To_String"
  /\ pc' = IF len > IntegerLast THEN "Constraint_Error" ELSE "copy"
  /\ i' = 0
  /\ UNCHANGED <<block, entry, call, len, text, writes>>

----------------------------------------------------------------------------
(* The copy loops, the single fetch and Has_Null.                          *)

CopyCell ==
  /\ pc = "copy" /\ i < CopyLength /\ Readable(i) /\ i \in DOMAIN block
  /\ text' = Append(text, block[i]) /\ i' = i + 1
  /\ UNCHANGED <<block, entry, call, pc, len, writes>>

CopyDone == pc = "copy" /\ i = CopyLength /\ Goto("returned")

Fetch ==
  /\ pc = "fetch" /\ Readable(call.index) /\ call.index \in DOMAIN block
  /\ text' = <<block[call.index]>> /\ pc' = "returned"
  /\ UNCHANGED <<block, entry, call, i, len, writes>>

\* Seeded fault: the loop does not stop at Item'Last.
HasNullUnbounded ==
  /\ pc = "has_null"
  /\ \/ i \in DOMAIN block /\ block[i] = Nul
        /\ pc' = "returned" /\ i' = i
     \/ (i \in DOMAIN block => block[i] # Nul)
        /\ pc' = pc /\ i' = i + 1
  /\ UNCHANGED <<block, entry, call, len, text, writes>>

\* Item'Range bounds this loop, not the contents.
HasNull ==
  /\ pc = "has_null"
  /\ \/ i \in DOMAIN block /\ block[i] = Nul
        /\ pc' = "returned" /\ i' = i
     \/ i \in DOMAIN block /\ block[i] # Nul
        /\ pc' = pc /\ i' = i + 1
     \/ i \notin DOMAIN block
        /\ pc' = "Null_Termination_Error" /\ i' = i
  /\ UNCHANGED <<block, entry, call, len, text, writes>>

\* The C side changes the string in place: any cell but a terminator.
ForeignWrite(k, c) ==
  /\ pc \in Running /\ writes < MaxWrites
  /\ block[k] # Nul
  /\ block' = [block EXCEPT ![k] = c] /\ writes' = writes + 1
  /\ UNCHANGED <<entry, call, pc, i, len, text>>

Step ==
  \/ RejectNull \/ EnterScan \/ EnterToStringSized \/ EnterIndexSized
  \/ EnterToCString \/ ToCCharArray
  \/ ScanCell \/ ScanFound \/ OutOfRange
  \/ ReturnLength \/ CheckIndex \/ AllocateResult
  \/ CopyCell \/ CopyDone \/ Fetch \/ HasNull \/ Overrun

Next ==
  \/ Step
  \/ \E k \in DOMAIN block, c \in Cells : ForeignWrite(k, c)

Spec == Init /\ [][Next]_vars

\* An Ada call runs to its end: nothing in it waits.
FairSpec == Spec /\ WF_vars(Step)

----------------------------------------------------------------------------
(* Properties.                                                             *)

\* Every variable keeps its type; in particular the loop parameter of
\* "for I in C.size_t'Range" never passes size_t'Last + 1 (c_string.adb:116).
TypeOK ==
  /\ block \in Blocks /\ entry \in Blocks /\ call \in Calls
  /\ pc \in Running \union Ended
  /\ i \in 0 .. SizeLast + 1 /\ len \in 0 .. SizeLast
  /\ text \in Seq(Cells) /\ writes \in 0 .. MaxWrites

\* A caller that keeps the types' contract never makes Unsafe_Index read
\* outside the block, although nothing compares the index with the block
\* (c_string.adb:26), and even while C code truncates or rewrites the string.
NoOverrun == pc = "fault" => ~Legal(entry, call)

\* Length is not atomic.  When C shortens the string during the scan, the
\* value found (c_string.adb:118) is no longer the string's length, but it
\* lies between the present length and the one at the time of the call.
LengthBracketed ==
  (/\ pc \in {"measured", "copy", "fetch", "returned"}
   /\ call.name \in Scanning /\ Terminated(entry))
    => /\ Contract!FirstNul(block) <= len
       /\ len <= Contract!FirstNul(entry)

\* A call that C did not disturb behaves as the atomic call of
\* CStringContract: same value or same exception, for every operation, also
\* where an index or a length leaves Storage_Offset (c_string.adb:32) or
\* Integer.  Of a call that C did disturb nothing is promised.
AtomicCalls == Contract!CSpec

\* Every call ends: each loop of c_string.adb is bounded by Item'Range,
\* Result'Range or size_t'Range.
CallsEnd == (pc \in Running) ~> (pc \in Ended)
============================================================================
