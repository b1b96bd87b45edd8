--------------------------- MODULE CStringProofs ---------------------------
(***************************************************************************)
(* Proofs about CString, for any character set, any widths and any number  *)
(* of writes by C.                                                         *)
(***************************************************************************)
EXTENDS CString, FiniteSetTheorems, WellFoundedInduction, TLAPS

AllOps == {"Length", "To_String", "Index", "To_String_Sized", "Index_Sized",
           "To_C_String", "To_C_Char_Array"}

\* What a call is made of.
LEMMA CallParts ==
  ASSUME NEW c \in Calls
  PROVE  /\ c.name \in AllOps /\ c.null \in BOOLEAN
         /\ c.size \in 0 .. SizeLast /\ c.index \in 0 .. SizeLast
  BY WidthAssumption
     DEF Calls, Contract!Calls, Contract!CallsOf, Contract!ArrayOps, AllOps

\* What a block is made of.
LEMMA BlockParts ==
  ASSUME NEW b \in Blocks
  PROVE  \E n \in 0 .. SizeLast + 1 : b \in [0 .. n - 1 -> Cells]
  BY DEF Blocks, Contract!Blocks, Contract!BlocksOf, Contract!Cells, Cells

\* Writing a cell keeps a block a block of the same extent.
LEMMA BlockWrite ==
  ASSUME NEW b \in Blocks, NEW k \in DOMAIN b, NEW c \in Cells
  PROVE  /\ [b EXCEPT ![k] = c] \in Blocks
         /\ DOMAIN [b EXCEPT ![k] = c] = DOMAIN b
  <1>1. PICK n \in 0 .. SizeLast + 1 : b \in [0 .. n - 1 -> Cells]
    BY BlockParts
  <1>2. [b EXCEPT ![k] = c] \in [0 .. n - 1 -> Cells]
    BY <1>1
  <1> QED BY <1>1, <1>2
      DEF Blocks, Contract!Blocks, Contract!BlocksOf, Contract!Cells, Cells

\* The terminators the block had at the call are still there.
Persistent ==
  /\ DOMAIN block = DOMAIN entry
  /\ \A k \in DOMAIN entry : entry[k] = Nul => block[k] = Nul
  /\ writes = 0 => block = entry

\* The cells before k were no terminators at the call.
Passed(k) == \A j \in 0 .. k - 1 : j \in DOMAIN entry /\ entry[j] # Nul

\* What is known at each point of a call.
Progress ==
  /\ pc = "called" => i = 0 /\ text = <<>>
  /\ pc \in Running \ {"called"} => ~call.null
  /\ pc = "scan" => call.name \in Scanning /\ Passed(i)
  /\ (/\ pc \in {"measured", "copy", "fetch", "returned"}
      /\ call.name \in Scanning) =>
       /\ len \in DOMAIN block /\ block[len] = Nul /\ Passed(len)
       /\ len <= OffsetLast
  /\ pc = "measured" => call.name \in Scanning
  /\ pc = "copy" => /\ call.name \in {"To_String", "To_String_Sized"}
                    /\ i <= CopyLength /\ CopyLength <= IntegerLast
                    /\ i <= OffsetLast + 1
  /\ pc = "fetch" => \/ call.name = "Index" /\ call.index < len
                     \/ call.name = "Index_Sized" /\ call.index < call.size
  /\ pc = "has_null" => call.name = "To_C_String" /\ (i = 0 \/ i - 1 \in DOMAIN block)

IInv == TypeOK /\ Persistent /\ Progress /\ NoOverrun

LEMMA InitIInv == Init => IInv
  <1> SUFFICES ASSUME Init PROVE IInv
    OBVIOUS
  <1> USE WidthAssumption, MaxWritesAssumption DEF Init
  <1>1. TypeOK BY DEF TypeOK, Running, Ended
  <1>2. Persistent BY DEF Persistent
  <1>3. Progress BY DEF Progress, Running
  <1>4. NoOverrun BY DEF NoOverrun
  <1> QED BY <1>1, <1>2, <1>3, <1>4 DEF IInv

\* A step inside the Ada call changes neither the memory nor the call.
Quiet == UNCHANGED <<block, entry, call, writes>>

LEMMA StepQuiet == Step => Quiet
  BY DEF Step, Quiet, Goto, RejectNull, Called, EnterScan, EnterToStringSized,
         EnterIndexSized, EnterToCString, ToCCharArray, ScanCell, ScanFound,
         OutOfRange, ReturnLength, CheckIndex, AllocateResult, CopyCell,
         CopyDone, Fetch, HasNull, Overrun

\* Types, except for the C side's writes.
LEMMA TypeStep == IInv /\ Step => TypeOK'
  <1> SUFFICES ASSUME IInv, Step PROVE TypeOK'
    OBVIOUS
  <1>0. PICK n \in 0 .. SizeLast + 1 : block \in [0 .. n - 1 -> Cells]
    BY BlockParts DEF IInv, TypeOK
  <1> USE <1>0, WidthAssumption, MaxWritesAssumption
      DEF IInv, TypeOK, Running, Ended, Goto
  <1>1. CASE RejectNull BY <1>1 DEF RejectNull
  <1>2. CASE EnterScan BY <1>2 DEF EnterScan, Called
  <1>3. CASE EnterToStringSized BY <1>3 DEF EnterToStringSized, Called
  <1>4. CASE EnterIndexSized BY <1>4 DEF EnterIndexSized, Called
  <1>5. CASE EnterToCString BY <1>5 DEF EnterToCString, Called
  <1>6. CASE ToCCharArray BY <1>6 DEF ToCCharArray, Called
  <1>7. CASE ScanCell BY <1>7 DEF ScanCell, Readable
  <1>8. CASE ScanFound BY <1>8 DEF ScanFound, Readable
  <1>9. CASE OutOfRange BY <1>9 DEF OutOfRange
  <1>10. CASE ReturnLength BY <1>10 DEF ReturnLength
  <1>11. CASE CheckIndex BY <1>11 DEF CheckIndex
  <1>12. CASE AllocateResult BY <1>12 DEF AllocateResult
  <1>13. CASE CopyCell BY <1>13 DEF CopyCell, Readable
  <1>14. CASE CopyDone BY <1>14 DEF CopyDone
  <1>15. CASE Fetch BY <1>15 DEF Fetch
  <1>16. CASE HasNull BY <1>16 DEF HasNull, Progress
  <1>17. CASE Overrun BY <1>17 DEF Overrun
  <1> QED BY <1>1, <1>2, <1>3, <1>4, <1>5, <1>6, <1>7, <1>8, <1>9, <1>10,
             <1>11, <1>12, <1>13, <1>14, <1>15, <1>16, <1>17 DEF Step

\* What a step of the call leaves known.
LEMMA ProgressStep == IInv /\ Step => Progress'
  <1> SUFFICES ASSUME IInv, Step PROVE Progress'
    OBVIOUS
  <1>0. Quiet
    BY StepQuiet
  <1>c. /\ call.name \in AllOps /\ call.null \in BOOLEAN
        /\ call.size \in 0 .. SizeLast /\ call.index \in 0 .. SizeLast
    BY CallParts DEF IInv, TypeOK
  <1> USE <1>0, <1>c, WidthAssumption
      DEF IInv, TypeOK, Persistent, Progress, Passed, Running, Quiet, Goto,
          Scanning, Contract!TerminatedOps, CopyLength, AllOps
  <1>1. CASE RejectNull BY <1>1 DEF RejectNull
  <1>2. CASE EnterScan BY <1>2 DEF EnterScan, Called
  <1>3. CASE EnterToStringSized BY <1>3 DEF EnterToStringSized, Called
  <1>4. CASE EnterIndexSized BY <1>4 DEF EnterIndexSized, Called
  <1>5. CASE EnterToCString BY <1>5 DEF EnterToCString, Called
  <1>6. CASE ToCCharArray BY <1>6 DEF ToCCharArray, Called
  <1>7. CASE ScanCell BY <1>7 DEF ScanCell, Readable
  <1>8. CASE ScanFound BY <1>8 DEF ScanFound, Readable
  <1>9. CASE OutOfRange BY <1>9 DEF OutOfRange
  <1>10. CASE ReturnLength BY <1>10 DEF ReturnLength
  <1>11. CASE CheckIndex BY <1>11 DEF CheckIndex
  <1>12. CASE AllocateResult BY <1>12 DEF AllocateResult
  <1>13. CASE CopyCell BY <1>13 DEF CopyCell, Readable
  <1>14. CASE CopyDone BY <1>14 DEF CopyDone
  <1>15. CASE Fetch BY <1>15 DEF Fetch
  <1>16. CASE HasNull BY <1>16 DEF HasNull
  <1>17. CASE Overrun BY <1>17 DEF Overrun
  <1> QED BY <1>1, <1>2, <1>3, <1>4, <1>5, <1>6, <1>7, <1>8, <1>9, <1>10,
             <1>11, <1>12, <1>13, <1>14, <1>15, <1>16, <1>17 DEF Step

\* An out-of-bounds read needs a caller that broke the types' contract.
LEMMA NoOverrunStep == IInv /\ Step => NoOverrun'
  <1> SUFFICES ASSUME IInv, Step, pc' = "fault", Legal(entry, call)
               PROVE  FALSE
    BY StepQuiet DEF NoOverrun, Quiet
  <1>1. Overrun
    BY DEF IInv, NoOverrun, Step, Goto, RejectNull, Called, EnterScan,
           EnterToStringSized, EnterIndexSized, EnterToCString, ToCCharArray,
           ScanCell, ScanFound, OutOfRange, ReturnLength, CheckIndex,
           AllocateResult, CopyCell, CopyDone, Fetch, HasNull
  <1>c. /\ call.name \in AllOps /\ call.null \in BOOLEAN
        /\ call.size \in 0 .. SizeLast /\ call.index \in 0 .. SizeLast
    BY CallParts DEF IInv, TypeOK
  <1>n. PICK n \in 0 .. SizeLast + 1 : entry \in [0 .. n - 1 -> Cells]
    BY BlockParts DEF IInv, TypeOK
  <1>d. DOMAIN block = 0 .. n - 1 /\ ~call.null
    BY <1>1, <1>n DEF Overrun, Reading, IInv, Persistent, Progress, Running
  <1> USE <1>1, <1>c, <1>n, <1>d, WidthAssumption
      DEF IInv, TypeOK, Progress, Passed, Legal, Contract!Legal,
          Contract!Terminated, Contract!SizedOps, Contract!ArrayOps,
          Contract!TerminatedOps, Scanning, Overrun, Reading, At, Readable
  <1>2. CASE pc = "scan"
    <2>1. PICK k \in DOMAIN entry : entry[k] = Nul
      BY <1>2
    <2>2. i <= k
      BY <1>2, <2>1
    <2> QED BY <1>2, <2>1, <2>2
  <1>3. CASE pc = "copy"
    BY <1>3 DEF CopyLength
  <1>4. CASE pc = "fetch"
    BY <1>4
  <1> QED BY <1>2, <1>3, <1>4

\* A write by C changes nothing but the block, and removes no terminator.
LEMMA WriteStep ==
  ASSUME IInv, NEW k \in DOMAIN block, NEW c \in Cells, ForeignWrite(k, c)
  PROVE  IInv'
  <1>1. block' \in Blocks /\ DOMAIN block' = DOMAIN block
    BY BlockWrite DEF ForeignWrite, IInv, TypeOK
  <1>2. TypeOK'
    BY <1>1, MaxWritesAssumption DEF ForeignWrite, IInv, TypeOK
  <1>3. Persistent'
    BY <1>1, MaxWritesAssumption DEF ForeignWrite, IInv, TypeOK, Persistent
  <1>4. Progress'
    BY <1>1 DEF ForeignWrite, IInv, TypeOK, Progress, Passed, CopyLength
  <1>5. NoOverrun'
    BY DEF ForeignWrite, IInv, NoOverrun, Running
  <1> QED BY <1>2, <1>3, <1>4, <1>5 DEF IInv

\* The inductive invariant.
THEOREM Invariance == Spec => []IInv
  <1>1. IInv /\ [Next]_vars => IInv'
    <2> SUFFICES ASSUME IInv, [Next]_vars PROVE IInv'
      OBVIOUS
    <2>1. CASE Step
      <3>1. Persistent'
        BY <2>1, StepQuiet DEF Quiet, IInv, Persistent
      <3> QED BY <2>1, <3>1, TypeStep, ProgressStep, NoOverrunStep DEF IInv
    <2>2. ASSUME NEW k \in DOMAIN block, NEW c \in Cells, ForeignWrite(k, c)
          PROVE  IInv'
      BY <2>2, WriteStep
    <2>3. CASE UNCHANGED vars
      BY <2>3 DEF vars, IInv, TypeOK, Persistent, Progress, Passed,
                  CopyLength, NoOverrun
    <2> QED BY <2>1, <2>2, <2>3 DEF Next
  <1> QED BY InitIInv, <1>1, PTL DEF Spec

\* Every variable keeps its type; the scan's loop parameter stays in range.
THEOREM TypeCorrect == Spec => []TypeOK
  <1>1. IInv => TypeOK BY DEF IInv
  <1> QED BY Invariance, <1>1, PTL

\* No legal call reads outside its block, whatever C writes meanwhile.
THEOREM NoOverrunHolds == Spec => []NoOverrun
  <1>1. IInv => NoOverrun BY DEF IInv
  <1> QED BY Invariance, <1>1, PTL

----------------------------------------------------------------------------
(* How long a call takes.                                                  *)

\* What is left of a call on a block of n cells: each loop may still come to
\* the end of the block, and a scan can be followed by a copy.
StepsLeft(n) ==
  CASE pc = "called" -> 2 * n + 4
    [] pc = "scan" -> 2 * n + 3 - i
    [] pc = "measured" -> n + 2
    [] pc \in {"copy", "has_null"} -> n + 1 - i
    [] pc = "fetch" -> 1
    [] OTHER -> 0

\* The loop parameter has passed nothing but cells of the block.
InBlock == i = 0 \/ i - 1 \in DOMAIN block

LEMMA InBlockHolds == Spec => []InBlock
  <1>1. Init => InBlock
    BY DEF Init, InBlock
  <1>2. IInv /\ InBlock /\ [Next]_vars => InBlock'
    <2> SUFFICES ASSUME IInv, InBlock, [Next]_vars PROVE InBlock'
      OBVIOUS
    <2> USE DEF InBlock, IInv, TypeOK, Goto
    <2>1. CASE Step
      <3>1. block' = block
        BY <2>1, StepQuiet DEF Quiet
      <3>2. CASE ScanCell \/ CopyCell \/ HasNull
        <4>1. i' = i \/ (i' = i + 1 /\ i \in DOMAIN block)
          BY <3>2 DEF ScanCell, CopyCell, HasNull
        <4> QED BY <3>1, <4>1
      <3>3. CASE AllocateResult
        BY <3>3 DEF AllocateResult
      <3>4. CASE Step /\ ~(ScanCell \/ CopyCell \/ HasNull \/ AllocateResult)
        <4>1. i' = i
          BY <3>4 DEF Step, RejectNull, EnterScan, EnterToStringSized,
               EnterIndexSized, EnterToCString, ToCCharArray, ScanFound,
               OutOfRange, ReturnLength, CheckIndex, CopyDone, Fetch, Overrun
        <4> QED BY <3>1, <4>1
      <3> QED BY <2>1, <3>2, <3>3, <3>4
    <2>2. ASSUME NEW k \in DOMAIN block, NEW c \in Cells, ForeignWrite(k, c)
          PROVE  InBlock'
      BY <2>2, BlockWrite DEF ForeignWrite
    <2>3. CASE UNCHANGED vars
      BY <2>3 DEF vars
    <2> QED BY <2>1, <2>2, <2>3 DEF Next
  <1> QED BY <1>1, <1>2, Invariance, PTL DEF Spec

\* What is left never exceeds two passes over the block, and each step of the
\* call leaves less, while the writes of C leave as much.
Bounded == \A n \in Nat : IsExtent(block, n) => StepsLeft(n) \in 0 .. 2 * n + 4
Descends ==
  \A n \in Nat : IsExtent(block, n) =>
    IF Step THEN StepsLeft(n)' < StepsLeft(n) ELSE StepsLeft(n)' = StepsLeft(n)

\* A step changes the point of the call, or the loop parameter, for less.
LEMMA StepDescends ==
  ASSUME IInv, InBlock, Step, NEW n \in Nat, IsExtent(block, n)
  PROVE  StepsLeft(n)' < StepsLeft(n)
  <1>1. n \in Nat /\ DOMAIN block = 0 .. n - 1 /\ block' = block
    BY StepQuiet DEF IsExtent, Quiet
  <1>2. i \in 0 .. n
    BY <1>1 DEF InBlock, IInv, TypeOK
  <1> USE <1>1, <1>2 DEF StepsLeft, Goto
  <1>3. CASE RejectNull BY <1>3 DEF RejectNull
  <1>4. CASE EnterScan BY <1>4 DEF EnterScan, Called, IInv, Progress
  <1>5. CASE EnterToStringSized
    BY <1>5 DEF EnterToStringSized, Called, IInv, Progress
  <1>6. CASE EnterIndexSized BY <1>6 DEF EnterIndexSized, Called
  <1>7. CASE EnterToCString BY <1>7 DEF EnterToCString, Called, IInv, Progress
  <1>8. CASE ToCCharArray BY <1>8 DEF ToCCharArray, Called
  <1>9. CASE ScanCell BY <1>9 DEF ScanCell
  <1>10. CASE ScanFound BY <1>10 DEF ScanFound
  <1>11. CASE OutOfRange BY <1>11 DEF OutOfRange, Reading
  <1>12. CASE ReturnLength BY <1>12 DEF ReturnLength
  <1>13. CASE CheckIndex BY <1>13 DEF CheckIndex
  <1>14. CASE AllocateResult BY <1>14 DEF AllocateResult
  <1>15. CASE CopyCell BY <1>15 DEF CopyCell
  <1>16. CASE CopyDone BY <1>16 DEF CopyDone
  <1>17. CASE Fetch BY <1>17 DEF Fetch
  <1>18. CASE HasNull BY <1>18 DEF HasNull
  <1>19. CASE Overrun BY <1>19 DEF Overrun, Reading
  <1> QED BY <1>3, <1>4, <1>5, <1>6, <1>7, <1>8, <1>9, <1>10, <1>11, <1>12,
             <1>13, <1>14, <1>15, <1>16, <1>17, <1>18, <1>19 DEF Step

\* Whatever C writes meanwhile, a call on n cells ends after at most 2 n + 4 of
\* its steps: legal or not, it cannot go on for ever (CallsEnd is this together
\* with fairness).
THEOREM CallBounded == Spec => []Bounded /\ [][Descends]_vars
  <1>1. IInv /\ InBlock => Bounded
    <2> SUFFICES ASSUME IInv, InBlock, NEW n \in Nat, IsExtent(block, n)
                 PROVE  StepsLeft(n) \in 0 .. 2 * n + 4
      BY DEF Bounded
    <2>1. i \in 0 .. n
      BY DEF InBlock, IInv, TypeOK, IsExtent
    <2> QED BY <2>1 DEF StepsLeft
  <1>2. IInv /\ InBlock /\ [Next]_vars => [Descends]_vars
    <2> SUFFICES ASSUME IInv, InBlock, Next, NEW n \in Nat, IsExtent(block, n)
                 PROVE  IF Step THEN StepsLeft(n)' < StepsLeft(n)
                                ELSE StepsLeft(n)' = StepsLeft(n)
      BY DEF Descends
    <2>1. CASE Step
      BY <2>1, StepDescends
    <2>2. CASE ~Step
      <3>1. pc' = pc /\ i' = i
        BY <2>2 DEF Next, ForeignWrite
      <3> QED BY <2>2, <3>1 DEF StepsLeft
    <2> QED BY <2>1, <2>2
  <1> QED BY <1>1, <1>2, Invariance, InBlockHolds, PTL DEF Spec

----------------------------------------------------------------------------
(* The first nul.                                                          *)

IsNul1(b, k) == Contract!IsFirstNul(b, k)

\* A block has at most one first nul, so Length's promise names one value.
LEMMA FirstNulIs ==
  ASSUME NEW b \in Blocks, NEW k, IsNul1(b, k)
  PROVE  Contract!FirstNul(b) = k
  <1>1. PICK n \in 0 .. SizeLast + 1 : b \in [0 .. n - 1 -> Cells]
    BY BlockParts
  <1>2. k \in DOMAIN b /\ Contract!IsFirstNul(b, k)
    BY DEF IsNul1, Contract!IsFirstNul
  <1>3. \A m \in DOMAIN b : Contract!IsFirstNul(b, m) => m = k
    BY <1>1, <1>2 DEF Contract!IsFirstNul
  <1> QED BY <1>2, <1>3 DEF Contract!FirstNul

\* A terminated block has a first nul: of the intervals that end at a nul, one
\* is minimal for inclusion.
LEMMA FirstNulExists ==
  ASSUME NEW b \in Blocks, NEW m \in DOMAIN b, b[m] = Nul
  PROVE  \E k \in 0 .. m : IsNul1(b, k)
  <1>1. PICK n \in 0 .. SizeLast + 1 : b \in [0 .. n - 1 -> Cells]
    BY BlockParts
  <1> DEFINE T == {0 .. k : k \in {j \in 0 .. m : b[j] = Nul}}
  <1>2. m \in Nat
    BY <1>1, WidthAssumption
  <1>3. T \subseteq FiniteSubsetsOf(Nat) /\ 0 .. m \in T
    <2>1. \A k \in 0 .. m : IsFiniteSet(0 .. k)
      BY <1>2, FS_Interval
    <2> QED BY <1>2, <2>1 DEF FiniteSubsetsOf
  <1>4. PICK t \in T : \A u \in T : ~(<<u, t>> \in StrictSubsetOrdering(Nat))
    <2> HIDE DEF T
    <2> QED BY <1>3, FS_StrictSubsetOrderingWellFounded, WFMin, Zenon
  <1>5. PICK k \in 0 .. m : t = 0 .. k /\ b[k] = Nul
    OBVIOUS
  <1>6. ASSUME NEW j \in 0 .. k - 1, b[j] = Nul PROVE FALSE
    <2>1. 0 .. j \in T
      BY <1>2, <1>6
    <2>2. /\ 0 .. j \subseteq 0 .. k /\ 0 .. j # 0 .. k
          /\ 0 .. j \subseteq Nat /\ 0 .. k \subseteq Nat
      BY <1>2, <1>6
    <2>3. <<0 .. j, t>> \in StrictSubsetOrdering(Nat)
      BY <1>5, <2>2 DEF StrictSubsetOrdering
    <2> QED BY <1>4, <2>1, <2>3
  <1> QED BY <1>1, <1>5, <1>6 DEF IsNul1, Contract!IsFirstNul

\* The length a call works with lies between the string's present length and
\* its length when the call was made.
THEOREM LengthBracketedHolds == Spec => []LengthBracketed
  <1>1. IInv => LengthBracketed
    <2> SUFFICES ASSUME IInv,
                        pc \in {"measured", "copy", "fetch", "returned"},
                        call.name \in Scanning, Terminated(entry)
                 PROVE  /\ Contract!FirstNul(block) <= len
                        /\ len <= Contract!FirstNul(entry)
      BY DEF LengthBracketed
    <2>1. len \in DOMAIN block /\ block[len] = Nul /\ Passed(len)
      BY DEF IInv, Progress
    <2>2. PICK k \in 0 .. len : IsNul1(block, k)
      BY <2>1, FirstNulExists DEF IInv, TypeOK
    <2>3. PICK m \in DOMAIN entry : entry[m] = Nul
      BY DEF Terminated
    <2>4. PICK e \in 0 .. m : IsNul1(entry, e)
      BY <2>3, FirstNulExists DEF IInv, TypeOK
    <2>5. len <= e
      BY <2>1, <2>3, <2>4, WidthAssumption
         DEF IsNul1, Contract!IsFirstNul, Passed, IInv, TypeOK
    <2> QED BY <2>2, <2>4, <2>5, FirstNulIs DEF IInv, TypeOK
  <1> QED BY Invariance, <1>1, PTL

----------------------------------------------------------------------------
(* A call whose memory nobody has written is atomic.                       *)

\* What Result holds at each point of such a call.
Copied == writes = 0 =>
  /\ pc \in Running \ {"copy"} => text = <<>>
  /\ pc = "copy" => text = Prefix(block, i)
  /\ pc = "has_null" => Passed(i)

\* One more cell makes the next prefix.
LEMMA PrefixAppend ==
  ASSUME NEW b \in Blocks, NEW k \in Nat, k \in DOMAIN b
  PROVE  Append(Prefix(b, k), b[k]) = Prefix(b, k + 1)
  <1>1. PICK n \in 0 .. SizeLast + 1 : b \in [0 .. n - 1 -> Cells]
    BY BlockParts
  <1>2. Prefix(b, k) \in Seq(Cells) /\ Len(Prefix(b, k)) = k
    BY <1>1, WidthAssumption DEF Prefix
  <1> QED BY <1>1, <1>2, WidthAssumption DEF Prefix

LEMMA CopiedStep == IInv /\ Copied /\ [Next]_vars => Copied'
  <1> SUFFICES ASSUME IInv, Copied, [Next]_vars, writes' = 0 PROVE Copied'
    BY DEF Copied
  <1>q. Step => Quiet
    BY StepQuiet
  <1> USE <1>q DEF IInv, TypeOK, Persistent, Copied, Passed, Running, Quiet, Goto
  <1>1. CASE CopyCell
    BY <1>1, PrefixAppend DEF CopyCell, Step
  <1>2. CASE AllocateResult
    BY <1>2 DEF AllocateResult, Prefix, Step
  <1>3. CASE EnterToStringSized
    BY <1>3 DEF EnterToStringSized, Called, Progress, Prefix, Step
  <1>4. CASE HasNull
    BY <1>4 DEF HasNull, Progress, Step
  <1>5. CASE EnterToCString
    BY <1>5 DEF EnterToCString, Called, Progress, Step
  <1>6. CASE RejectNull \/ EnterScan \/ EnterIndexSized \/ ToCCharArray
    BY <1>6 DEF RejectNull, EnterScan, EnterIndexSized, ToCCharArray, Called
  <1>7. CASE ScanCell \/ ScanFound \/ OutOfRange \/ ReturnLength
    BY <1>7 DEF ScanCell, ScanFound, OutOfRange, ReturnLength
  <1>8. CASE CheckIndex \/ CopyDone \/ Fetch \/ Overrun
    BY <1>8 DEF CheckIndex, CopyDone, Fetch, Overrun
  <1>9. CASE UNCHANGED vars
    BY <1>9 DEF vars
  <1>10. ~(\E k \in DOMAIN block, c \in Cells : ForeignWrite(k, c))
    BY MaxWritesAssumption DEF ForeignWrite
  <1> QED BY <1>1, <1>2, <1>3, <1>4, <1>5, <1>6, <1>7, <1>8, <1>9, <1>10
      DEF Next, Step

\* The length found in unwritten memory is the string's.
LEMMA LengthFound ==
  ASSUME IInv, writes = 0, pc = "measured" \/ pc \in {"copy", "fetch"},
         call.name \in Scanning
  PROVE  Contract!FirstNul(block) = len
  <1>1. len \in DOMAIN block /\ block[len] = Nul /\ Passed(len) /\ block = entry
    BY DEF IInv, Progress, Persistent
  <1>2. IsNul1(block, len)
    BY <1>1 DEF IsNul1, Contract!IsFirstNul, Passed
  <1> QED BY <1>2, FirstNulIs DEF IInv, TypeOK

\* A step that stays inside the call, or inside one that C has disturbed, is
\* invisible.
LEMMA InsideStep ==
  ASSUME IInv, Step, pc' \in Running \/ writes # 0
  PROVE  UNCHANGED Contract!cvars
  <1>1. pc \in Running
    BY DEF Step, Running, Goto, RejectNull, Called, EnterScan,
           EnterToStringSized, EnterIndexSized, EnterToCString, ToCCharArray,
           ScanCell, ScanFound, OutOfRange, ReturnLength, CheckIndex,
           AllocateResult, CopyCell, CopyDone, Fetch, HasNull, Overrun,
           Reading
  <1> QED BY <1>1, StepQuiet DEF Quiet, Contract!cvars, Running

\* The step that ends a legal call ends it with the outcome of the contract.
LEMMA EndStep ==
  ASSUME writes = 0, IInv, Copied, Step, pc' \notin Running
  PROVE  Contract!CReturn
  <1> DEFINE num == IF pc' = "returned" /\ call'.name = "Length" THEN len' ELSE 0
             txt == IF pc' = "returned" THEN text' ELSE <<>>
  <1>0. Quiet /\ TypeOK'
    BY StepQuiet, TypeStep
  <1>c. /\ call.name \in AllOps /\ call.null \in BOOLEAN
        /\ call.size \in 0 .. SizeLast /\ call.index \in 0 .. SizeLast
    BY CallParts DEF IInv, TypeOK
  <1>r. pc \in Running /\ writes = 0 /\ block = entry
    BY DEF IInv, TypeOK, Persistent, Step, Running, Goto, RejectNull, Called,
           EnterScan, EnterToStringSized, EnterIndexSized, EnterToCString,
           ToCCharArray, ScanCell, ScanFound, OutOfRange, ReturnLength,
           CheckIndex, AllocateResult, CopyCell, CopyDone, Fetch, HasNull,
           Overrun, Reading
  <1>1. ASSUME Legal(block, call)
        PROVE  Contract!Promised(block, call,
                 [status |-> pc', number |-> num, text |-> txt])
    <2> USE <1>0, <1>c, <1>r, WidthAssumption
        DEF IInv, Progress, Copied, Quiet, Goto, Running, Contract!Promised,
            Contract!Value, Contract!Raise, Contract!InReach,
            Contract!Offsets, AllOps
    <2>f. pc = "measured" \/ (pc \in {"copy", "fetch"} /\ call.name \in Scanning)
            => Contract!FirstNul(block) = len
      BY LengthFound
    <2>1. CASE RejectNull BY <2>1 DEF RejectNull
    <2>3. CASE EnterToStringSized BY <2>3 DEF EnterToStringSized, Called
    <2>4. CASE EnterIndexSized BY <2>4 DEF EnterIndexSized, Called
    <2>6. CASE ToCCharArray BY <2>6 DEF ToCCharArray, Called
    <2>t. len \in Nat /\ i \in Nat /\ Scanning = {"Length", "To_String", "Index"}
      BY WidthAssumption DEF TypeOK, Scanning, Contract!TerminatedOps
    <2>n. PICK n \in 0 .. SizeLast + 1 : block \in [0 .. n - 1 -> Cells]
      BY BlockParts DEF TypeOK
    <2>9. CASE OutOfRange
      <3>1. /\ pc' = "Constraint_Error" /\ num = 0 /\ txt = <<>>
            /\ Reading /\ ~Readable(At) /\ ~call.null
        BY <2>9 DEF OutOfRange, Reading
      <3>2. CASE pc = "scan"
        <4>1. PICK m \in DOMAIN block : block[m] = Nul
          BY <3>1, <3>2, <1>1, <2>t
             DEF Legal, Contract!Legal, Contract!Terminated, Contract!SizedOps,
                 Contract!ArrayOps, Contract!TerminatedOps
        <4>2. PICK k \in 0 .. m : IsNul1(block, k)
          BY <4>1, FirstNulExists DEF TypeOK
        <4>3. Contract!FirstNul(block) = k
          BY <4>2, FirstNulIs DEF TypeOK
        <4>4. i <= k /\ k <= SizeLast
          BY <3>2, <4>1, <4>2, <2>t, <2>n
             DEF IsNul1, Contract!IsFirstNul, Passed
        <4>5. ~Contract!InReach(block)
          BY <3>1, <3>2, <4>1, <4>3, <4>4, <2>t, <2>n DEF Readable, At
        <4> HIDE DEF num, txt, Contract!InReach
        <4> QED BY <3>1, <3>2, <4>5, <2>t
      <3>3. CASE pc = "copy"
        <4>1. call.name = "To_String_Sized" /\ ~Contract!Offsets(call.size)
          BY <3>1, <3>3, <2>t DEF Reading, Readable, At, CopyLength, TypeOK
        <4> HIDE DEF num, txt, Contract!Offsets
        <4> QED BY <3>1, <3>3, <4>1, <2>t
      <3>4. CASE pc = "fetch"
        <4>1. call.name = "Index_Sized" /\ ~(call.index <= OffsetLast)
          BY <3>1, <3>4, <2>t DEF Reading, Readable, At
        <4> HIDE DEF num, txt
        <4> QED BY <3>1, <3>4, <4>1, <2>t
      <3> QED BY <3>1, <3>2, <3>3, <3>4 DEF Reading
    <2>10. CASE ReturnLength BY <2>10, <2>f DEF ReturnLength
    <2>11. CASE CheckIndex BY <2>11, <2>f, <2>t DEF CheckIndex
    <2>12. CASE AllocateResult
      <3>1. Contract!FirstNul(block) = len /\ call.name = "To_String"
        BY <2>12, <2>f DEF AllocateResult
      <3>2. len > IntegerLast /\ pc' = "Constraint_Error"
        BY <2>12 DEF AllocateResult
      <3>3. ~(Contract!FirstNul(block) <= IntegerLast)
        BY <3>1, <3>2, <2>t
      <3>4. num = 0 /\ txt = <<>> /\ ~call.null
        BY <2>12, <3>2 DEF AllocateResult
      <3> HIDE DEF num, txt
      <3> QED BY <3>1, <3>2, <3>3, <3>4
    <2>14. CASE CopyDone
      <3>1. /\ pc' = "returned" /\ pc = "copy" /\ i = CopyLength
            /\ ~call.null /\ call.name \in {"To_String", "To_String_Sized"}
            /\ CopyLength <= IntegerLast /\ CopyLength <= OffsetLast + 1
            /\ num = 0
        BY <2>14 DEF CopyDone
      <3>2. text' = Prefix(block, CopyLength)
        BY <2>14, <3>1 DEF CopyDone
      <3>3. CASE call.name = "To_String"
        <4>1. CopyLength = len /\ len = Contract!FirstNul(block)
          BY <3>1, <3>3, <2>f, <2>t DEF CopyLength
        <4>2. txt = Contract!Prefix(block, Contract!FirstNul(block))
          BY <3>1, <3>2, <4>1 DEF Prefix, Contract!Prefix
        <4>3. Contract!InReach(block) /\ Contract!FirstNul(block) <= IntegerLast
          BY <3>1, <3>3, <4>1, <2>t, WidthAssumption
        <4> HIDE DEF num, txt, Contract!InReach
        <4> QED BY <3>1, <3>3, <4>2, <4>3
      <3>4. CASE call.name = "To_String_Sized"
        <4>1. CopyLength = call.size
          BY <3>4 DEF CopyLength
        <4>2. txt = Contract!Prefix(block, call.size)
          BY <3>1, <3>2, <4>1 DEF Prefix, Contract!Prefix
        <4>3. Contract!Offsets(call.size) /\ call.size <= IntegerLast
          BY <3>1, <4>1, WidthAssumption
        <4> HIDE DEF num, txt, Contract!Offsets
        <4> QED BY <3>1, <3>4, <4>2, <4>3
      <3> QED BY <3>1, <3>3, <3>4
    <2>15. CASE Fetch
      <3>1. /\ pc' = "returned" /\ num = 0 /\ txt = <<block[call.index]>>
            /\ pc = "fetch" /\ ~call.null /\ call.index <= OffsetLast
        BY <2>15 DEF Fetch, Readable
      <3>2. CASE call.name = "Index"
        <4>1. Contract!FirstNul(block) = len /\ len <= OffsetLast
          BY <3>1, <3>2, <2>f, <2>t
        <4>2. call.index < len
          BY <3>1, <3>2
        <4> HIDE DEF num, txt
        <4> QED BY <3>1, <3>2, <4>1, <4>2
      <3>3. CASE call.name = "Index_Sized"
        <4>1. call.index < call.size
          BY <3>1, <3>3
        <4> HIDE DEF num, txt
        <4> QED BY <3>1, <3>3, <4>1
      <3> QED BY <3>1, <3>2, <3>3
    <2>16. CASE HasNull
      <3>1. /\ pc = "has_null" /\ call.name = "To_C_String" /\ ~call.null
            /\ text' = <<>> /\ num = 0 /\ Passed(i)
            /\ i = 0 \/ i - 1 \in DOMAIN block
        BY <2>16 DEF HasNull
      <3>2. CASE pc' = "returned"
        <4>1. Contract!Terminated(block)
          BY <2>16, <3>2 DEF HasNull, Contract!Terminated
        <4> QED BY <3>1, <3>2, <4>1
      <3>3. CASE pc' # "returned"
        <4>1. pc' = "Null_Termination_Error" /\ i \notin DOMAIN block
          BY <2>16, <3>3 DEF HasNull
        <4>2. ~Contract!Terminated(block)
          BY <3>1, <4>1, <2>t, <2>n, WidthAssumption
             DEF Contract!Terminated, Passed
        <4> QED BY <3>1, <4>1, <4>2
      <3> QED BY <3>2, <3>3
    <2>17. CASE Overrun BY <2>17, <1>1, NoOverrunStep DEF Overrun, NoOverrun, Legal
    <2>18. ~(EnterScan \/ EnterToCString \/ ScanCell \/ ScanFound \/ CopyCell)
      BY DEF EnterScan, EnterToCString, Called, ScanCell, ScanFound, CopyCell
    <2> HIDE DEF Contract!Promised, num, txt
    <2> QED BY <2>1, <2>3, <2>4, <2>6, <2>9, <2>10, <2>11, <2>12, <2>14, <2>15,
               <2>16, <2>17, <2>18 DEF Step
  <1>2. pc' # "running"
    BY <1>0 DEF TypeOK, Running, Ended
  <1> QED BY <1>0, <1>1, <1>2, <1>r DEF Contract!CReturn, Quiet, Legal, Running

\* A call that C does not disturb behaves as one atomic step, with the value or
\* the exception c_string.ads promises, for every operation; of a
\* disturbed call the contract promises nothing.
THEOREM Atomicity == Spec => AtomicCalls
  <1>1. Init => Contract!CInit
    BY DEF Init, Contract!CInit, Running, Calls, Blocks
  <1>2. Init => Copied
    BY DEF Init, Copied, Running
  <1>3. Spec => []Copied
    BY <1>2, CopiedStep, Invariance, PTL DEF Spec
  <1>4. IInv /\ Copied /\ [Next]_vars => [Contract!CReturn]_(Contract!cvars)
    <2> SUFFICES ASSUME IInv, Copied, [Next]_vars
                 PROVE  Contract!CReturn \/ UNCHANGED Contract!cvars
      OBVIOUS
    <2>1. CASE Step
      BY <2>1, InsideStep, EndStep
    <2>2. CASE UNCHANGED vars
      BY <2>2 DEF vars, Contract!cvars
    <2>3. ASSUME NEW k \in DOMAIN block, NEW c \in Cells, ForeignWrite(k, c)
          PROVE  UNCHANGED Contract!cvars
      BY <2>3, MaxWritesAssumption
         DEF IInv, TypeOK, ForeignWrite, Contract!cvars, Running
    <2> QED BY <2>1, <2>2, <2>3 DEF Next
  <1> QED BY <1>1, <1>3, <1>4, Invariance, PTL
      DEF Spec, AtomicCalls, Contract!CSpec
============================================================================
