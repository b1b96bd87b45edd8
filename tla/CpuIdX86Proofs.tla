-------------------------- MODULE CpuIdX86Proofs ---------------------------
(***************************************************************************)
(* Proofs about CpuIdX86, for any processors, any number of descriptor     *)
(* sets and any phase of their cycle.                                      *)
(***************************************************************************)
EXTENDS CpuIdX86, WellFoundedInduction, TLAPS

\* The levels whose search has ended.
Earlier == [l1i |-> {}, l1d |-> {"l1i"}, l2 |-> {"l1i", "l1d"},
            l3 |-> {"l1i", "l1d", "l2"}]
Done ==
  IF pc \in {"check", "intel"} THEN {}
  ELSE IF pc \in {"count", "search"} THEN Earlier[level] ELSE Levels

\* Where the search is, and how far set k is ahead of it in the cycle.
Control ==
  /\ pc \in {"check", "intel", "count", "search", "common", "answer", "done"}
  /\ turn \in IF SetCount = 0 THEN {1} ELSE 1 .. SetCount
  /\ DOMAIN cpu = {"l1i", "l1d", "l2", "l3", "line", "flags"}
  /\ pc = "check" => level = "none"
  /\ pc \in {"count", "search"} => level \in Levels
  /\ pc = "search" => left \in 0 .. SetCount
Ahead(k) == IF turn <= k THEN k - turn ELSE k - turn + SetCount

\* No register of set k that holds something has a byte of the table.
Unmatched(l, k) ==
  \A r, b \in 1 .. 4 : Holds(hw.sets[k][r]) => ~Describes(l, hw.sets[k][r][b])

\* The sets that the search has left behind, wherever it began, do not match.
Behind ==
  pc = "search" =>
    \A k \in 1 .. SetCount : Ahead(k) < left \/ Unmatched(level, k)

\* What has been found, and the line.
Found(l) == cpu[l] \in Reported(l) \/ (cpu[l] = 0 /\ Reported(l) = {})
Sizes ==
  pc # "done" => \A l \in Levels : IF l \in Done THEN Found(l) ELSE cpu[l] = 0
Line ==
  pc # "done" =>
    \/ cpu.line = 0 /\ \A l \in Levels : cpu[l] = 0
    \/ \E l \in Levels :
         /\ \E r \in Table[l] : r[2] = cpu[l] /\ r[3] = cpu.line
         /\ \A m \in Levels : l \in Earlier[m] => cpu[m] = 0
Printed == pc = "done" => SizePrinted

IntelInv == Control /\ Behind /\ Sizes /\ Line /\ Printed
IInv == hw \in Machines /\ (hw.vendor = "intel" => IntelInv)

----------------------------------------------------------------------------
(* The tables and the sets                                                 *)

\* A descriptor is more than 5, and a row has a size.
LEMMA TableFacts ==
  ASSUME NEW l \in Levels
  PROVE  \A r \in Table[l] : /\ r[1] \in 6 .. 255 /\ r[2] \in Nat /\ r[2] > 0
                             /\ r[3] \in Nat
  BY DEF Table, Levels

LEMMA RowOf ==
  ASSUME NEW l, NEW d, Describes(l, d)
  PROVE  Row(l, d) \in Table[l] /\ Row(l, d)[1] = d
  BY DEF Row, Describes

\* A byte of 0 is no descriptor, and a descriptor is one of those of Reported.
LEMMA DescriptorRange ==
  ASSUME NEW l \in Levels, NEW d, Describes(l, d)
  PROVE  d \in 6 .. 255
  BY TableFacts DEF Describes

\* The cycle returns to the first set after the last one.
LEMMA TurnStep ==
  ASSUME NEW n \in Nat, n # 0, NEW t \in 1 .. n
  PROVE  (t % n) + 1 = IF t = n THEN 1 ELSE t + 1
<1>1. CASE t = n
  <2>1. t % n = 0  BY <1>1
  <2> QED  BY <1>1, <2>1
<1>2. CASE t # n
  <2>1. t % n = t  BY <1>2
  <2> QED  BY <1>2, <2>1
<1> QED  BY <1>1, <1>2

\* The first match is one of them.
LEMMA FirstMatchMatches ==
  ASSUME Matching # {}
  PROVE  FirstMatch \in Matching
<1> DEFINE Ranks == {Rank(p) : p \in Matching}
<1>1. \A p \in Matching : Rank(p) \in Nat  BY DEF Matching, Rank
<1>2. Ranks \subseteq Nat /\ Ranks # {}  BY <1>1
<1>3. PICK x \in Ranks : \A y \in Ranks : ~(<<y, x>> \in OpToRel(<, Nat))
  <2> HIDE DEF Ranks
  <2> QED  BY <1>2, NatLessThanWellFounded, WFMin
<1>4. \A y \in Ranks : x <= y
  <2> SUFFICES ASSUME NEW y \in Ranks PROVE x <= y  OBVIOUS
  <2>1. x \in Nat /\ y \in Nat  BY <1>2
  <2>2. ~(y < x)  BY <1>3, <2>1 DEF OpToRel
  <2> QED  BY <2>1, <2>2
<1>5. \E p \in Matching : \A q \in Matching : Rank(p) <= Rank(q)  BY <1>4
<1> QED  BY <1>5 DEF FirstMatch

\* Every size that is reported is that of a row.
LEMMA ReportedSize ==
  ASSUME NEW l \in Levels, NEW s \in Reported(l)
  PROVE  s \in Nat /\ s > 0
<1>1. PICK d : Describes(l, d) /\ s = Row(l, d)[2]  BY DEF Reported
<1>2. Row(l, d) \in Table[l]  BY <1>1, RowOf
<1> QED  BY <1>1, <1>2, TableFacts

\* Set k of a machine is four registers, and counts the sets.
LEMMA SetFacts ==
  ASSUME hw \in Machines, NEW k \in 1 .. SetCount
  PROVE  /\ SetCount \in Nat
         /\ hw.sets[k] \in Registers
         /\ hw.sets[k][1][4] = SetCount
         /\ \A l \in Levels : ~Describes(l, hw.sets[k][1][4])
  BY MachinesAssumption DEF SetCount

LEMMA CountIsNat ==
  ASSUME hw \in Machines
  PROVE  SetCount \in Nat
  BY MachinesAssumption DEF SetCount

\* The first match is of a row whose size the processor reports.
LEMMA MatchReported ==
  ASSUME hw \in Machines, level \in Levels, turn \in 1 .. SetCount, Matching # {}
  PROVE  Match \in Table[level] /\ Match[2] \in Reported(level)
<1> DEFINE p == FirstMatch
           e == Byte(p[1], p[2])
<1>1. p \in (1 .. 4) \X (1 .. 4) /\ Describes(level, e)
  BY FirstMatchMatches DEF Matching
<1>2. PICK r \in 1 .. 4, b \in 1 .. 4 : p = <<r, b>>  BY <1>1
<1>3. e \in 6 .. 255  BY <1>1, DescriptorRange
<1>4. CurrentSet = hw.sets[turn]  BY CountIsNat DEF CurrentSet
<1>5. Holds(hw.sets[turn][r]) /\ e = hw.sets[turn][r][b]
  <2>1. e = Byte(r, b)  BY <1>2
  <2> HIDE DEF e, p
  <2>2. e # 0  BY <1>3
  <2>3. Holds(CurrentSet[r]) /\ e = CurrentSet[r][b]  BY <2>1, <2>2 DEF Byte
  <2> QED  BY <2>3, <1>4
<1>6. <<r, b>> # <<1, 4>>  BY <1>1, <1>5, SetFacts
<1>7. e \in \h01 .. \hFF  BY <1>3
<1>8. Match = Row(level, e)  BY DEF Match
<1> HIDE DEF e, p
<1>9. Match[2] \in Reported(level)
  BY <1>1, <1>5, <1>6, <1>7, <1>8 DEF Reported
<1> QED  BY <1>1, <1>8, <1>9, RowOf

\* A set without a match does not report anything for the table.
LEMMA NoMatchUnmatched ==
  ASSUME hw \in Machines, turn \in 1 .. SetCount, Matching = {}
  PROVE  Unmatched(level, turn)
<1> SUFFICES ASSUME NEW r \in 1 .. 4, NEW b \in 1 .. 4, Holds(hw.sets[turn][r]),
                    Describes(level, hw.sets[turn][r][b])
             PROVE  FALSE
  BY DEF Unmatched
<1>1. CurrentSet = hw.sets[turn]  BY CountIsNat DEF CurrentSet
<1>2. Byte(r, b) = hw.sets[turn][r][b]  BY <1>1 DEF Byte
<1>3. <<r, b>> \in Matching  BY <1>2 DEF Matching
<1> QED  BY <1>3

LEMMA UnmatchedReportsNothing ==
  ASSUME NEW l, \A k \in 1 .. SetCount : Unmatched(l, k)
  PROVE  Reported(l) = {}
  BY DEF Unmatched, Reported

----------------------------------------------------------------------------
(* The order of the levels                                                 *)

LEMMA LevelOrder ==
  /\ \A l \in Levels : l \notin Earlier[l]
  /\ \A l \in Levels : l # "l3" =>
       After[l] \in Levels /\ Earlier[After[l]] = Earlier[l] \union {l}
  /\ Levels = Earlier["l3"] \union {"l3"}
  /\ \A l, m \in Levels : l \in Earlier[m] => m \notin Earlier[l]
  BY DEF Levels, Earlier, After

\* The next level is searched when the one before it is done.
LEMMA NextLevelDone ==
  ASSUME pc = "search", level \in Levels, NextLevel
  PROVE  /\ level \notin Done /\ Done' = Done \union {level}
         /\ pc' \in {"count", "common"} /\ (pc' = "count" => level' \in Levels)
<1>1. Done = Earlier[level]  BY DEF Done
<1>2. CASE level = "l3"
  <2>1. pc' = "common"  BY <1>2 DEF NextLevel
  <2>2. Done' = Levels  BY <2>1 DEF Done
  <2> QED  BY <1>1, <1>2, <2>1, <2>2, LevelOrder
<1>3. CASE level # "l3"
  <2>1. pc' = "count" /\ level' = After[level]  BY <1>3 DEF NextLevel
  <2>2. Done' = Earlier[After[level]]  BY <2>1 DEF Done
  <2> QED  BY <1>1, <1>3, <2>1, <2>2, LevelOrder
<1> QED  BY <1>2, <1>3

----------------------------------------------------------------------------
(* The steps, on an Intel processor                                        *)

LEMMA InitEstablishes ==
  ASSUME Init
  PROVE  IInv
<1>1. SetCount \in Nat  BY CountIsNat DEF Init
<1>2. Control  BY <1>1 DEF Init, Control, SetCount
<1>3. Done = {}  BY DEF Init, Done
<1>4. Sizes  BY <1>3 DEF Init, Sizes, Levels
<1>5. Line  BY DEF Init, Line, Levels
<1> QED  BY <1>2, <1>4, <1>5 DEF IInv, IntelInv, Behind, Printed, Init

\* What a step that leaves the sizes and the searched levels alone preserves.
LEMMA SizesKept ==
  ASSUME Sizes, Line, pc # "done", Done' = Done, UNCHANGED hw,
         \A l \in Levels : cpu'[l] = cpu[l], cpu'.line = cpu.line
  PROVE  Sizes' /\ Line'
<1>1. \A l \in Levels : Found(l)' <=> Found(l)
  <2>1. \A l : Reported(l)' = Reported(l)  BY DEF Reported, SetCount
  <2> QED  BY <2>1 DEF Found
<1>2. Sizes'  BY <1>1 DEF Sizes
<1>3. Line'  BY DEF Line
<1> QED  BY <1>2, <1>3

LEMMA UnsupportedStep ==
  ASSUME IInv, Unsupported
  PROVE  IInv'
<1> SUFFICES ASSUME hw.vendor = "intel" PROVE IntelInv'
  BY DEF IInv, Unsupported
<1> USE DEF Unsupported, Exit
<1>1. IntelInv  BY DEF IInv
<1>2. Control'  BY <1>1 DEF IntelInv, Control, SetCount
<1>3. level' = "none"  BY <1>1 DEF IntelInv, Control
<1> QED  BY <1>2, <1>3 DEF IntelInv, Behind, Sizes, Line, Printed, SizePrinted

LEMMA IdentifyStep ==
  ASSUME IInv, Identify
  PROVE  IInv'
<1> SUFFICES ASSUME hw.vendor = "intel" PROVE IntelInv'
  BY DEF IInv, Identify, Silent
<1> USE DEF Identify, Goto, Silent
<1>1. IntelInv  BY DEF IInv
<1>2. pc = "check" /\ pc' = "intel"  OBVIOUS
<1>3. Control'  BY <1>1, <1>2 DEF IntelInv, Control, SetCount
<1>4. Done' = Done  BY <1>2 DEF Done
<1>5. Sizes' /\ Line'  BY <1>1, <1>2, <1>4, SizesKept DEF IntelInv
<1> QED  BY <1>2, <1>3, <1>5 DEF IntelInv, Behind, Printed

LEMMA IntelFeaturesStep ==
  ASSUME IInv, IntelFeatures
  PROVE  IInv'
<1> SUFFICES ASSUME hw.vendor = "intel" PROVE IntelInv'
  BY DEF IInv, IntelFeatures, Silent
<1> USE DEF IntelFeatures, Goto, Silent
<1>1. IntelInv  BY DEF IInv
<1>2. pc = "intel" /\ pc' = "count" /\ level' = "l1i"  OBVIOUS
<1>3. /\ DOMAIN cpu' = DOMAIN cpu /\ cpu'.line = cpu.line
      /\ \A l \in Levels : cpu'[l] = cpu[l]
  BY <1>1 DEF IntelInv, Control, Levels
<1>4. Control'  BY <1>1, <1>2, <1>3 DEF IntelInv, Control, SetCount, Levels
<1>5. Done' = Done  BY <1>2 DEF Done, Earlier
<1>6. Sizes' /\ Line'  BY <1>1, <1>2, <1>3, <1>5, SizesKept DEF IntelInv
<1> QED  BY <1>2, <1>4, <1>6 DEF IntelInv, Behind, Printed

\* Where the cycle stands next.
LEMMA TurnNext ==
  ASSUME hw \in Machines, Control, ExecuteCacheLeaf, UNCHANGED hw
  PROVE  /\ turn' \in IF SetCount = 0 THEN {1} ELSE 1 .. SetCount
         /\ SetCount # 0 => turn' = IF turn = SetCount THEN 1 ELSE turn + 1
         /\ SetCount' = SetCount /\ SetCount \in Nat
<1>1. SetCount' = SetCount /\ SetCount \in Nat  BY CountIsNat DEF SetCount
<1>2. SetCount # 0 => turn' = IF turn = SetCount THEN 1 ELSE turn + 1
  BY <1>1, TurnStep DEF Control, ExecuteCacheLeaf
<1>3. SetCount = 0 => turn' = 1  BY DEF ExecuteCacheLeaf
<1> QED  BY <1>1, <1>2, <1>3 DEF Control

\* No set is a whole cycle ahead.
LEMMA AheadBound ==
  ASSUME NEW n \in Nat, NEW t \in 1 .. n, NEW k \in 1 .. n
  PROVE  (IF t <= k THEN k - t ELSE k - t + n) < n
  OBVIOUS

\* One execution brings the search one set nearer to every set but the one it read.
LEMMA AheadStep ==
  ASSUME NEW n \in Nat, NEW t \in 1 .. n, NEW u, u = IF t = n THEN 1 ELSE t + 1,
         NEW k \in 1 .. n, k # t
  PROVE  (IF u <= k THEN k - u ELSE k - u + n)
           = (IF t <= k THEN k - t ELSE k - t + n) - 1
  OBVIOUS

LEMMA CountSetsStep ==
  ASSUME IInv, CountSets
  PROVE  IInv'
<1> SUFFICES ASSUME hw.vendor = "intel" PROVE IntelInv'
  BY DEF IInv, CountSets, Silent
<1> USE DEF CountSets, Goto, Silent
<1>1. IntelInv /\ hw \in Machines  BY DEF IInv
<1>2. pc = "count" /\ pc' = "search"  OBVIOUS
<1>3. /\ turn' \in IF SetCount = 0 THEN {1} ELSE 1 .. SetCount
      /\ SetCount' = SetCount /\ SetCount \in Nat
  BY <1>1, TurnNext DEF IntelInv
<1>4. left' = SetCount
  <2>1. CASE SetCount = 0  BY <2>1 DEF CurrentSet, NoSets, Nothing
  <2>2. CASE SetCount # 0
    <3>1. turn \in 1 .. SetCount  BY <1>1, <2>2 DEF IntelInv, Control
    <3> QED  BY <1>1, <2>2, <3>1, SetFacts DEF CurrentSet
  <2> QED  BY <2>1, <2>2
<1>5. Control'  BY <1>1, <1>2, <1>3, <1>4 DEF IntelInv, Control
<1>6. Behind'
  <2> SUFFICES ASSUME NEW k \in 1 .. SetCount PROVE Ahead(k)' < left'
    BY <1>3 DEF Behind
  <2>1. turn' \in 1 .. SetCount  BY <1>3
  <2>2. Ahead(k)' < SetCount  BY <1>3, <2>1, AheadBound DEF Ahead
  <2> QED  BY <1>4, <2>2
<1>7. Done' = Done  BY <1>2 DEF Done
<1>8. Sizes' /\ Line'  BY <1>1, <1>2, <1>7, SizesKept DEF IntelInv
<1> QED  BY <1>2, <1>5, <1>6, <1>8 DEF IntelInv, Printed

LEMMA SearchSetStep ==
  ASSUME IInv, SearchSet
  PROVE  IInv'
<1> SUFFICES ASSUME hw.vendor = "intel" PROVE IntelInv'
  BY DEF IInv, SearchSet, Silent
<1>1. IntelInv /\ hw \in Machines  BY DEF IInv
<1>2. /\ pc = "search" /\ left > 0 /\ left' = left - 1 /\ ExecuteCacheLeaf
      /\ UNCHANGED <<hw, out, rc>>
  BY DEF SearchSet, Silent
<1>3. /\ turn' \in IF SetCount = 0 THEN {1} ELSE 1 .. SetCount
      /\ SetCount # 0 => turn' = IF turn = SetCount THEN 1 ELSE turn + 1
      /\ SetCount' = SetCount /\ SetCount \in Nat
  BY <1>1, <1>2, TurnNext DEF IntelInv
<1>4. left \in 0 .. SetCount /\ level \in Levels
  BY <1>1, <1>2 DEF IntelInv, Control
<1>5. SetCount # 0 /\ turn \in 1 .. SetCount
  BY <1>1, <1>2, <1>3, <1>4 DEF IntelInv, Control
<1>6. CASE Matching = {} /\ UNCHANGED <<pc, level, cpu>>
  <2>1. Control'  BY <1>1, <1>2, <1>3, <1>4, <1>6 DEF IntelInv, Control
  <2>2. Behind'
    <3> SUFFICES ASSUME NEW k \in 1 .. SetCount
                 PROVE  Ahead(k)' < left' \/ Unmatched(level, k)'
      BY <1>3, <1>6 DEF Behind
    <3>1. Unmatched(level, k)' <=> Unmatched(level, k)
      BY <1>2, <1>6 DEF Unmatched
    <3>2. CASE k = turn  BY <1>1, <1>5, <1>6, <3>1, <3>2, NoMatchUnmatched
    <3>3. CASE k # turn
      <4>1. Ahead(k) < left \/ Unmatched(level, k)
        BY <1>1, <1>2 DEF IntelInv, Behind
      <4>2. Ahead(k)' = Ahead(k) - 1
        BY <1>3, <1>5, <3>3, AheadStep DEF Ahead
      <4>3. Ahead(k) \in Int  BY <1>3, <1>5 DEF Ahead
      <4> QED  BY <1>2, <1>4, <3>1, <4>1, <4>2, <4>3
    <3> QED  BY <3>2, <3>3
  <2>3. Done' = Done  BY <1>6 DEF Done
  <2>4. Sizes' /\ Line'  BY <1>1, <1>2, <1>6, <2>3, SizesKept DEF IntelInv
  <2> QED  BY <1>2, <1>6, <2>1, <2>2, <2>4 DEF IntelInv, Printed
<1>7. CASE /\ Matching # {} /\ NextLevel
           /\ cpu' = [cpu EXCEPT ![level] = Match[2], !.line = Match[3]]
  <2>1. /\ level \notin Done /\ Done' = Done \union {level}
        /\ pc' \in {"count", "common"} /\ (pc' = "count" => level' \in Levels)
    BY <1>2, <1>4, <1>7, NextLevelDone
  <2>2. Match \in Table[level] /\ Match[2] \in Reported(level)
    BY <1>1, <1>4, <1>5, <1>7, MatchReported
  <2>3. /\ cpu'[level] = Match[2] /\ cpu'.line = Match[3]
        /\ \A l \in Levels \ {level} : cpu'[l] = cpu[l]
        /\ DOMAIN cpu' = DOMAIN cpu
    BY <1>1, <1>4, <1>7 DEF IntelInv, Control, Levels
  <2>4. Control'  BY <1>1, <1>3, <2>1, <2>3 DEF IntelInv, Control
  <2>5. \A l \in Levels : Reported(l)' = Reported(l)
    BY <1>2, <1>3 DEF Reported
  <2>6. Sizes'
    <3> SUFFICES ASSUME NEW l \in Levels
                 PROVE  IF l \in Done' THEN Found(l)' ELSE cpu'[l] = 0
      BY DEF Sizes
    <3>1. IF l \in Done THEN Found(l) ELSE cpu[l] = 0
      BY <1>1, <1>2 DEF IntelInv, Sizes
    <3>2. CASE l = level  BY <2>1, <2>2, <2>3, <2>5, <3>2 DEF Found
    <3>3. CASE l # level  BY <2>1, <2>3, <2>5, <3>1, <3>3 DEF Found
    <3> QED  BY <3>2, <3>3
  <2>7. Line'
    <3>1. \A m \in Levels : level \in Earlier[m] => cpu'[m] = 0
      <4> SUFFICES ASSUME NEW m \in Levels, level \in Earlier[m] PROVE cpu'[m] = 0
        OBVIOUS
      <4>1. m # level /\ m \notin Earlier[level]  BY <1>4, LevelOrder
      <4>2. m \notin Done  BY <1>2, <4>1 DEF Done
      <4>3. cpu[m] = 0  BY <1>1, <1>2, <4>2 DEF IntelInv, Sizes
      <4> QED  BY <2>3, <4>1, <4>3
    <3> QED  BY <1>4, <2>2, <2>3, <3>1 DEF Line
  <2> QED  BY <2>1, <2>4, <2>6, <2>7 DEF IntelInv, Behind, Printed
<1> QED  BY <1>6, <1>7 DEF SearchSet

LEMMA SearchEndsStep ==
  ASSUME IInv, SearchEnds
  PROVE  IInv'
<1> SUFFICES ASSUME hw.vendor = "intel" PROVE IntelInv'
  BY DEF IInv, SearchEnds, Silent
<1>1. IntelInv /\ hw \in Machines  BY DEF IInv
<1>2. /\ pc = "search" /\ left = 0 /\ NextLevel
      /\ UNCHANGED <<hw, turn, left, cpu>>
  BY DEF SearchEnds, Silent
<1>3. level \in Levels /\ SetCount \in Nat
  BY <1>1, <1>2, CountIsNat DEF IntelInv, Control
<1>4. /\ level \notin Done /\ Done' = Done \union {level}
      /\ pc' \in {"count", "common"} /\ (pc' = "count" => level' \in Levels)
  BY <1>2, <1>3, NextLevelDone
<1>5. Control'  BY <1>1, <1>2, <1>4 DEF IntelInv, Control, SetCount
<1>6. Reported(level) = {}
  <2> SUFFICES ASSUME NEW k \in 1 .. SetCount PROVE Unmatched(level, k)
    BY UnmatchedReportsNothing
  <2>1. Ahead(k) < left \/ Unmatched(level, k)
    BY <1>1, <1>2 DEF IntelInv, Behind
  <2>2. turn \in 1 .. SetCount  BY <1>1, <1>3 DEF IntelInv, Control
  <2>3. ~(Ahead(k) < 0)  BY <1>3, <2>2 DEF Ahead
  <2> QED  BY <1>2, <2>1, <2>3
<1>7. \A l \in Levels : Found(l)' <=> Found(l)
  BY <1>2 DEF Found, Reported, SetCount
<1>8. Sizes'
  <2> SUFFICES ASSUME NEW l \in Levels
               PROVE  IF l \in Done' THEN Found(l)' ELSE cpu'[l] = 0
    BY DEF Sizes
  <2>1. IF l \in Done THEN Found(l) ELSE cpu[l] = 0
    BY <1>1, <1>2 DEF IntelInv, Sizes
  <2>2. l = level => Found(l)  BY <1>4, <1>6, <2>1 DEF Found
  <2> QED  BY <1>2, <1>4, <1>7, <2>1, <2>2
<1>9. Line'  BY <1>1, <1>2 DEF IntelInv, Line
<1> QED  BY <1>4, <1>5, <1>8, <1>9 DEF IntelInv, Behind, Printed

LEMMA AmdCachesStep ==
  ASSUME IInv, AmdCaches
  PROVE  IInv'
  BY DEF IInv, IntelInv, Control, AmdCaches, Goto, Silent

LEMMA CommonFeaturesStep ==
  ASSUME IInv, CommonFeatures
  PROVE  IInv'
<1> SUFFICES ASSUME hw.vendor = "intel" PROVE IntelInv'
  BY DEF IInv, CommonFeatures, Silent
<1> USE DEF CommonFeatures, Goto, Silent
<1>1. IntelInv  BY DEF IInv
<1>2. pc = "common" /\ pc' = "answer"  OBVIOUS
<1>3. /\ DOMAIN cpu' = DOMAIN cpu /\ cpu'.line = cpu.line
      /\ \A l \in Levels : cpu'[l] = cpu[l]
  BY <1>1 DEF IntelInv, Control, Levels
<1>4. Control'  BY <1>1, <1>2, <1>3 DEF IntelInv, Control, SetCount
<1>5. Done' = Done  BY <1>2 DEF Done
<1>6. Sizes' /\ Line'  BY <1>1, <1>2, <1>3, <1>5, SizesKept DEF IntelInv
<1> QED  BY <1>2, <1>4, <1>6 DEF IntelInv, Behind, Printed

\* An answer that does not print a size.
LEMMA OtherAnswerStep ==
  ASSUME IInv, pc = "answer", pc' = "done", level' = "none",
         UNCHANGED <<hw, turn, left, cpu>>
  PROVE  IInv'
<1> SUFFICES ASSUME hw.vendor = "intel" PROVE IntelInv'
  BY DEF IInv
<1>1. IntelInv  BY DEF IInv
<1>2. Control'  BY <1>1 DEF IntelInv, Control, SetCount
<1> QED  BY <1>2 DEF IntelInv, Behind, Sizes, Line, Printed, SizePrinted

LEMMA SmallRemainder ==
  ASSUME NEW n \in Nat \ {0}, NEW s \in Nat, s < n
  PROVE  s % n = s
  OBVIOUS

LEMMA AnswerCacheStep ==
  ASSUME IInv, NEW l \in Levels, AnswerCache(l)
  PROVE  IInv'
<1> SUFFICES ASSUME hw.vendor = "intel" PROVE IntelInv'
  BY DEF IInv, AnswerCache
<1> USE DEF AnswerCache, Exit
<1>1. IntelInv  BY DEF IInv
<1>2. pc = "answer" /\ pc' = "done" /\ level' = l /\ out' = cpu[l] % LongLimit
  OBVIOUS
<1>3. Control'  BY <1>1, <1>2 DEF IntelInv, Control, SetCount
<1>4. Found(l)
  <2>1. l \in Done  BY <1>2 DEF Done
  <2> QED  BY <1>1, <1>2, <2>1 DEF IntelInv, Sizes
<1>5. Reported(l)' = Reported(l)  BY DEF Reported, SetCount
<1>6. \/ out' \in Reported(l)
      \/ out' = 0 /\ Reported(l) = {}
      \/ \E s \in Reported(l) : s >= LongLimit
  <2>1. CASE cpu[l] \in Reported(l)
    <3>1. cpu[l] \in Nat  BY <2>1, ReportedSize
    <3>2. CASE cpu[l] < LongLimit
      BY <1>2, <2>1, <3>1, <3>2, SmallRemainder, LimitAssumption
    <3>3. CASE cpu[l] >= LongLimit  BY <2>1, <3>3
    <3> QED  BY <3>1, <3>2, <3>3, LimitAssumption
  <2>2. CASE cpu[l] = 0 /\ Reported(l) = {}
    BY <1>2, <2>2, SmallRemainder, LimitAssumption
  <2> QED  BY <1>4, <2>1, <2>2 DEF Found
<1>7. SizePrinted'  BY <1>2, <1>5, <1>6 DEF SizePrinted
<1> QED  BY <1>2, <1>3, <1>7 DEF IntelInv, Behind, Sizes, Line, Printed

----------------------------------------------------------------------------
LEMMA StepPreserves ==
  ASSUME IInv, [Next]_vars
  PROVE  IInv'
<1>1. ASSUME NEW name \in Features, AnswerFeature(name)
      PROVE  IInv'
  BY <1>1, OtherAnswerStep DEF AnswerFeature, Exit
<1>2. CASE AnswerLine  BY <1>2, OtherAnswerStep DEF AnswerLine, Exit
<1>3. CASE AnswerUnknown  BY <1>3, OtherAnswerStep DEF AnswerUnknown, Exit
<1>4. CASE UNCHANGED vars
  <2> USE <1>4 DEF vars
  <2>1. Done' = Done /\ SetCount' = SetCount  BY DEF Done, SetCount
  <2>2. Control' <=> Control  BY <2>1 DEF Control
  <2>3. Behind' <=> Behind  BY <2>1 DEF Behind, Ahead, Unmatched
  <2>4. \A l : Reported(l)' = Reported(l)  BY <2>1 DEF Reported
  <2>5. Sizes' <=> Sizes  BY <2>1, <2>4 DEF Sizes, Found
  <2>6. Line' <=> Line  BY DEF Line
  <2>7. Printed' <=> Printed  BY <2>4 DEF Printed, SizePrinted
  <2> QED  BY <2>2, <2>3, <2>5, <2>6, <2>7 DEF IInv, IntelInv
<1> QED
  BY <1>1, <1>2, <1>3, <1>4, UnsupportedStep, IdentifyStep, IntelFeaturesStep,
     CountSetsStep, SearchSetStep, SearchEndsStep, AmdCachesStep, CommonFeaturesStep,
     AnswerCacheStep
  DEF Next

\* The searches of an Intel processor stay within its cycle: the sets behind one
\* match nothing, and every level that is done has a reported size or none.
THEOREM Invariance == Spec => []IInv
<1>1. Init => IInv  BY InitEstablishes
<1>2. IInv /\ [Next]_vars => IInv'  BY StepPreserves
<1> QED  BY <1>1, <1>2, PTL DEF Spec

\* cpu_cache_size finds a cache of a level if and only if the processor reports
\* one, for any number of sets and any phase of their cycle.
THEOREM CachesFoundHolds == Spec => []CachesFound
<1>1. IInv => CachesFound
  BY DEF IInv, IntelInv, Sizes, Found, CachesFound, Done
<1> QED  BY <1>1, Invariance, PTL

\* The line that is left is of a row of the last level that was found.
THEOREM LineOfLastLevelHolds == Spec => []LineOfLastLevel
<1>1. IInv => LineOfLastLevel
  <2> SUFFICES ASSUME IInv, hw.vendor = "intel", pc \in {"common", "answer"},
                      ~(cpu.line = 0 /\ \A l \in Levels : cpu[l] = 0)
               PROVE  LineOfLastLevel
    BY DEF LineOfLastLevel
  <2>1. PICK l \in Levels :
          /\ \E r \in Table[l] : r[2] = cpu[l] /\ r[3] = cpu.line
          /\ \A m \in Levels : l \in Earlier[m] => cpu[m] = 0
    BY DEF IInv, IntelInv, Line
  <2>2. /\ l = "l1i" => cpu["l1d"] = 0
        /\ l \in {"l1i", "l1d"} => cpu["l2"] = 0
        /\ l \in {"l1i", "l1d", "l2"} => cpu["l3"] = 0
    BY <2>1 DEF Levels, Earlier
  <2> QED  BY <2>1, <2>2 DEF LineOfLastLevel
<1> QED  BY <1>1, Invariance, PTL

\* What is printed for a level is a size the processor reports, or 0 if it reports
\* none, unless a reported size is too large for an unsigned long.
THEOREM SizePrintedHolds == Spec => []SizePrinted
<1>1. IInv => SizePrinted
  BY DEF IInv, IntelInv, Printed, SizePrinted
<1> QED  BY <1>1, Invariance, PTL
============================================================================
