---------------------------- MODULE LockerProofs ----------------------------
(***************************************************************************)
(* Proofs about Locker, for any set of processes and any number of kills   *)
(* and removals of the lock file.                                          *)
(***************************************************************************)
EXTENDS Locker, WellFoundedInduction, TLAPS

\* What relates a locker's position to the kernel's lock and to its child.
Discipline ==
  /\ \A p \in Procs :
       /\ pc[p] \in Live \ {"open"} => fd[p] \in Inodes
       /\ (os = "posix" /\ Running(p)) => pc[p] \in {"wait", "killed"}
       /\ pc[p] \in {"open", "acquire", "execute", "measure", "quote", "create"} =>
            child[p].state = "none"
       /\ pc[p] \in {"wait", "collect", "release", "close"} =>
            child[p].state # "none"
       /\ (os = "win32" /\ pc[p] \in Live \ {"open"}) => fd[p] = file
       /\ pc[p] \in Live => locked[p] = (IF pc[p] \in Holding THEN 1 ELSE 0)
       /\ pc[p] \in Holding => holder[fd[p]] = p
       /\ line[p].index <= Len(line[p].argv)
  /\ \A n \in Inodes : holder[n] # None =>
       pc[holder[n]] \in Holding /\ fd[holder[n]] = n

IInv == TypeOK /\ Discipline

LEMMA InitIInv == Init => IInv
  <1> SUFFICES ASSUME Init PROVE IInv
    OBVIOUS
  <1> USE NoneAssumption, BoundAssumption
  <1>1. TypeOK
    BY DEF Init, TypeOK, Live, Holding, Lines, NoLine, Line, Children, Child,
           Results, Inodes, EXIT_SUCCESS
  <1>2. Discipline
    BY DEF Init, Discipline, Live, Running, Child, Holding, NoLine, Line
  <1> QED BY <1>1, <1>2 DEF IInv

\* Every step of a child is a ChildGoes between the states of a child.
LEMMA ChildMoves ==
  ASSUME NEW p \in Procs, ChildStep(p) \/ ChildKilled(p)
  PROVE  \E from, to :
           /\ ChildGoes(p, from, to) /\ to \in Children
           /\ from \subseteq {"forked", "running"}
           /\ to.state # "none"
           /\ (os = "win32" /\ to.state = "signalled") =>
                to.result = EXIT_FAILURE
  <1> USE DEF Children, Child, Results, EXIT_SUCCESS, EXIT_FAILURE
  <1>1. CASE ChildExec(p)
    BY <1>1 DEF ChildExec
  <1>2. CASE ChildFatal(p)
    BY <1>2 DEF ChildFatal
  <1>3. CASE CommandExits(p)
    <2>1. PICK r \in Results : ChildGoes(p, {"running"}, Child("exited", r))
      BY <1>3 DEF CommandExits
    <2> QED BY <2>1
  <1>4. CASE ChildKilled(p)
    BY <1>4 DEF ChildKilled
  <1> QED BY <1>1, <1>2, <1>3, <1>4 DEF ChildStep

\* Before the end of a loop its index is that of an argument.
LEMMA ArgumentIsNat ==
  ASSUME TypeOK, Discipline, NEW p \in Procs, ~AtEnd(p)
  PROVE  /\ Argument(p) \in Nat
         /\ line[p].index + 1 \in 1 .. Len(line[p].argv)
  <1>1. line[p] \in Lines /\ line[p].index <= Len(line[p].argv)
    BY DEF TypeOK, Discipline
  <1> QED BY <1>1 DEF Lines, AtEnd, Argument

\* The conversion of a command line moves one locker on, up to the call of
\* CreateProcess, and changes no other part of the state than its line.
LEMMA ConversionMoves ==
  ASSUME TypeOK, Discipline, NEW p \in Procs, ConvertCommand(p)
  PROVE  /\ UNCHANGED <<os, locked, fd, code, child, file, holder, cleans, kills>>
         /\ pc[p] \in {"execute", "measure", "quote"}
         /\ \E next \in {"measure", "quote", "create"} :
              pc' = [pc EXCEPT ![p] = next]
         /\ \E l \in Lines : /\ line' = [line EXCEPT ![p] = l]
                            /\ l.index <= Len(l.argv)
  <1> USE DEF PrefixSize, QuoteSize, SpaceSize
  <1> DEFINE o == line[p]
  <1>0. /\ o \in Lines /\ o.index <= Len(o.argv)
        /\ pc \in [Procs -> Live \union {"exited", "killed"}]
        /\ line \in [Procs -> Lines]
    BY DEF TypeOK, Discipline
  <1>a. /\ o.argv \in Seq(Nat) /\ Len(o.argv) \in Nat
        /\ o.index \in Nat /\ o.total \in Nat /\ o.used \in Nat
    BY <1>0 DEF Lines
  <1>1. CASE Convert(p)
    <2>1. PICK argv \in Commands :
            line' = [line EXCEPT ![p] = Line(argv, 0, PrefixSize + QuoteSize, 0)]
      BY <1>1 DEF Convert
    <2> DEFINE l == Line(argv, 0, PrefixSize + QuoteSize, 0)
    <2>2. l \in Lines /\ l.index <= Len(l.argv)
      BY CommandsAssumption DEF Lines, Line
    <2>3. line' = [line EXCEPT ![p] = l]
      BY <2>1
    <2> HIDE DEF l
    <2> QED BY <1>0, <1>1, <2>2, <2>3 DEF Convert
  <1>2. CASE Measure(p)
    <2>1. pc[p] = "measure" /\ ~AtEnd(p) /\ pc' = [pc EXCEPT ![p] = "measure"]
      BY <1>0, <1>2 DEF Measure
    <2>2. Argument(p) \in Nat /\ o.index + 1 \in 1 .. Len(o.argv)
      BY <2>1, ArgumentIsNat
    <2> DEFINE l == Line(o.argv, o.index + 1,
                          o.total + QuoteSize + Argument(p) + QuoteSize + SpaceSize,
                          o.used)
    <2>3. line' = [line EXCEPT ![p] = l]
      BY <1>2 DEF Measure
    <2>4. l \in Lines /\ l.index <= Len(l.argv)
      BY <1>0, <1>a, <2>2 DEF Lines, Line
    <2> HIDE DEF l
    <2> QED BY <1>2, <2>1, <2>3, <2>4 DEF Measure
  <1>3. CASE Allocate(p)
    <2> DEFINE l == Line(o.argv, 0, o.total, PrefixSize)
    <2>1. line' = [line EXCEPT ![p] = l]
      BY <1>3 DEF Allocate
    <2>2. l \in Lines /\ l.index <= Len(l.argv)
      BY <1>0, <1>a DEF Lines, Line
    <2> HIDE DEF l
    <2> QED BY <1>3, <2>1, <2>2 DEF Allocate
  <1>4. CASE Quote(p)
    <2>1. pc[p] = "quote" /\ ~AtEnd(p) /\ pc' = [pc EXCEPT ![p] = "quote"]
      BY <1>0, <1>4 DEF Quote
    <2>2. Argument(p) \in Nat /\ o.index + 1 \in 1 .. Len(o.argv)
      BY <2>1, ArgumentIsNat
    <2> DEFINE l == Line(o.argv, o.index + 1, o.total,
                          o.used + QuoteSize + Argument(p) + QuoteSize + 1)
    <2>3. line' = [line EXCEPT ![p] = l]
      BY <1>4 DEF Quote
    <2>4. l \in Lines /\ l.index <= Len(l.argv)
      BY <1>0, <1>a, <2>2 DEF Lines, Line
    <2> HIDE DEF l
    <2> QED BY <1>4, <2>1, <2>3, <2>4 DEF Quote
  <1>5. CASE Terminate(p)
    <2> DEFINE l == Line(o.argv, o.index, o.total, o.used + 2)
    <2>1. line' = [line EXCEPT ![p] = l]
      BY <1>5 DEF Terminate
    <2>2. l \in Lines /\ l.index <= Len(l.argv)
      BY <1>0, <1>a DEF Lines, Line
    <2> HIDE DEF l
    <2> QED BY <1>5, <2>1, <2>2 DEF Terminate
  <1> QED BY <1>1, <1>2, <1>3, <1>4, <1>5 DEF ConvertCommand

\* Every variable keeps its type.
LEMMA TypeStep == TypeOK /\ Discipline /\ [Next]_vars => TypeOK'
  <1> SUFFICES ASSUME TypeOK, Discipline, [Next]_vars PROVE TypeOK'
    OBVIOUS
  <1> USE NoneAssumption, BoundAssumption
      DEF TypeOK, Live, Holding, Inodes, Results, Lines, NoLine, Line
  <1>1. ASSUME NEW p \in Procs, Main(p) PROVE TypeOK'
    <2>1. CASE Open(p) BY <2>1 DEF Open
    <2>2. CASE Acquire(p) BY <2>2 DEF Acquire
    <2>3. CASE Start(p)
      BY <2>3 DEF Start, Children, Child, EXIT_SUCCESS
    <2>4. CASE Wait(p)
      <3>1. child[p].result \in Results
        BY DEF Children, EXIT_SUCCESS
      <3> QED BY <2>4, <3>1 DEF Wait
    <2>5. CASE Release(p) BY <2>5 DEF Release
    <2>6. CASE Close(p) BY <2>6 DEF Close, DropLocks
    <2>7. CASE WaitEnds(p) BY <2>7 DEF WaitEnds, WaitForSingleObject
    <2>8. CASE GetExitCode(p)
      <3>1. child[p].result \in Results
        BY DEF Children, EXIT_SUCCESS
      <3> QED BY <2>8, <3>1 DEF GetExitCode
    <2>9. CASE ConvertCommand(p)
      <3>1. PICK next \in {"measure", "quote", "create"}, l \in Lines :
              /\ pc' = [pc EXCEPT ![p] = next] /\ line' = [line EXCEPT ![p] = l]
              /\ l.index <= Len(l.argv)
        BY <2>9, ConversionMoves
      <3>2. /\ UNCHANGED <<os, locked, fd, code, child, file, holder, cleans, kills>>
            /\ pc[p] \in {"execute", "measure", "quote"}
        BY <2>9, ConversionMoves
      <3> QED BY <3>1, <3>2
    <2> QED BY <1>1, <2>1, <2>2, <2>3, <2>4, <2>5, <2>6, <2>7, <2>8, <2>9 DEF Main
  <1>2. ASSUME NEW p \in Procs, Fatal(p) PROVE TypeOK'
    BY <1>2 DEF Fatal, DropLocks, EXIT_FAILURE
  <1>3. ASSUME NEW p \in Procs, ChildStep(p) \/ ChildKilled(p) PROVE TypeOK'
    <2>1. PICK from, to : ChildGoes(p, from, to) /\ to \in Children
      BY <1>3, ChildMoves
    <2> QED BY <2>1 DEF ChildGoes
  <1>4. ASSUME NEW p \in Procs, Kill(p) PROVE TypeOK'
    BY <1>4 DEF Kill, DropLocks
  <1>5. CASE Clean BY <1>5 DEF Clean
  <1>6. CASE UNCHANGED vars BY <1>6 DEF vars
  <1>7. ASSUME NEW p \in Procs, WaitFails(p) PROVE TypeOK'
    BY <1>7 DEF WaitFails, WaitForSingleObject
  <1> QED BY <1>1, <1>2, <1>3, <1>4, <1>5, <1>6, <1>7 DEF Next

\* The discipline is inductive.
LEMMA DisciplineStep == TypeOK /\ Discipline /\ [Next]_vars => Discipline'
  <1> SUFFICES ASSUME TypeOK, Discipline, [Next]_vars PROVE Discipline'
    OBVIOUS
  <1> USE NoneAssumption, BoundAssumption
      DEF TypeOK, Discipline, Live, Holding, Running, ChildEnded
  <1>1. ASSUME NEW p \in Procs, Main(p) PROVE Discipline'
    <2>1. CASE Open(p) BY <2>1 DEF Open, Inodes
    <2>2. CASE Acquire(p) BY <2>2 DEF Acquire
    <2>3. CASE Start(p) BY <2>3 DEF Start, Child, NoLine, Line
    <2>4. CASE Wait(p) BY <2>4 DEF Wait
    <2>5. CASE Release(p) BY <2>5 DEF Release
    <2>6. CASE Close(p) BY <2>6 DEF Close, DropLocks
    <2>7. CASE WaitEnds(p) BY <2>7 DEF WaitEnds, WaitForSingleObject
    <2>8. CASE GetExitCode(p) BY <2>8 DEF GetExitCode
    <2>9. CASE ConvertCommand(p)
      <3>1. PICK next \in {"measure", "quote", "create"}, l \in Lines :
              /\ pc' = [pc EXCEPT ![p] = next] /\ line' = [line EXCEPT ![p] = l]
              /\ l.index <= Len(l.argv)
        BY <2>9, ConversionMoves
      <3>2. /\ UNCHANGED <<os, locked, fd, code, child, file, holder, cleans, kills>>
            /\ pc[p] \in {"execute", "measure", "quote"}
        BY <2>9, ConversionMoves
      <3> QED BY <3>1, <3>2
    <2> QED BY <1>1, <2>1, <2>2, <2>3, <2>4, <2>5, <2>6, <2>7, <2>8, <2>9 DEF Main
  <1>2. ASSUME NEW p \in Procs, Fatal(p) PROVE Discipline'
    BY <1>2 DEF Fatal, CanFail, DropLocks, Child, NoLine, Line
  <1>3. ASSUME NEW p \in Procs, ChildStep(p) \/ ChildKilled(p)
        PROVE  Discipline'
    <2>1. PICK from, to : /\ ChildGoes(p, from, to) /\ to.state # "none"
                          /\ from \subseteq {"forked", "running"}
      BY <1>3, ChildMoves
    <2>3. UNCHANGED <<os, line, pc, locked, fd, holder, file>> /\ child'[p] = to
      BY <2>1 DEF ChildGoes
    <2>2. Running(p) /\ child'[p].state # "none"
      BY <2>1, <2>3 DEF ChildGoes
    <2>4. \A q \in Procs : q # p => child'[q] = child[q]
      BY <2>1 DEF ChildGoes
    <2> QED BY <2>2, <2>3, <2>4 DEF Inodes
  <1>4. ASSUME NEW p \in Procs, Kill(p) PROVE Discipline'
    BY <1>4 DEF Kill, DropLocks, Child, NoLine, Line
  <1>5. CASE Clean BY <1>5 DEF Clean
  <1>6. CASE UNCHANGED vars BY <1>6 DEF vars
  <1>7. ASSUME NEW p \in Procs, WaitFails(p) PROVE Discipline'
    BY <1>7 DEF WaitFails, WaitForSingleObject
  <1> QED BY <1>1, <1>2, <1>3, <1>4, <1>5, <1>6, <1>7 DEF Next

\* The inductive invariant: types and discipline.
THEOREM Invariance == Spec => []IInv
  <1>1. IInv /\ [Next]_vars => IInv'
    BY TypeStep, DisciplineStep DEF IInv
  <1> QED BY InitIInv, <1>1, PTL DEF Spec

\* Every variable keeps its type, for any number of processes.
THEOREM TypeCorrect == Spec => []TypeOK
  <1>1. IInv => TypeOK BY DEF IInv
  <1> QED BY Invariance, <1>1, PTL

\* The commands of lockers exclude each other unless a locker was killed, its
\* wait failed on Win32, or on POSIX the two opened different inodes: two
\* commands that run otherwise mean two lockers that wait, and each would be the
\* one holder of the inode's lock; on Win32 all of them have the inode open
\* that the name refers to.
THEOREM MutualExclusionHolds == Spec => []MutualExclusion
  <1>1. IInv => MutualExclusion
    BY DEF IInv, TypeOK, Discipline, MutualExclusion, WaitFailed, Running, Live,
           Holding
  <1> QED BY Invariance, <1>1, PTL

\* state->locked agrees with the kernel's lock table, so the assertions on it
\* never fail.
THEOREM FlagMatchesLockHolds == Spec => []FlagMatchesLock
  <1>1. IInv => FlagMatchesLock
    BY NoneAssumption
       DEF IInv, TypeOK, Discipline, FlagMatchesLock, Live, Holding
  <1> QED BY Invariance, <1>1, PTL

\* A locker that has taken a success has a child that ended with it; on Win32
\* a child that was killed has failed.
Verdict ==
  \A p \in Procs :
    /\ (os = "win32" /\ child[p].state = "signalled") =>
         child[p].result = EXIT_FAILURE
    /\ (pc[p] \in {"release", "close", "exited"} /\ code[p] = EXIT_SUCCESS) =>
         ChildEnded(p) /\ child[p].result = EXIT_SUCCESS

LEMMA VerdictStep == IInv /\ Verdict /\ [Next]_vars => Verdict'
  <1> SUFFICES ASSUME IInv, Verdict, [Next]_vars PROVE Verdict'
    OBVIOUS
  <1> USE DEF IInv, TypeOK, Discipline, Verdict, ChildEnded, Running, Live,
              EXIT_SUCCESS, EXIT_FAILURE
  <1>1. ASSUME NEW p \in Procs, Main(p) PROVE Verdict'
    <2>1. CASE Open(p) BY <2>1 DEF Open
    <2>2. CASE Acquire(p) BY <2>2 DEF Acquire
    <2>3. CASE Start(p) BY <2>3 DEF Start, Child
    <2>4. CASE Wait(p) BY <2>4 DEF Wait
    <2>5. CASE Release(p) BY <2>5 DEF Release
    <2>6. CASE Close(p) BY <2>6 DEF Close
    <2>7. CASE WaitEnds(p) BY <2>7 DEF WaitEnds, WaitForSingleObject
    <2>8. CASE GetExitCode(p) BY <2>8 DEF GetExitCode, STILL_ACTIVE
    <2>9. CASE ConvertCommand(p)
      <3>1. PICK next \in {"measure", "quote", "create"}, l \in Lines :
              /\ pc' = [pc EXCEPT ![p] = next] /\ line' = [line EXCEPT ![p] = l]
              /\ l.index <= Len(l.argv)
        BY <2>9, ConversionMoves
      <3>2. /\ UNCHANGED <<os, locked, fd, code, child, file, holder, cleans, kills>>
            /\ pc[p] \in {"execute", "measure", "quote"}
        BY <2>9, ConversionMoves
      <3> QED BY <3>1, <3>2
    <2> QED BY <1>1, <2>1, <2>2, <2>3, <2>4, <2>5, <2>6, <2>7, <2>8, <2>9 DEF Main
  <1>2. ASSUME NEW p \in Procs, Fatal(p) PROVE Verdict'
    BY <1>2 DEF Fatal
  <1>3. ASSUME NEW p \in Procs, ChildStep(p) \/ ChildKilled(p) PROVE Verdict'
    <2>1. PICK from, to : /\ ChildGoes(p, from, to) /\ to \in Children
                          /\ from \subseteq {"forked", "running"}
                          /\ to.state # "none"
                          /\ (os = "win32" /\ to.state = "signalled") =>
                               to.result = EXIT_FAILURE
      BY <1>3, ChildMoves
    <2>2. Running(p)
      BY <2>1 DEF ChildGoes
    <2>3. UNCHANGED <<os, pc, code>> /\ child'[p] = to
      BY <2>1 DEF ChildGoes
    <2>4. \A q \in Procs : q # p => child'[q] = child[q]
      BY <2>1 DEF ChildGoes
    <2>5. ASSUME NEW q \in Procs, q # p
          PROVE  ChildEnded(q)' = ChildEnded(q) /\ child'[q] = child[q]
      BY <2>4, <2>5
    <2>6. ~ChildEnded(p)
      BY <2>2
    <2> QED BY <2>1, <2>3, <2>5, <2>6
  <1>4. ASSUME NEW p \in Procs, Kill(p) PROVE Verdict'
    BY <1>4 DEF Kill
  <1>5. CASE Clean BY <1>5 DEF Clean
  <1>6. CASE UNCHANGED vars BY <1>6 DEF vars
  <1>7. ASSUME NEW p \in Procs, WaitFails(p) PROVE Verdict'
    BY <1>7 DEF WaitFails, WaitForSingleObject
  <1> QED BY <1>1, <1>2, <1>3, <1>4, <1>5, <1>6, <1>7 DEF Next

LEMMA VerdictHolds == Spec => []Verdict
  <1>1. Init => Verdict
    <2> SUFFICES ASSUME Init, NEW p \in Procs
                 PROVE  pc[p] = "open" /\ child[p].state = "none"
      BY DEF Verdict
    <2> QED BY DEF Init, Child
  <1> QED BY <1>1, VerdictStep, Invariance, PTL DEF Spec

\* A locker reports success only for a command that succeeded or, on POSIX,
\* that a signal killed.
THEOREM ExitStatusHolds == Spec => []ExitStatus
  <1>1. IInv /\ Verdict => ExitStatus
    BY DEF IInv, TypeOK, Verdict, ExitStatus, ChildEnded, Children, Child,
           EXIT_SUCCESS, EXIT_FAILURE
  <1> QED BY Invariance, VerdictHolds, <1>1, PTL

----------------------------------------------------------------------------
(* The command line.                                                       *)

\* The argument lengths before each index of argv, added up.
Sums(argv) ==
  LET sum[k \in 0 .. Len(argv)] == IF k = 0 THEN 0 ELSE sum[k - 1] + argv[k]
  IN sum

\* The natural numbers are well founded under <, hence what holds of 0 and of
\* the successor of each number it holds of holds of all of them.
LEMMA LessIsWellFounded ==
  IsWellFoundedOn({x \in Nat \X Nat : x[1] < x[2]}, Nat)
  BY NatLessThanWellFounded DEF OpToRel

LEMMA InductionOn ==
  ASSUME NEW S \in SUBSET Nat, 0 \in S, \A n \in S : n + 1 \in S
  PROVE  S = Nat
  <1> SUFFICES ASSUME S # Nat PROVE FALSE
    OBVIOUS
  <1>1. PICK n \in Nat \ S : \A m \in Nat \ S : ~(m < n)
    <2> DEFINE Less == {x \in Nat \X Nat : x[1] < x[2]}
    <2>1. IsWellFoundedOn(Less, Nat)
      BY LessIsWellFounded
    <2>2. Nat \ S \in SUBSET Nat /\ Nat \ S # {}
      OBVIOUS
    <2> HIDE DEF Less
    <2>3. PICK n \in Nat \ S : \A m \in Nat \ S : ~(<<m, n>> \in Less)
      BY <2>1, <2>2, WFMin
    <2> QED BY <2>3 DEF Less
  <1>2. n # 0 /\ n - 1 \in Nat /\ n - 1 < n
    BY <1>1
  <1>3. n - 1 \in S
    BY <1>1, <1>2
  <1> QED BY <1>1, <1>2, <1>3

\* The sums exist, and are what their definition says.
LEMMA SumsType ==
  ASSUME NEW argv \in Seq(Nat)
  PROVE  /\ Sums(argv) \in [0 .. Len(argv) -> Nat]
         /\ Sums(argv)[0] = 0
         /\ \A k \in 1 .. Len(argv) : Sums(argv)[k] = Sums(argv)[k - 1] + argv[k]
  <1> DEFINE L == Len(argv)
             Adds(s, n) == /\ s \in [0 .. n -> Nat] /\ s[0] = 0
                           /\ \A k \in 1 .. n : s[k] = s[k - 1] + argv[k]
             S == {n \in Nat : n <= L => \E s : Adds(s, n)}
  <1>0. L \in Nat /\ \A k \in 1 .. L : argv[k] \in Nat
    OBVIOUS
  <1> HIDE DEF L
  <1>1. 0 \in S
    <2>1. Adds([k \in 0 .. 0 |-> 0], 0)
      OBVIOUS
    <2> HIDE DEF Adds
    <2> QED BY <2>1
  <1>2. ASSUME NEW n \in S PROVE n + 1 \in S
    <2> HIDE DEF Adds
    <2> SUFFICES ASSUME n + 1 <= L PROVE \E s : Adds(s, n + 1)
      OBVIOUS
    <2>1. n \in Nat /\ n <= L
      BY <1>0
    <2>2. PICK s : Adds(s, n)
      BY <2>1
    <2> DEFINE t == [k \in 0 .. n + 1 |-> IF k = n + 1 THEN s[n] + argv[n + 1] ELSE s[k]]
    <2>3. n + 1 \in 1 .. L /\ argv[n + 1] \in Nat /\ s[n] \in Nat
      BY <1>0, <2>1, <2>2 DEF Adds
    <2>4. t \in [0 .. n + 1 -> Nat] /\ t[0] = 0
      BY <2>1, <2>2, <2>3 DEF Adds
    <2>5. ASSUME NEW k \in 1 .. n + 1 PROVE t[k] = t[k - 1] + argv[k]
      <3>1. CASE k = n + 1
        BY <2>1, <3>1
      <3>2. CASE k # n + 1
        <4>1. k \in 1 .. n /\ t[k] = s[k] /\ t[k - 1] = s[k - 1]
          BY <2>1, <3>2
        <4> QED BY <2>2, <4>1 DEF Adds
      <3> QED BY <3>1, <3>2
    <2>6. Adds(t, n + 1)
      BY <2>4, <2>5 DEF Adds
    <2> HIDE DEF t
    <2> QED BY <2>6
  <1>3. L \in S
    <2>1. S = Nat
      <3> HIDE DEF S
      <3>1. S \in SUBSET Nat
        BY DEF S
      <3> QED BY <1>1, <1>2, <3>1, InductionOn
    <2> HIDE DEF S
    <2> QED BY <1>0, <2>1
  <1>4. PICK s : Adds(s, L)
    <2> HIDE DEF Adds
    <2> QED BY <1>0, <1>3
  <1>5. s = [k \in 0 .. L |-> IF k = 0 THEN 0 ELSE s[k - 1] + argv[k]]
    <2> DEFINE t == [k \in 0 .. L |-> IF k = 0 THEN 0 ELSE s[k - 1] + argv[k]]
    <2>1. \A k \in 0 .. L : s[k] = t[k]
      BY <1>0, <1>4
    <2> QED BY <1>4, <2>1
  <1>6. Sums(argv) = [k \in 0 .. L |-> IF k = 0 THEN 0 ELSE Sums(argv)[k - 1] + argv[k]]
    BY <1>5 DEF Sums, L
  <1> DEFINE f == Sums(argv)
             T == {n \in Nat : n <= L => f[n] = s[n]}
  <1>7. f = [k \in 0 .. L |-> IF k = 0 THEN 0 ELSE f[k - 1] + argv[k]]
    BY <1>6
  <1> HIDE DEF f
  <1>a. f[0] = 0 /\ \A k \in 1 .. L : f[k] = f[k - 1] + argv[k]
    <2> DEFINE g == [k \in 0 .. L |-> IF k = 0 THEN 0 ELSE f[k - 1] + argv[k]]
    <2>1. g[0] = 0 /\ \A k \in 1 .. L : g[k] = f[k - 1] + argv[k]
      BY <1>0
    <2> HIDE DEF g
    <2> QED BY <1>7, <2>1 DEF g
  <1>8. T = Nat
    <2>1. 0 \in T
      BY <1>0, <1>4, <1>a
    <2>2. ASSUME NEW n \in T PROVE n + 1 \in T
      <3> SUFFICES ASSUME n + 1 <= L PROVE f[n + 1] = s[n + 1]
        OBVIOUS
      <3>1. n \in Nat /\ n + 1 \in 1 .. L /\ f[n] = s[n]
        BY <1>0
      <3>2. f[n + 1] = f[n] + argv[n + 1]
        BY <1>a, <3>1
      <3>3. s[n + 1] = s[n] + argv[n + 1]
        BY <1>4, <3>1
      <3> QED BY <3>1, <3>2, <3>3
    <2>3. T \in SUBSET Nat
      OBVIOUS
    <2> HIDE DEF T
    <2> QED BY <2>1, <2>2, <2>3, InductionOn
  <1>9. f = s
    <2>1. \A k \in 0 .. L : f[k] = s[k]
      BY <1>0, <1>8
    <2> QED BY <1>4, <1>7, <2>1
  <1> QED BY <1>4, <1>9 DEF f, L

\* No argument has a negative length: the sums grow with the index.
LEMMA SumsGrow ==
  ASSUME NEW argv \in Seq(Nat), NEW k \in 0 .. Len(argv)
  PROVE  Sums(argv)[k] <= Sums(argv)[Len(argv)]
  <1> DEFINE L == Len(argv)
             s == Sums(argv)
             S == {n \in Nat : n <= L => s[L - n] <= s[L]}
  <1>0. /\ L \in Nat /\ s \in [0 .. L -> Nat]
        /\ \A j \in 1 .. L : argv[j] \in Nat /\ s[j] = s[j - 1] + argv[j]
    BY SumsType
  <1> HIDE DEF L, s
  <1>1. 0 \in S
    BY <1>0
  <1>2. ASSUME NEW n \in S PROVE n + 1 \in S
    <2> SUFFICES ASSUME n + 1 <= L PROVE s[L - (n + 1)] <= s[L]
      OBVIOUS
    <2> DEFINE j == L - n
    <2>1. n \in Nat /\ j \in 1 .. L /\ j - 1 \in 0 .. L /\ L - (n + 1) = j - 1
      BY <1>0
    <2>2. s[j] <= s[L]
      BY <1>0, <2>1
    <2> HIDE DEF j
    <2>3. s[j] = s[j - 1] + argv[j] /\ argv[j] \in Nat
      BY <1>0, <2>1
    <2>4. s[j - 1] \in Nat /\ s[j] \in Nat /\ s[L] \in Nat
      BY <1>0, <2>1
    <2> QED BY <2>1, <2>2, <2>3, <2>4
  <1>3. S = Nat
    <2>1. S \in SUBSET Nat
      OBVIOUS
    <2> HIDE DEF S
    <2> QED BY <1>1, <1>2, <2>1, InductionOn
  <1>4. L - k \in S /\ L - k <= L /\ L - (L - k) = k
    <2>1. L - k \in Nat /\ L - k <= L /\ L - (L - k) = k
      BY <1>0 DEF L
    <2> HIDE DEF S
    <2> QED BY <1>3, <2>1
  <1> QED BY <1>4 DEF L, s

\* The conversion counts what it will write, then writes what it counted: after
\* the first loop length_total has the prefix, six bytes and its length for
\* each argument, and the closing quote; in the second length_used has the
\* prefix and, for each argument copied, three bytes and its length.
Accounts(l, stage) ==
  LET s == Sums(l.argv)
      n == Len(l.argv)
  IN /\ l.argv # <<>>
     /\ stage = "measure" => l.total = 8 + s[l.index] + 6 * l.index
     /\ stage \in {"quote", "create"} => l.total = 8 + s[n] + 6 * n
     /\ stage = "quote" => l.used = 7 + s[l.index] + 3 * l.index
     /\ stage = "create" => l.used = 9 + s[n] + 3 * n

Accounted ==
  \A p \in Procs :
    pc[p] \in {"measure", "quote", "create"} => Accounts(line[p], pc[p])

\* Each step of the conversion keeps the account.
LEMMA ConversionAccounts ==
  ASSUME IInv, Accounted, NEW p \in Procs, ConvertCommand(p)
  PROVE  Accounts(line'[p], pc'[p])
  <1> DEFINE o == line[p]
             n == Len(o.argv)
             s == Sums(o.argv)
  <1>0. /\ o \in Lines /\ o.index <= Len(o.argv)
        /\ pc \in [Procs -> Live \union {"exited", "killed"}]
        /\ line \in [Procs -> Lines]
    BY DEF IInv, TypeOK, Discipline
  <1>a. /\ o.argv \in Seq(Nat) /\ n \in Nat
        /\ o.index \in 0 .. n /\ o.total \in Nat /\ o.used \in Nat
    BY <1>0 DEF Lines
  <1>b. /\ s \in [0 .. n -> Nat] /\ s[0] = 0
        /\ \A k \in 1 .. n : s[k] = s[k - 1] + o.argv[k]
    BY <1>a, SumsType
  <1> USE DEF PrefixSize, QuoteSize, SpaceSize
  <1>1. CASE Convert(p)
    <2>1. PICK argv \in Commands :
            line' = [line EXCEPT ![p] = Line(argv, 0, PrefixSize + QuoteSize, 0)]
      BY <1>1 DEF Convert
    <2>2. pc'[p] = "measure"
      BY <1>0, <1>1 DEF Convert
    <2>3. /\ line'[p].argv = argv /\ line'[p].index = 0 /\ line'[p].total = 8
          /\ argv \in Seq(Nat) /\ argv # <<>>
      BY <1>0, <2>1, CommandsAssumption DEF Line
    <2>4. Sums(argv)[0] = 0
      BY <2>3, SumsType
    <2> QED BY <2>2, <2>3, <2>4 DEF Accounts
  <1>2. CASE Measure(p)
    <2> DEFINE i == o.index
    <2>1. pc[p] = "measure" /\ pc'[p] = "measure" /\ ~AtEnd(p)
      BY <1>2 DEF Measure
    <2>2. Argument(p) \in Nat /\ i + 1 \in 1 .. n /\ i \in 0 .. n
      BY <1>a, <2>1, ArgumentIsNat DEF IInv
    <2>3. s[i + 1] = s[i] + Argument(p)
      <3>1. s[i + 1] = s[(i + 1) - 1] + o.argv[i + 1]
        BY <1>b, <2>2
      <3> QED BY <1>a, <2>2, <3>1 DEF Argument
    <2>4. /\ line'[p].argv = o.argv /\ line'[p].index = i + 1
          /\ line'[p].total = o.total + 1 + Argument(p) + 1 + 4
      BY <1>0, <1>2 DEF Measure, Line
    <2>5. o.total = 8 + s[i] + 6 * i /\ o.argv # <<>>
      BY <2>1 DEF Accounted, Accounts
    <2>6. s[i] \in Nat /\ s[i + 1] \in Nat
      BY <1>b, <2>2
    <2>7. line'[p].total = 8 + s[i + 1] + 6 * (i + 1)
      <3>1. \A a, b, j \in Nat :
              8 + (a + b) + 6 * (j + 1) = (8 + a + 6 * j) + 1 + b + 1 + 4
        OBVIOUS
      <3>2. i \in Nat
        BY <1>a
      <3> HIDE DEF s, i
      <3>3. 8 + (s[i] + Argument(p)) + 6 * (i + 1)
              = (8 + s[i] + 6 * i) + 1 + Argument(p) + 1 + 4
        BY <2>2, <2>6, <3>1, <3>2
      <3> QED BY <2>3, <2>4, <2>5, <3>3
    <2> HIDE DEF s, n
    <2> QED BY <2>1, <2>4, <2>5, <2>7 DEF Accounts, s
  <1>3. CASE Allocate(p)
    <2>1. pc[p] = "measure" /\ pc'[p] = "quote" /\ o.index = n
      BY <1>0, <1>3 DEF Allocate, AtEnd
    <2>2. /\ line'[p].argv = o.argv /\ line'[p].index = 0
          /\ line'[p].total = o.total /\ line'[p].used = 7
      BY <1>0, <1>3 DEF Allocate, Line
    <2>3. o.total = 8 + s[n] + 6 * n /\ o.argv # <<>>
      BY <2>1 DEF Accounted, Accounts
    <2> QED BY <1>b, <2>1, <2>2, <2>3 DEF Accounts
  <1>4. CASE Quote(p)
    <2> DEFINE i == o.index
    <2>1. pc[p] = "quote" /\ pc'[p] = "quote" /\ ~AtEnd(p)
      BY <1>4 DEF Quote
    <2>2. Argument(p) \in Nat /\ i + 1 \in 1 .. n /\ i \in 0 .. n
      BY <1>a, <2>1, ArgumentIsNat DEF IInv
    <2>3. s[i + 1] = s[i] + Argument(p)
      <3>1. s[i + 1] = s[(i + 1) - 1] + o.argv[i + 1]
        BY <1>b, <2>2
      <3> QED BY <1>a, <2>2, <3>1 DEF Argument
    <2>4. /\ line'[p].argv = o.argv /\ line'[p].index = i + 1
          /\ line'[p].total = o.total
          /\ line'[p].used = o.used + 1 + Argument(p) + 1 + 1
      BY <1>0, <1>4 DEF Quote, Line
    <2>5. /\ o.used = 7 + s[i] + 3 * i /\ o.total = 8 + s[n] + 6 * n
          /\ o.argv # <<>>
      BY <2>1 DEF Accounted, Accounts
    <2>6. s[i] \in Nat /\ s[i + 1] \in Nat
      BY <1>b, <2>2
    <2>7. line'[p].used = 7 + s[i + 1] + 3 * (i + 1)
      <3>1. \A a, b, j \in Nat :
              7 + (a + b) + 3 * (j + 1) = (7 + a + 3 * j) + 1 + b + 1 + 1
        OBVIOUS
      <3>2. i \in Nat
        BY <1>a
      <3> HIDE DEF s, i
      <3>3. 7 + (s[i] + Argument(p)) + 3 * (i + 1)
              = (7 + s[i] + 3 * i) + 1 + Argument(p) + 1 + 1
        BY <2>2, <2>6, <3>1, <3>2
      <3> QED BY <2>3, <2>4, <2>5, <3>3
    <2> HIDE DEF s, n
    <2> QED BY <2>1, <2>4, <2>5, <2>7 DEF Accounts, s, n
  <1>5. CASE Terminate(p)
    <2>1. pc[p] = "quote" /\ pc'[p] = "create" /\ o.index = n
      BY <1>0, <1>5 DEF Terminate, AtEnd
    <2>2. /\ line'[p].argv = o.argv /\ line'[p].total = o.total
          /\ line'[p].used = o.used + 2
      BY <1>0, <1>5 DEF Terminate, Line
    <2>3. /\ o.used = 7 + s[n] + 3 * n /\ o.total = 8 + s[n] + 6 * n
          /\ o.argv # <<>>
      BY <2>1 DEF Accounted, Accounts
    <2>4. s[n] \in Nat
      BY <1>a, <1>b
    <2>5. line'[p].used = 9 + s[n] + 3 * n
      <3>1. \A a, j \in Nat : (7 + a + 3 * j) + 2 = 9 + a + 3 * j
        OBVIOUS
      <3>2. (7 + s[n] + 3 * n) + 2 = 9 + s[n] + 3 * n
        BY <1>a, <2>4, <3>1
      <3> QED BY <2>2, <2>3, <3>2
    <2> QED BY <2>1, <2>2, <2>3, <2>5 DEF Accounts
  <1> QED BY <1>1, <1>2, <1>3, <1>4, <1>5 DEF ConvertCommand

\* No other step leads into the conversion or touches a line that is being made.
LEMMA OtherStepsLeaveLines ==
  ASSUME IInv, [Next]_vars, NEW q \in Procs, ~ConvertCommand(q)
  PROVE  \/ pc'[q] = pc[q] /\ line'[q] = line[q]
         \/ pc'[q] \notin {"measure", "quote", "create"}
  <1> DEFINE Left == \/ pc'[q] = pc[q] /\ line'[q] = line[q]
                     \/ pc'[q] \notin {"measure", "quote", "create"}
  <1>0. /\ pc \in [Procs -> Live \union {"exited", "killed"}]
        /\ line \in [Procs -> Lines]
    BY DEF IInv, TypeOK
  <1>1. ASSUME NEW p \in Procs, Main(p) PROVE Left
    <2>1. CASE Open(p) BY <1>0, <2>1 DEF Open
    <2>2. CASE Acquire(p) BY <1>0, <2>2 DEF Acquire
    <2>3. CASE Start(p) BY <1>0, <2>3 DEF Start
    <2>4. CASE Wait(p) BY <1>0, <2>4 DEF Wait
    <2>5. CASE Release(p) BY <1>0, <2>5 DEF Release
    <2>6. CASE Close(p) BY <1>0, <2>6 DEF Close
    <2>7. CASE WaitEnds(p) BY <1>0, <2>7 DEF WaitEnds, WaitForSingleObject
    <2>8. CASE GetExitCode(p) BY <1>0, <2>8 DEF GetExitCode
    <2>9. CASE ConvertCommand(p)
      <3>1. q # p
        BY <2>9
      <3>2. /\ \E next \in {"measure", "quote", "create"} : pc' = [pc EXCEPT ![p] = next]
            /\ \E l \in Lines : line' = [line EXCEPT ![p] = l]
        BY <2>9, ConversionMoves DEF IInv
      <3> QED BY <1>0, <3>1, <3>2
    <2> QED BY <1>1, <2>1, <2>2, <2>3, <2>4, <2>5, <2>6, <2>7, <2>8, <2>9 DEF Main
  <1>2. ASSUME NEW p \in Procs, WaitFails(p) \/ Fatal(p) \/ Kill(p) PROVE Left
    BY <1>0, <1>2 DEF WaitFails, WaitForSingleObject, Fatal, Kill
  <1>3. ASSUME NEW p \in Procs, ChildStep(p) \/ ChildKilled(p) PROVE Left
    <2>1. UNCHANGED <<pc, line>>
      BY <1>3 DEF ChildStep, ChildKilled, ChildExec, ChildFatal, CommandExits, ChildGoes
    <2> QED BY <2>1
  <1>4. CASE Clean BY <1>4 DEF Clean
  <1>5. CASE UNCHANGED vars BY <1>5 DEF vars
  <1> QED BY <1>1, <1>2, <1>3, <1>4, <1>5 DEF Next

LEMMA AccountedHolds == Spec => []Accounted
  <1>1. Init => Accounted
    BY DEF Init, Accounted
  <1>2. IInv /\ Accounted /\ [Next]_vars => Accounted'
    <2> SUFFICES ASSUME IInv, Accounted, [Next]_vars, NEW q \in Procs,
                        pc'[q] \in {"measure", "quote", "create"}
                 PROVE  Accounts(line'[q], pc'[q])
      BY DEF Accounted
    <2>1. CASE ConvertCommand(q)
      BY <2>1, ConversionAccounts
    <2>2. CASE ~ConvertCommand(q)
      <3>1. pc'[q] = pc[q] /\ line'[q] = line[q]
        BY <2>2, OtherStepsLeaveLines
      <3> QED BY <3>1 DEF Accounted
    <2> QED BY <2>1, <2>2
  <1> QED BY <1>1, <1>2, Invariance, PTL DEF Spec

\* What the conversion has written never exceeds what it allocated, at any
\* step of the second loop and for any number of arguments of any length:
\* what is left to write is at least the sum of the lengths not copied, and at
\* the end two bytes or more are left over.
THEOREM CommandLineFitsHolds == Spec => []CommandLineFits
  <1>1. IInv /\ Accounted => CommandLineFits
    <2> SUFFICES ASSUME IInv, Accounted, NEW p \in Procs,
                        pc[p] \in {"quote", "create"}
                 PROVE  line[p].used <= line[p].total
      BY DEF CommandLineFits
    <2> DEFINE o == line[p]
               n == Len(o.argv)
               s == Sums(o.argv)
    <2>0. o \in Lines /\ o.index <= n
      BY DEF IInv, TypeOK, Discipline
    <2>1. o.argv \in Seq(Nat) /\ n \in Nat /\ o.index \in 0 .. n
      BY <2>0 DEF Lines
    <2>2. Accounts(o, pc[p])
      BY DEF Accounted
    <2>3. n >= 1 /\ o.total = 8 + s[n] + 6 * n
      BY <2>1, <2>2 DEF Accounts
    <2>4. s[n] \in Nat /\ s[o.index] \in Nat /\ s[o.index] <= s[n]
      <3>1. s \in [0 .. n -> Nat] /\ s[o.index] <= s[n]
        BY <2>1, SumsType, SumsGrow
      <3> HIDE DEF s, n
      <3> QED BY <2>1, <3>1
    <2>5. CASE pc[p] = "quote"
      <3>1. o.used = 7 + s[o.index] + 3 * o.index
        BY <2>2, <2>5 DEF Accounts
      <3>2. \A a, b, j, k \in Nat : a <= b /\ j <= k => 7 + a + 3 * j <= 8 + b + 6 * k
        OBVIOUS
      <3>3. o.index \in Nat /\ o.index <= n
        BY <2>1
      <3>4. 7 + s[o.index] + 3 * o.index <= 8 + s[n] + 6 * n
        BY <2>1, <2>4, <3>2, <3>3
      <3> QED BY <2>3, <3>1, <3>4
    <2>6. CASE pc[p] = "create"
      <3>1. o.used = 9 + s[n] + 3 * n
        BY <2>2, <2>6 DEF Accounts
      <3> HIDE DEF s, n
      <3> QED BY <2>1, <2>3, <2>4, <3>1
    <2> QED BY <2>5, <2>6
  <1> QED BY <1>1, Invariance, AccountedHolds, PTL

----------------------------------------------------------------------------
(* How long the lockers run.                                               *)

\* How far a locker is from its end: the calls of main still to come, then the
\* arguments left to a loop of the conversion, or what its child has to do.
Calls(c) ==
  CASE c = "open" -> 10 [] c = "acquire" -> 9 [] c = "execute" -> 8
    [] c = "measure" -> 7 [] c = "quote" -> 6 [] c = "create" -> 5
    [] c = "wait" -> 4 [] c = "collect" -> 3 [] c = "release" -> 2
    [] c = "close" -> 1 [] OTHER -> 0
InLoop(c, l, h) ==
  CASE c \in {"measure", "quote"} -> Len(l.argv) - l.index
    [] c \notin {"measure", "quote"} /\ h.state = "forked" -> 2
    [] c \notin {"measure", "quote"} /\ h.state = "running" -> 1
    [] OTHER -> 0
Distance(p) == <<Calls(pc[p]), InLoop(pc[p], line[p], child[p])>>

\* Less of the first, or the same of the first and less of the second.
Nearer == LexPairOrdering({x \in Nat \X Nat : x[1] < x[2]},
                          {x \in Nat \X Nat : x[1] < x[2]}, Nat, Nat)

\* There is no endless descent.
LEMMA NearerIsWellFounded == IsWellFoundedOn(Nearer, Nat \X Nat)
  BY LessIsWellFounded, WFLexPairOrdering DEF Nearer

LEMMA NearerIs ==
  ASSUME NEW a \in Nat, NEW b \in Nat, NEW c \in Nat, NEW d \in Nat
  PROVE  <<<<a, b>>, <<c, d>>>> \in Nearer <=> a < c \/ (a = c /\ b < d)
  BY DEF Nearer, LexPairOrdering

DistanceType ==
  \A p \in Procs : /\ Calls(pc[p]) \in Nat
                   /\ InLoop(pc[p], line[p], child[p]) \in Nat

LEMMA DistanceIsNat == IInv => DistanceType
  <1> SUFFICES ASSUME IInv, NEW p \in Procs
               PROVE  /\ Calls(pc[p]) \in Nat
                      /\ InLoop(pc[p], line[p], child[p]) \in Nat
    BY DEF DistanceType
  <1>1. line[p] \in Lines /\ line[p].index <= Len(line[p].argv)
    BY DEF IInv, TypeOK, Discipline
  <1>2. line[p].index \in Nat /\ Len(line[p].argv) \in Nat
    BY <1>1 DEF Lines
  <1>3. InLoop(pc[p], line[p], child[p]) \in Nat
    BY <1>1, <1>2 DEF InLoop
  <1>4. Calls(pc[p]) \in Nat
    BY DEF Calls
  <1> QED BY <1>3, <1>4

\* What p and its child do.
Own(p) == Main(p) \/ WaitFails(p) \/ Fatal(p) \/ ChildStep(p)
          \/ ChildKilled(p) \/ Kill(p)

\* p's steps take p nearer to its end: to a later call, a later argument or a
\* later state of its child.
LEMMA OwnStepAdvances ==
  ASSUME IInv, NEW p \in Procs, Own(p)
  PROVE  \/ Calls(pc'[p]) < Calls(pc[p])
         \/ /\ Calls(pc'[p]) = Calls(pc[p])
            /\ InLoop(pc'[p], line'[p], child'[p])
                 < InLoop(pc[p], line[p], child[p])
  <1>0. /\ pc \in [Procs -> Live \union {"exited", "killed"}]
        /\ line \in [Procs -> Lines] /\ child \in [Procs -> Children]
    BY DEF IInv, TypeOK
  <1>1. /\ Calls("open") = 10 /\ Calls("acquire") = 9 /\ Calls("execute") = 8
        /\ Calls("create") = 5 /\ Calls("wait") = 4 /\ Calls("collect") = 3
        /\ Calls("release") = 2 /\ Calls("close") = 1 /\ Calls("exited") = 0
        /\ Calls("killed") = 0 /\ Calls("measure") = 7 /\ Calls("quote") = 6
    BY DEF Calls
  <1>2. CASE Open(p) \/ Acquire(p) \/ Start(p) \/ Wait(p) \/ WaitEnds(p)
             \/ WaitFails(p) \/ GetExitCode(p) \/ Release(p) \/ Close(p)
    <2>1. CASE Open(p) BY <1>0, <1>1, <2>1 DEF Open
    <2>2. CASE Acquire(p) BY <1>0, <1>1, <2>2 DEF Acquire
    <2>3. CASE Start(p) BY <1>0, <1>1, <2>3 DEF Start
    <2>4. CASE Wait(p) BY <1>0, <1>1, <2>4 DEF Wait
    <2>5. CASE WaitEnds(p) \/ WaitFails(p)
      BY <1>0, <1>1, <2>5 DEF WaitEnds, WaitFails, WaitForSingleObject
    <2>6. CASE GetExitCode(p) BY <1>0, <1>1, <2>6 DEF GetExitCode
    <2>7. CASE Release(p) BY <1>0, <1>1, <2>7 DEF Release
    <2>8. CASE Close(p) BY <1>0, <1>1, <2>8 DEF Close
    <2> QED BY <1>2, <2>1, <2>2, <2>3, <2>4, <2>5, <2>6, <2>7, <2>8
  <1>3. CASE Fatal(p) \/ Kill(p)
    <2>1. pc[p] \in Live
      BY <1>3 DEF Fatal, CanFail, Kill
    <2>2. Calls(pc[p]) > 0
      BY <1>1, <2>1 DEF Live, Holding
    <2> QED BY <1>0, <1>3, <1>1, <2>2 DEF Fatal, Kill
  <1>4. CASE Convert(p) \/ Allocate(p) \/ Terminate(p)
    BY <1>0, <1>4, <1>1 DEF Convert, Allocate, Terminate
  <1>5. CASE Measure(p) \/ Quote(p)
    <2>1. /\ pc[p] \in {"measure", "quote"} /\ pc'[p] = pc[p] /\ ~AtEnd(p)
          /\ line'[p].argv = line[p].argv
          /\ line'[p].index = line[p].index + 1
      BY <1>0, <1>5 DEF Measure, Quote, Line
    <2>2. line[p].index \in Nat /\ Len(line[p].argv) \in Nat
      BY <1>0 DEF Lines
    <2> QED BY <2>1, <2>2 DEF InLoop
  <1>6. CASE ChildStep(p) \/ ChildKilled(p)
    <2>1. pc' = pc /\ line' = line
      BY <1>6 DEF ChildStep, ChildKilled, ChildExec, ChildFatal, CommandExits,
                  ChildGoes
    <2>2. \/ child[p].state = "forked" /\ child'[p].state # "forked"
          \/ child[p].state = "running" /\ child'[p].state \notin {"forked", "running"}
      BY <1>0, <1>6 DEF ChildStep, ChildKilled, ChildExec, ChildFatal,
                        CommandExits, ChildGoes, Child
    <2>3. pc[p] \notin {"measure", "quote"}
      BY <2>2 DEF IInv, Discipline
    <2> QED BY <2>1, <2>2, <2>3 DEF InLoop
  <1> QED BY <1>2, <1>3, <1>4, <1>5, <1>6 DEF Own, Main, ConvertCommand

\* Nothing that p does changes the distance of another locker.
LEMMA OwnStepIsOwn ==
  ASSUME IInv, NEW p \in Procs, Own(p), NEW q \in Procs, q # p
  PROVE  pc'[q] = pc[q] /\ line'[q] = line[q] /\ child'[q] = child[q]
  <1>0. /\ pc \in [Procs -> Live \union {"exited", "killed"}]
        /\ line \in [Procs -> Lines] /\ child \in [Procs -> Children]
    BY DEF IInv, TypeOK
  <1>1. CASE Open(p) \/ Acquire(p) \/ Start(p) \/ Wait(p) \/ WaitEnds(p)
             \/ WaitFails(p) \/ GetExitCode(p) \/ Release(p) \/ Close(p)
    BY <1>0, <1>1 DEF Open, Acquire, Start, Wait, WaitEnds, WaitFails,
         WaitForSingleObject, GetExitCode, Release, Close
  <1>2. CASE Fatal(p) \/ Kill(p)
    BY <1>0, <1>2 DEF Fatal, Kill
  <1>3. CASE ConvertCommand(p)
    BY <1>0, <1>3 DEF ConvertCommand, Convert, Measure, Allocate, Quote, Terminate
  <1>4. CASE ChildStep(p) \/ ChildKilled(p)
    BY <1>0, <1>4 DEF ChildStep, ChildKilled, ChildExec, ChildFatal,
         CommandExits, ChildGoes
  <1> QED BY <1>1, <1>2, <1>3, <1>4 DEF Own, Main

\* A locker that waits for the lock waits for one that goes on: one that has
\* taken it and has neither released it nor ended.
WaitsForHolder ==
  \A p \in Procs : pc[p] = "acquire" /\ holder[fd[p]] # None =>
    /\ holder[fd[p]] \in Procs \ {p}
    /\ pc[holder[fd[p]]] \in Holding

\* Every step but a removal of the file takes one locker nearer to its end and
\* leaves the others where they are.
Advances ==
  Clean \/ \E p \in Procs :
             /\ <<Distance(p)', Distance(p)>> \in Nearer
             /\ \A q \in Procs \ {p} : Distance(q)' = Distance(q)

\* No locker can be kept running for ever: no step of its own repeats, none of
\* another sets it back, and whoever it waits for is on the way to the release
\* (EveryLockerEnds is this together with fairness).
THEOREM LockersAdvance ==
  Spec => [](\A p \in Procs : Distance(p) \in Nat \X Nat) /\ []WaitsForHolder
            /\ [][Advances]_vars
  <1>1. IInv => \A p \in Procs : Distance(p) \in Nat \X Nat
    BY DistanceIsNat DEF DistanceType, Distance
  <1>2. IInv => WaitsForHolder
    BY NoneAssumption DEF IInv, TypeOK, Discipline, WaitsForHolder, Live, Holding
  <1>3. IInv /\ DistanceType /\ DistanceType' /\ [Next]_vars => [Advances]_vars
    <2> SUFFICES ASSUME IInv, DistanceType, DistanceType', Next, ~Clean PROVE Advances
      BY DEF Advances
    <2>1. PICK p \in Procs : Own(p)
      BY DEF Next, Own
    <2>2. <<Distance(p)', Distance(p)>> \in Nearer
      <3>1. /\ Calls(pc[p]) \in Nat /\ InLoop(pc[p], line[p], child[p]) \in Nat
            /\ Calls(pc'[p]) \in Nat /\ InLoop(pc'[p], line'[p], child'[p]) \in Nat
        BY DEF DistanceType
      <3> QED BY <2>1, <3>1, OwnStepAdvances, NearerIs DEF Distance
    <2>3. \A q \in Procs \ {p} : Distance(q)' = Distance(q)
      BY <2>1, OwnStepIsOwn DEF Distance
    <2> QED BY <2>2, <2>3 DEF Advances
  <1> QED BY <1>1, <1>2, <1>3, DistanceIsNat, Invariance, PTL DEF Spec

----------------------------------------------------------------------------
(* The refinement of Mutex.                                                *)

LEMMA InitRefines == Init => Abstract!MInit
  BY DEF Init, Abstract!MInit, Stage, LockOf, Waiting, Running, Child

\* Every step of Locker is a step of Mutex or changes no stage and no lock.
LEMMA StepRefines ==
  ASSUME IInv, [Next]_vars
  PROVE  [Abstract!MNext]_(Abstract!mvars)
  <1> DEFINE stage == [p \in Procs |-> Stage(p)]
             lock == [p \in Procs |-> LockOf(p)]
  \* A step of p leaves the other processes' stages alone.
  <1>a. ASSUME NEW p \in Procs, os' = os,
               \A q \in Procs : q # p =>
                 pc'[q] = pc[q] /\ child'[q] = child[q] /\ fd'[q] = fd[q]
        PROVE  /\ stage' = [stage EXCEPT ![p] = Stage(p)']
               /\ lock' = [lock EXCEPT ![p] = LockOf(p)']
    <2>1. \A q \in Procs : q # p => Stage(q)' = Stage(q) /\ LockOf(q)' = LockOf(q)
      BY <1>a DEF Stage, LockOf, Waiting, Running
    <2> QED BY <2>1
  <1>b. ASSUME NEW p \in Procs, os' = os,
               \A q \in Procs : q # p =>
                 pc'[q] = pc[q] /\ child'[q] = child[q] /\ fd'[q] = fd[q],
               Stage(p)' = Stage(p), LockOf(p)' = LockOf(p)
        PROVE  stage' = stage /\ lock' = lock
    BY <1>a, <1>b
  <1> USE DEF IInv, TypeOK, Discipline, Running, ChildEnded, Waiting, Stage,
              LockOf, Live
  <1>1. ASSUME NEW p \in Procs, Start(p)
        PROVE  \E l \in Inodes : Abstract!Enter(p, l)
    <2> DEFINE l == IF os = "win32" THEN 0 ELSE fd[p]
    <2>1. l \in Inodes
      BY <1>1, BoundAssumption DEF Start, Inodes
    <2>2. \A q \in Procs : Stage(q) = "running" => LockOf(q) # l
      <3> SUFFICES ASSUME NEW q \in Procs, Waiting(q), LockOf(q) = l PROVE FALSE
        OBVIOUS
      <3>1. pc[q] = "wait" /\ pc[p] \in {"execute", "create"} /\ fd[p] = fd[q]
        BY <1>1 DEF Start
      <3> QED BY <3>1 DEF Holding
    <2>3. Stage(p) = "waiting" /\ Stage(p)' = "running" /\ LockOf(p)' = l
      BY <1>1 DEF Start, Child
    <2>4. /\ stage' = [stage EXCEPT ![p] = "running"]
          /\ lock' = [lock EXCEPT ![p] = l]
      BY <1>a, <1>1, <2>3 DEF Start
    <2> HIDE DEF l
    <2> QED BY <2>1, <2>2, <2>3, <2>4 DEF Abstract!Enter
  \* A step that takes p out of its stage, without moving the others.
  <1>2. ASSUME NEW p \in Procs, os' = os,
               \A q \in Procs : q # p =>
                 pc'[q] = pc[q] /\ child'[q] = child[q] /\ fd'[q] = fd[q],
               Stage(p)' = "done"
        PROVE  \/ Abstract!Leave(p) \/ Abstract!GiveUp(p)
               \/ stage' = stage /\ lock' = lock
    <2>1. LockOf(p)' = None
      BY <1>2
    <2>2. CASE Stage(p) = "running"
      BY <1>2, <1>a, <2>1, <2>2 DEF Abstract!Leave
    <2>3. CASE Stage(p) = "waiting"
      <3>1. LockOf(p) = None
        BY <2>3
      <3>2. lock' = lock
        BY <1>2, <1>a, <2>1, <3>1
      <3> QED BY <1>2, <1>a, <2>3, <3>2 DEF Abstract!GiveUp
    <2>4. CASE Stage(p) = "done"
      BY <1>2, <1>b, <2>1, <2>4
    <2> QED BY <2>2, <2>3, <2>4
  <1>3. ASSUME NEW p \in Procs, ChildStep(p) \/ ChildKilled(p)
        PROVE  \/ Abstract!Leave(p) \/ Abstract!GiveUp(p)
               \/ stage' = stage /\ lock' = lock
    <2>1. PICK from, to : /\ ChildGoes(p, from, to) /\ to \in Children
                          /\ from \subseteq {"forked", "running"}
                          /\ to.state # "none"
                          /\ (os = "win32" /\ to.state = "signalled") =>
                               to.result = EXIT_FAILURE
      BY <1>3, ChildMoves
    <2>0. child'[p] = to
      BY <2>1 DEF ChildGoes
    <2>r. child[p].state \in {"forked", "running"}
      BY <2>1 DEF ChildGoes
    <2>u. UNCHANGED <<os, pc, fd>> /\ \A q \in Procs : q # p => child'[q] = child[q]
      BY <2>1 DEF ChildGoes
    <2>2. /\ child'[p].state # "none" /\ child[p].state \in {"forked", "running"}
          /\ UNCHANGED <<os, pc, fd>>
          /\ \A q \in Procs : q # p => child'[q] = child[q]
      BY <2>0, <2>1, <2>r, <2>u
    <2>3. CASE Waiting(p) /\ Waiting(p)'
      BY <1>b, <2>2, <2>3
    <2>4. CASE ~(Waiting(p) /\ Waiting(p)')
      <3>1. Stage(p)' = "done"
        BY <2>2, <2>4
      <3> QED BY <1>2, <2>2, <3>1
    <2> QED BY <2>3, <2>4
  <1>4. ASSUME NEW p \in Procs, Main(p), ~Start(p)
        PROVE  \/ Abstract!Leave(p) \/ Abstract!GiveUp(p)
               \/ stage' = stage /\ lock' = lock
    <2>1. CASE Open(p) BY <1>b, <2>1 DEF Open
    <2>2. CASE Acquire(p) BY <1>b, <2>2 DEF Acquire
    <2>3. CASE Wait(p) BY <1>b, <2>3 DEF Wait
    <2>4. CASE Release(p) BY <1>b, <2>4 DEF Release
    <2>5. CASE Close(p) BY <1>b, <2>5 DEF Close
    <2>6. CASE WaitEnds(p) BY <1>b, <2>6 DEF WaitEnds, WaitForSingleObject
    <2>7. CASE GetExitCode(p) BY <1>b, <2>7 DEF GetExitCode
    <2>8. CASE ConvertCommand(p) BY <1>b, <2>8, ConversionMoves
    <2> QED BY <1>4, <2>1, <2>2, <2>3, <2>4, <2>5, <2>6, <2>7, <2>8 DEF Main
  <1>5. ASSUME NEW p \in Procs, Fatal(p) \/ Kill(p) \/ WaitFails(p)
        PROVE  \/ Abstract!Leave(p) \/ Abstract!GiveUp(p)
               \/ stage' = stage /\ lock' = lock
    <2>1. /\ UNCHANGED <<os, fd, child>>
          /\ \/ pc' = [pc EXCEPT ![p] = "exited"]
             \/ pc' = [pc EXCEPT ![p] = "killed"]
             \/ pc[p] = "wait" /\ pc' = [pc EXCEPT ![p] = "collect"]
      BY <1>5 DEF Fatal, Kill, WaitFails, WaitForSingleObject
    <2>2. CASE pc[p] = "wait" /\ pc' = [pc EXCEPT ![p] = "collect"]
      <3>1. Stage(p)' = "done"
        BY <2>1, <2>2
      <3> QED BY <1>2, <2>1, <2>2, <3>1
    <2>3. CASE pc' = [pc EXCEPT ![p] = "exited"] \/ pc' = [pc EXCEPT ![p] = "killed"]
      <3>1. Stage(p)' = "done"
        BY <2>3
      <3> QED BY <1>2, <2>1, <2>3, <3>1
    <2> QED BY <2>1, <2>2, <2>3
  <1>6. CASE Clean BY <1>6 DEF Clean, Abstract!mvars
  <1>7. CASE UNCHANGED vars BY <1>7 DEF vars, Abstract!mvars
  <1> QED BY <1>1, <1>3, <1>4, <1>5, <1>6, <1>7
          DEF Next, Abstract!MNext, Abstract!mvars

\* sd-locker implements mutual exclusion of the commands it waits for, however
\* many lockers are killed and however often sd-clean removes the lock file.
THEOREM Refinement == Spec => ImplementsMutex
  <1>1. IInv /\ [Next]_vars => [Abstract!MNext]_(Abstract!mvars)
    BY StepRefines
  <1> QED BY InitRefines, <1>1, Invariance, PTL
          DEF Spec, ImplementsMutex, Abstract!MSpec
============================================================================
