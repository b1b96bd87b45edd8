----------------------------- MODULE SdRunProofs -----------------------------
(***************************************************************************)
(* Proofs about SdRun, for any number of runs, starts, failures, signals   *)
(* and calls of sd-clean.                                                  *)
(***************************************************************************)
EXTENDS SdRun, TLAPS

Points == Detecting \union Executing \union Ended

LEMMA LocksAre ==
  Locks = {"sd-arch.o.lock", "sd-os.o.lock", "sd-arch.lock", "sd-os.lock",
           "sd-adaversion.lock"}
  BY DEF Locks, ObjectLock, ProgramLock, AdaLock, Programs

\* The programs that p has done with building.
Past(p, g) ==
  \/ pc[p] \in {"execute", "executing", "header"} \union PastPrograms
  \/ pc[p] \in {"compile", "compiling", "linking"} /\ prog[p] = "sd-os" /\ g = "sd-arch"

\* What the detection of p knows of the files that all runs share.
Known(p) ==
  /\ pc[p] = "check" => locker \/ faults > 0
  /\ pc[p] = "no_locker" => faults > 0
  /\ pc[p] \in {"prepare", "move", "check"} => prog[p] = "sd-arch"
  /\ pc[p] \in {"compiling", "linking"} =>
       /\ holder[ObjectLock(prog[p])] = p
       /\ probe[prog[p]] # "built" \/ prog[p] \in disturbed
  /\ \A g \in Programs :
       /\ Past(p, g) => probe[g] = "built" \/ g \in misled[p] \union disturbed
       /\ (pc[p] \in Detecting \union {"detected"} /\ g \in found[p]) =>
            probe[g] = "built" \/ g \in disturbed
  /\ PastHeader(p) => "sd-arch" \in found[p]

Strays == \A c \in left : c.of \in disturbed
Shared == (\A p \in Runs : Known(p)) /\ Strays /\ EmptyExplained

\* The points from which p has not yet touched the output directory.
Before == Detecting \union {"detected", "refresh", "execute_module",
                            "not_found", "copy"}

\* The module's program failed, or its search found nothing; only a custom
\* program fails when the file is whole.
Failed(p) == rc[p] = 1 /\ (work[p] \in {"empty", "partial"} \/ (work[p] = "whole" /\ p \in CustomRuns))

\* What the execution of p knows of its module's files.
Kept(p) ==
  /\ pc[p] \in Before => output[p] = "absent"
  /\ pc[p] = "execute_module" => work[p] = "empty"
  /\ pc[p] = "not_found" => Failed(p) /\ work[p] = "empty"
  /\ pc[p] \in {"copy", "copying", "remove"} =>
       /\ Failed(p) \/ (rc[p] = 0 /\ (work[p] = "whole" \/ p \in spoilt))
       /\ (rc[p] = 1 /\ p \notin CustomRuns) =>
            status[p] = "failed" \/ p \in unmarked
  /\ pc[p] = "copying" => (status[p] = "succeeded" => p \in spoilt)
  /\ pc[p] = "remove" => output[p] = work[p] \/ p \in spoilt
  /\ pc[p] = "succeed" => output[p] = "whole" \/ p \in spoilt
  /\ pc[p] = "fail" => p \in CustomRuns /\ (output[p] # "absent" \/ p \in spoilt)
  /\ status[p] = "succeeded" => output[p] = "whole" \/ p \in spoilt
  /\ (pc[p] = "done" /\ p \notin spoilt) =>
       /\ output[p] # "absent"
       /\ p \notin unmarked =>
            \/ status[p] = "succeeded" /\ output[p] = "whole"
            \/ status[p] = "failed" /\ (output[p] = "whole" => p \in CustomRuns)

IInv == TypeOK /\ Shared /\ \A p \in Runs : Kept(p)

LEMMA InitIInv == Init => IInv
  <1> SUFFICES ASSUME Init PROVE IInv
    OBVIOUS
  <1> USE NoneAssumption, BoundAssumption, CleansAssumption
  <1>1. TypeOK
    <2>1. /\ locker \in BOOLEAN /\ cut \in BOOLEAN /\ left = {} /\ disturbed = {}
          /\ saved = "absent"
      BY DEF Init, SysInit
    <2>2. /\ prog \in [Runs -> Programs] /\ found \in [Runs -> SUBSET Programs]
          /\ misled \in [Runs -> SUBSET Programs]
          /\ probe \in [Programs -> {"absent", "partial", "built"}]
      BY DEF Init, SysInit, Programs
    <2>3. ada \in [Runs -> [type : BOOLEAN, version : BOOLEAN]]
      BY DEF Init, SysInit
    <2>4. holder \in [Locks -> Runs \union {None}]
      BY DEF Init, SysInit
    <2>5. /\ pc \in [Runs -> Points] /\ rc \in [Runs -> {0, 1}]
          /\ work \in [Runs -> Contents] /\ output \in [Runs -> Contents]
          /\ status \in [Runs -> Statuses]
      BY DEF Init, SysInit, Points, Ended, Contents, Statuses
    <2>6. /\ starts \in 0 .. MaxStarts /\ faults \in 0 .. MaxMishaps
          /\ kills \in 0 .. MaxMishaps /\ cleans \in 0 .. MaxCleans
      BY DEF Init, SysInit
    <2> QED BY <2>1, <2>2, <2>3, <2>4, <2>5, <2>6
            DEF Init, SysInit, TypeOK, SysTypeOK, Points
  <1>2. Shared
    BY DEF Init, SysInit, Shared, Known, Past, Strays, EmptyExplained, PastHeader,
           PastPrograms, Detecting
  <1>3. \A p \in Runs : Kept(p)
    BY DEF Init, SysInit, Kept, Before, Detecting
  <1> QED BY <1>1, <1>2, <1>3 DEF IInv

----------------------------------------------------------------------------
(* The detection.                                                          *)

\* A step of the detection moves one run, from one of its points to another,
\* to the end of the detection, or to a failure.
LEMMA DetectMoves ==
  ASSUME NEW p \in Runs, TypeOK, Detect(p)
  PROVE  /\ pc[p] \in Detecting
         /\ \E t \in Detecting \union {"detected", "fatal", "no_locker"} :
              pc' = [pc EXCEPT ![p] = t]
  <1> USE DEF Detecting, Goto
  <1>1. CASE PrepareLocker(p) \/ MoveLocker(p) \/ CheckLocker(p)
    BY <1>1 DEF PrepareLocker, MoveLocker, CheckLocker
  <1>2. CASE BeginCompile(p) \/ Compile(p) \/ Link(p)
    BY <1>2 DEF BeginCompile, Compile, Link, Compiled
  <1>3. CASE BeginExecute(p) \/ EndExecute(p) \/ MakeHeader(p)
    BY <1>3 DEF BeginExecute, EndExecute, MakeHeader
  <1>4. CASE TestSaved(p) \/ BeginDetectAda(p) \/ EndDetectAda(p)
    BY <1>4 DEF TestSaved, BeginDetectAda, EndDetectAda
  <1>5. CASE Truncate(p) \/ Write(p) \/ ReadType(p) \/ ReadVersion(p)
    BY <1>5 DEF Truncate, Write, ReadType, ReadVersion
  <1> QED BY <1>1, <1>2, <1>3, <1>4, <1>5 DEF Detect

\* The variables of the detection keep their types.
LEMMA DetectTypes ==
  ASSUME NEW p \in Runs, TypeOK, Detect(p), UNCHANGED modvars
  PROVE  TypeOK'
  <1>1. pc' \in [Runs -> Points] /\ UNCHANGED modvars
    BY DetectMoves DEF Points, Ended, Executing, TypeOK
  <1>2. prog[p] \in Programs
    BY DEF TypeOK, SysTypeOK
  <1>3. /\ faults' \in 0 .. MaxMishaps /\ UNCHANGED <<killvars, starts>>
        /\ prog' \in [Runs -> Programs] /\ holder' \in [Locks -> Runs \union {None}]
    <2> USE BoundAssumption, <1>2
        DEF TypeOK, SysTypeOK, Works, Fails, Unkilled, files, results, Compiled,
            Programs, Acquire, ReleaseAll
    <2>1. CASE PrepareLocker(p) \/ MoveLocker(p) \/ CheckLocker(p)
      BY <2>1 DEF PrepareLocker, MoveLocker, CheckLocker
    <2>2. CASE BeginCompile(p)
      <3>1. \/ prog' = prog
            \/ \E g \in Programs : prog' = [prog EXCEPT ![p] = g]
        BY <2>2 DEF BeginCompile
      <3>2. holder' = holder \/ holder' = [holder EXCEPT ![ObjectLock(prog[p])] = p]
        BY <2>2 DEF BeginCompile
      <3>3. UNCHANGED <<faults, killvars, starts>>
        BY <2>2 DEF BeginCompile
      <3>4. prog' \in [Runs -> Programs]
        <4> HIDE DEF Programs
        <4> QED BY <3>1
      <3>5. holder' \in [Locks -> Runs \union {None}]
        BY <3>2
      <3>6. faults' \in 0 .. MaxMishaps
        BY <3>3
      <3> QED BY <3>3, <3>4, <3>5, <3>6
    <2>3. CASE Compile(p) \/ Link(p) BY <2>3 DEF Compile, Link
    <2>4. CASE BeginExecute(p) BY <2>4 DEF BeginExecute
    <2>5. CASE EndExecute(p) BY <2>5 DEF EndExecute
    <2>6. CASE MakeHeader(p) BY <2>6 DEF MakeHeader
    <2>7. CASE TestSaved(p) \/ BeginDetectAda(p) \/ EndDetectAda(p)
      BY <2>7 DEF TestSaved, BeginDetectAda, EndDetectAda
    <2>8. CASE Truncate(p) \/ Write(p) \/ ReadType(p) \/ ReadVersion(p)
      BY <2>8 DEF Truncate, Write, ReadType, ReadVersion
    <2> QED BY <2>1, <2>2, <2>3, <2>4, <2>5, <2>6, <2>7, <2>8 DEF Detect
  <1>4. /\ locker' \in BOOLEAN /\ probe' \in [Programs -> {"absent", "partial", "built"}]
        /\ found' \in [Runs -> SUBSET Programs]
    <2> USE <1>2
        DEF TypeOK, SysTypeOK, files, results, Unsaved, Linked, Unlinked
    <2>1. CASE PrepareLocker(p) \/ MoveLocker(p) \/ CheckLocker(p)
      BY <2>1 DEF PrepareLocker, MoveLocker, CheckLocker
    <2>2. CASE BeginCompile(p) \/ Compile(p) \/ Link(p)
      BY <2>2 DEF BeginCompile, Compile, Link
    <2>3. CASE BeginExecute(p) \/ MakeHeader(p)
      BY <2>3 DEF BeginExecute, MakeHeader
    <2>4. CASE EndExecute(p)
      <3>1. found' = found \/ found' = [found EXCEPT ![p] = found[p] \union {prog[p]}]
        BY <2>4 DEF EndExecute
      <3> QED BY <2>4, <3>1 DEF EndExecute
    <2>5. CASE TestSaved(p) \/ BeginDetectAda(p) \/ EndDetectAda(p)
      BY <2>5 DEF TestSaved, BeginDetectAda, EndDetectAda
    <2>6. CASE Truncate(p) \/ Write(p) \/ ReadType(p) \/ ReadVersion(p)
      BY <2>6 DEF Truncate, Write, ReadType, ReadVersion
    <2> QED BY <2>1, <2>2, <2>3, <2>4, <2>5, <2>6 DEF Detect
  <1>5. /\ saved' \in {"absent", "empty", "whole"} /\ cut' \in BOOLEAN
        /\ ada' \in [Runs -> [type : BOOLEAN, version : BOOLEAN]]
    <2> USE DEF TypeOK, SysTypeOK, files, results
    <2>1. CASE PrepareLocker(p) \/ MoveLocker(p) \/ CheckLocker(p)
      BY <2>1 DEF PrepareLocker, MoveLocker, CheckLocker
    <2>2. CASE BeginCompile(p) \/ Compile(p) \/ Link(p)
      BY <2>2 DEF BeginCompile, Compile, Link
    <2>3. CASE BeginExecute(p) \/ EndExecute(p) \/ MakeHeader(p)
      BY <2>3 DEF BeginExecute, EndExecute, MakeHeader
    <2>4. CASE TestSaved(p) \/ BeginDetectAda(p)
      BY <2>4 DEF TestSaved, BeginDetectAda
    <2>5. CASE EndDetectAda(p)
      <3> DEFINE Both == [type : BOOLEAN, version : BOOLEAN]
      <3>1. PICK b \in BOOLEAN : ada' = [ada EXCEPT ![p] = [type |-> b, version |-> b]]
        BY <2>5 DEF EndDetectAda
      <3>2. [type |-> b, version |-> b] \in Both
        OBVIOUS
      <3>3. ada \in [Runs -> Both]
        OBVIOUS
      <3> HIDE DEF Both
      <3>4. ada' \in [Runs -> Both]
        BY <3>1, <3>2, <3>3
      <3> USE DEF Both
      <3> QED BY <2>5, <3>4 DEF EndDetectAda
    <2>6. CASE Truncate(p) BY <2>6 DEF Truncate
    <2>7. CASE Write(p) BY <2>7 DEF Write
    <2>8. CASE ReadType(p) BY <2>8 DEF ReadType
    <2>9. CASE ReadVersion(p) BY <2>9 DEF ReadVersion
    <2> QED BY <2>1, <2>2, <2>3, <2>4, <2>5, <2>6, <2>7, <2>8, <2>9 DEF Detect
  <1> QED BY <1>1, <1>3, <1>4, <1>5 DEF TypeOK, SysTypeOK, killvars, modvars, Points

\* What a step must leave to a run that does not take it: its variables and
\* locks, and a program that is there or is being built.
Untouched(q) ==
  /\ pc'[q] = pc[q] /\ prog'[q] = prog[q] /\ found'[q] = found[q]
  /\ misled'[q] = misled[q]
  /\ \A l \in Locks : holder[l] = q => holder'[l] = q
  /\ locker => locker'
  /\ faults > 0 => faults' > 0
  /\ disturbed \subseteq disturbed'
  /\ \A g \in Programs \ disturbed' :
       /\ probe[g] = "built" => probe'[g] = "built"
       /\ (pc[q] \in {"compiling", "linking"} /\ prog[q] = g /\ probe[g] # "built") =>
            probe'[g] # "built"

LEMMA UntouchedKnown ==
  ASSUME NEW q \in Runs, TypeOK, Known(q), Untouched(q)
  PROVE  Known(q)'
  <1>1. prog[q] \in Programs /\ ObjectLock(prog[q]) \in Locks /\ "sd-arch" \in Programs
    BY DEF TypeOK, SysTypeOK, Locks, Programs
  <1>2. PastHeader(q)' <=> PastHeader(q)
    BY DEF Untouched, PastHeader
  <1>3. \A g : Past(q, g)' <=> Past(q, g)
    BY DEF Untouched, Past
  <1> QED BY <1>1, <1>2, <1>3 DEF Known, Untouched

\* The explanation of an empty file stays while the file does.
LEMMA EmptyStays ==
  ASSUME EmptyExplained, saved' = saved, cut => cut',
         \A q \in Runs : pc[q] = "write" => pc'[q] = "write"
  PROVE  EmptyExplained'
  BY DEF EmptyExplained

\* A run that compiles a program is the only one to.
LEMMA OneCompiles ==
  ASSUME Shared, NEW p \in Runs, NEW q \in Runs \ {p}, prog[p] = prog[q],
         pc[p] \in {"compiling", "linking"}
  PROVE  pc[q] \notin {"compiling", "linking"}
  BY DEF Shared, Known

\* The shared files stay as the runs know them.  A program is built by one run
\* at a time, and no longer touched once it is there.
LEMMA DetectUntouched ==
  ASSUME NEW p \in Runs, TypeOK, Shared, Detect(p)
  PROVE  \A q \in Runs \ {p} : Untouched(q)
  <1> SUFFICES ASSUME NEW q \in Runs, q # p PROVE Untouched(q)
    OBVIOUS
  <1>1. PICK t : pc' = [pc EXCEPT ![p] = t]
    BY DetectMoves
  <1>2. /\ pc'[q] = pc[q] /\ prog'[q] = prog[q] /\ found'[q] = found[q]
        /\ UNCHANGED <<misled, disturbed>> /\ (faults > 0 => faults' > 0)
        /\ (locker => locker')
        /\ \A l \in Locks : holder[l] = q => holder'[l] = q
    <2> USE NoneAssumption, BoundAssumption, <1>1
        DEF TypeOK, SysTypeOK, files, results, killvars, Unkilled, Unsaved, Works,
            Fails, Acquire, ReleaseAll, Compiled
    <2>1. CASE PrepareLocker(p) \/ MoveLocker(p) \/ CheckLocker(p)
      BY <2>1 DEF PrepareLocker, MoveLocker, CheckLocker
    <2>2. CASE BeginCompile(p) BY <2>2 DEF BeginCompile
    <2>3. CASE Compile(p) \/ Link(p) BY <2>3 DEF Compile, Link
    <2>4. CASE BeginExecute(p) \/ MakeHeader(p) BY <2>4 DEF BeginExecute, MakeHeader
    <2>5. CASE EndExecute(p) BY <2>5 DEF EndExecute
    <2>6. CASE TestSaved(p) \/ BeginDetectAda(p) \/ EndDetectAda(p)
      BY <2>6 DEF TestSaved, BeginDetectAda, EndDetectAda
    <2>7. CASE Truncate(p) \/ Write(p) \/ ReadType(p) \/ ReadVersion(p)
      BY <2>7 DEF Truncate, Write, ReadType, ReadVersion
    <2> QED BY <2>1, <2>2, <2>3, <2>4, <2>5, <2>6, <2>7 DEF Detect
  <1>3. \A g \in Programs : g \notin disturbed =>
          /\ probe[g] = "built" => probe'[g] = "built"
          /\ (pc[q] \in {"compiling", "linking"} /\ prog[q] = g) => probe'[g] = probe[g]
    <2>1. CASE Compile(p) \/ Link(p)
      <3>1. /\ pc[p] \in {"compiling", "linking"} /\ prog[p] \in Programs
            /\ \A g \in Programs \ {prog[p]} : probe'[g] = probe[g]
        BY <2>1 DEF Compile, Link, Goto, Compiled, Linked, Unlinked, TypeOK, SysTypeOK
      <3>2. probe[prog[p]] # "built" \/ prog[p] \in disturbed
        BY <3>1 DEF Shared, Known
      <3>3. pc[q] \in {"compiling", "linking"} => prog[q] # prog[p]
        BY <3>1, OneCompiles
      <3> QED BY <3>1, <3>2, <3>3
    <2>2. CASE PrepareLocker(p) \/ MoveLocker(p) \/ CheckLocker(p) \/ BeginCompile(p)
      BY <2>2 DEF PrepareLocker, MoveLocker, CheckLocker, BeginCompile, files
    <2>3. CASE BeginExecute(p) \/ EndExecute(p) \/ MakeHeader(p)
      BY <2>3 DEF BeginExecute, EndExecute, MakeHeader, files
    <2>4. CASE TestSaved(p) \/ BeginDetectAda(p) \/ EndDetectAda(p)
      BY <2>4 DEF TestSaved, BeginDetectAda, EndDetectAda, Unsaved
    <2>5. CASE Truncate(p) \/ Write(p) \/ ReadType(p) \/ ReadVersion(p)
      BY <2>5 DEF Truncate, Write, ReadType, ReadVersion, Unsaved
    <2> QED BY <2>1, <2>2, <2>3, <2>4, <2>5 DEF Detect
  <1> QED BY <1>2, <1>3 DEF Untouched

\* What p has learnt by its own step.
LEMMA DetectLearns ==
  ASSUME NEW p \in Runs, TypeOK, Shared, Detect(p)
  PROVE  Known(p)'
  <1>0. /\ prog[p] \in {"sd-arch", "sd-os"} /\ Known(p)
        /\ faults \in Nat /\ Programs = {"sd-arch", "sd-os"}
    BY BoundAssumption DEF TypeOK, SysTypeOK, Programs, Shared
  <1> USE <1>0, NoneAssumption, LocksAre
      DEF TypeOK, SysTypeOK, Known, Past, PastHeader, PastPrograms,
          files, results, killvars, Unkilled, Unsaved, Works, Fails, Goto,
          Detecting
  <1>1. CASE PrepareLocker(p) BY <1>1 DEF PrepareLocker
  <1>2. CASE MoveLocker(p) BY <1>2 DEF MoveLocker
  <1>3. CASE CheckLocker(p) BY <1>3 DEF CheckLocker
  <1>4. CASE BeginCompile(p)
    <2>1. ObjectLock(prog[p]) \in Locks
      BY DEF ObjectLock
    <2>2. CASE probe[prog[p]] = "built" /\ Compiled(p, "compile")
      BY <1>4, <2>2 DEF BeginCompile, Compiled
    <2>3. CASE /\ probe[prog[p]] # "built" /\ Goto(p, "compile", "compiling")
               /\ Acquire(p, ObjectLock(prog[p])) /\ UNCHANGED prog
      BY <1>4, <2>1, <2>3 DEF BeginCompile, Acquire
    <2> QED BY <1>4, <2>2, <2>3 DEF BeginCompile
  <1>5. CASE Compile(p) BY <1>5 DEF Compile
  <1>6. CASE Link(p)
    <2>1. /\ pc[p] = "linking" /\ UNCHANGED <<found, killvars, locker>>
          /\ \A g \in Programs \ {prog[p]} : probe'[g] = probe[g]
      BY <1>6 DEF Link, Compiled, Linked, Unlinked
    <2>2. LinkedTwice(prog[p]) => prog[p] \in disturbed
      BY DEF LinkedTwice, Shared, Strays
    <2>3. CASE Compiled(p, "linking")
      <3>1. probe'[prog[p]] = "built" \/ prog[p] \in disturbed
        BY <1>6, <2>2, <2>3 DEF Link, Linked, Compiled
      <3>2. \A g \in Programs : (probe[g] = "built" \/ g \in disturbed) =>
              (probe'[g] = "built" \/ g \in disturbed)
        BY <2>1, <3>1
      <3> QED BY <2>1, <2>3, <3>1, <3>2 DEF Compiled
    <2>4. CASE Goto(p, "linking", "fatal")
      BY <2>4
    <2> QED BY <1>6, <2>3, <2>4 DEF Link
  <1>7. CASE BeginExecute(p) BY <1>7 DEF BeginExecute
  <1>8. CASE EndExecute(p)
    <2>1. \A g \in Programs : g \in found'[p] =>
            g \in found[p] \/ (g = prog[p] /\ probe[g] = "built")
      BY <1>8 DEF EndExecute
    <2>2. found[p] \subseteq found'[p]
      BY <1>8 DEF EndExecute
    <2>3. /\ pc[p] = "executing" /\ UNCHANGED <<files, prog, killvars>>
          /\ pc' = [pc EXCEPT ![p] = IF prog[p] = "sd-arch" THEN "header" ELSE "ada"]
      BY <1>8 DEF EndExecute
    <2> QED BY <2>1, <2>2, <2>3
  <1>9. CASE MakeHeader(p) BY <1>9 DEF MakeHeader
  <1>10. CASE TestSaved(p) BY <1>10 DEF TestSaved
  <1>11. CASE BeginDetectAda(p) BY <1>11 DEF BeginDetectAda
  <1>12. CASE EndDetectAda(p) BY <1>12 DEF EndDetectAda
  <1>13. CASE Truncate(p) BY <1>13 DEF Truncate
  <1>14. CASE Write(p) BY <1>14 DEF Write
  <1>15. CASE ReadType(p) BY <1>15 DEF ReadType
  <1>16. CASE ReadVersion(p) BY <1>16 DEF ReadVersion
  <1> QED BY <1>1, <1>2, <1>3, <1>4, <1>5, <1>6, <1>7, <1>8, <1>9, <1>10,
             <1>11, <1>12, <1>13, <1>14, <1>15, <1>16 DEF Detect

LEMMA DetectShared ==
  ASSUME NEW p \in Runs, TypeOK, Shared, Detect(p)
  PROVE  Shared'
  <1>1. \A q \in Runs : Known(q)'
    <2>1. \A q \in Runs : Known(q)
      BY DEF Shared
    <2> QED BY <2>1, DetectLearns, DetectUntouched, UntouchedKnown
  <1>2. UNCHANGED <<left, disturbed>>
    <2> USE DEF Unkilled, killvars
    <2>1. CASE PrepareLocker(p) \/ MoveLocker(p) \/ CheckLocker(p)
      BY <2>1 DEF PrepareLocker, MoveLocker, CheckLocker
    <2>2. CASE BeginCompile(p) \/ Compile(p) \/ Link(p)
      BY <2>2 DEF BeginCompile, Compile, Link
    <2>3. CASE BeginExecute(p) \/ EndExecute(p) \/ MakeHeader(p)
      BY <2>3 DEF BeginExecute, EndExecute, MakeHeader
    <2>4. CASE TestSaved(p) \/ BeginDetectAda(p) \/ EndDetectAda(p)
      BY <2>4 DEF TestSaved, BeginDetectAda, EndDetectAda
    <2>5. CASE Truncate(p) \/ Write(p) \/ ReadType(p) \/ ReadVersion(p)
      BY <2>5 DEF Truncate, Write, ReadType, ReadVersion
    <2> QED BY <2>1, <2>2, <2>3, <2>4, <2>5 DEF Detect
  <1>3. EmptyExplained'
    <2> USE DEF Shared, TypeOK, files, Goto
    <2>1. CASE PrepareLocker(p) \/ MoveLocker(p) \/ CheckLocker(p)
      BY <2>1, EmptyStays DEF PrepareLocker, MoveLocker, CheckLocker
    <2>2. CASE BeginCompile(p) \/ Compile(p) \/ Link(p)
      BY <2>2, EmptyStays DEF BeginCompile, Compile, Link, Compiled
    <2>3. CASE BeginExecute(p) \/ EndExecute(p) \/ MakeHeader(p)
      BY <2>3, EmptyStays DEF BeginExecute, EndExecute, MakeHeader
    <2>4. CASE TestSaved(p) \/ BeginDetectAda(p) \/ EndDetectAda(p)
      BY <2>4, EmptyStays DEF TestSaved, BeginDetectAda, EndDetectAda
    <2>5. CASE Truncate(p) \/ Write(p)
      BY <2>5 DEF Truncate, Write, EmptyExplained
    <2>6. CASE ReadType(p) \/ ReadVersion(p)
      BY <2>6, EmptyStays DEF ReadType, ReadVersion
    <2> QED BY <2>1, <2>2, <2>3, <2>4, <2>5, <2>6 DEF Detect
  <1> QED BY <1>1, <1>2, <1>3 DEF Shared, Strays

\* The detection does not touch the modules' files.
LEMMA DetectKept ==
  ASSUME NEW p \in Runs, TypeOK, \A q \in Runs : Kept(q), Detect(p),
         UNCHANGED modvars
  PROVE  \A q \in Runs : Kept(q)'
  <1> PICK t \in Detecting \union {"detected", "fatal", "no_locker"} :
             pc' = [pc EXCEPT ![p] = t]
    BY DetectMoves
  <1> pc[p] \in Detecting
    BY DetectMoves
  <1> QED BY DEF Kept, Failed, Before, Detecting, modvars, TypeOK

----------------------------------------------------------------------------
(* The execution of the module.                                            *)

\* A step of the execution moves one run, and of the variables of the
\* detection it changes only the number of failures.
LEMMA ExecuteMoves ==
  ASSUME NEW p \in Runs, TypeOK, Execute(p)
  PROVE  /\ pc[p] \in Executing
         /\ \E t \in (Executing \ {"detected"}) \union {"done", "fatal"} :
              pc' = [pc EXCEPT ![p] = t]
         /\ SysUnchanged
         /\ faults' \in 0 .. MaxMishaps /\ faults' >= faults
  <1> USE BoundAssumption
      DEF Executing, Goto, Mark, Works, Fails, TypeOK, SysTypeOK
  <1>1. CASE ReadCreates(p) \/ Refresh(p)
    BY <1>1 DEF ReadCreates, Refresh
  <1>2. CASE Custom(p) \/ Search(p) \/ NotFound(p)
    BY <1>2 DEF Custom, Search, NotFound
  <1>3. CASE BeginCopy(p) \/ EndCopy(p)
    BY <1>3 DEF BeginCopy, EndCopy
  <1>4. CASE RemoveWork(p)
    BY <1>4 DEF RemoveWork, AfterMove
  <1>5. CASE Succeed(p) \/ Fail(p) \/ ModuleFatal(p)
    BY <1>5 DEF Succeed, Fail, ModuleFatal
  <1> QED BY <1>1, <1>2, <1>3, <1>4, <1>5 DEF Execute

\* The variables of the module keep their types.
LEMMA ExecuteTypes ==
  ASSUME NEW p \in Runs, TypeOK, Execute(p)
  PROVE  TypeOK'
  <1>1. SysTypeOK'
    BY ExecuteMoves DEF TypeOK, SysTypeOK, SysUnchanged, files, results, killvars
  <1>2. pc' \in [Runs -> Points]
    BY ExecuteMoves DEF TypeOK, Points, Ended
  <1> USE <1>1, <1>2
      DEF TypeOK, Points, Contents, Statuses, Mark, modvars
  <1>3. CASE ReadCreates(p) BY <1>3 DEF ReadCreates
  <1>4. CASE Refresh(p) BY <1>4 DEF Refresh
  <1>5. CASE Custom(p) BY <1>5 DEF Custom
  <1>6. CASE Search(p) BY <1>6 DEF Search
  <1>7. CASE NotFound(p) BY <1>7 DEF NotFound
  <1>8. CASE BeginCopy(p) BY <1>8 DEF BeginCopy
  <1>9. CASE EndCopy(p) BY <1>9 DEF EndCopy
  <1>10. CASE RemoveWork(p) BY <1>10 DEF RemoveWork
  <1>11. CASE Succeed(p) BY <1>11 DEF Succeed
  <1>12. CASE Fail(p) BY <1>12 DEF Fail
  <1>13. CASE ModuleFatal(p) BY <1>13 DEF ModuleFatal
  <1> QED BY <1>3, <1>4, <1>5, <1>6, <1>7, <1>8, <1>9, <1>10, <1>11, <1>12,
             <1>13 DEF Execute

\* The execution does not touch the shared files.
LEMMA ExecuteShared ==
  ASSUME NEW p \in Runs, TypeOK, Shared, Execute(p)
  PROVE  Shared'
  <1> PICK t \in (Executing \ {"detected"}) \union {"done", "fatal"} :
             pc' = [pc EXCEPT ![p] = t]
    BY ExecuteMoves
  <1>0. pc[p] \in Executing /\ SysUnchanged /\ faults' >= faults
        /\ faults \in Nat /\ faults' \in Nat
    BY ExecuteMoves, BoundAssumption DEF TypeOK, SysTypeOK
  <1>1. \A q \in Runs \ {p} : Untouched(q)
    BY <1>0 DEF Untouched, SysUnchanged, files, results, killvars, TypeOK
  <1>2. Known(p)'
    BY <1>0 DEF Known, Past, PastHeader, PastPrograms, Executing, Detecting, TypeOK
  <1>3. EmptyExplained' /\ Strays'
    BY <1>0, EmptyStays
       DEF Shared, Strays, SysUnchanged, files, killvars, Executing, TypeOK
  <1> QED BY <1>1, <1>2, <1>3, UntouchedKnown DEF Shared

\* The files of a module are what its run knows of them.
LEMMA ExecuteKept ==
  ASSUME NEW p \in Runs, TypeOK, \A q \in Runs : Kept(q), Execute(p)
  PROVE  \A q \in Runs : Kept(q)'
  <1> USE DEF TypeOK, Kept, Failed, Before, Detecting, Goto, Mark, modvars
  <1>1. CASE ReadCreates(p) BY <1>1 DEF ReadCreates
  <1>2. CASE Refresh(p) BY <1>2 DEF Refresh
  <1>3. CASE Custom(p) BY <1>3 DEF Custom
  <1>4. CASE Search(p) BY <1>4 DEF Search
  <1>5. CASE NotFound(p) BY <1>5 DEF NotFound
  <1>6. CASE BeginCopy(p) BY <1>6 DEF BeginCopy
  <1>7. CASE EndCopy(p) BY <1>7 DEF EndCopy
  <1>8. CASE RemoveWork(p) BY <1>8 DEF RemoveWork, AfterMove
  <1>9. CASE Succeed(p) BY <1>9 DEF Succeed
  <1>10. CASE Fail(p) BY <1>10 DEF Fail
  <1>11. CASE ModuleFatal(p) BY <1>11 DEF ModuleFatal
  <1> QED BY <1>1, <1>2, <1>3, <1>4, <1>5, <1>6, <1>7, <1>8, <1>9, <1>10,
             <1>11 DEF Execute

----------------------------------------------------------------------------
(* Starts, signals, and sd-clean.                                          *)

LEMMA RunStep ==
  ASSUME NEW p \in Runs, IInv, Run(p)
  PROVE  IInv'
  <1> USE BoundAssumption DEF IInv, Run, Start, files
  <1>1. TypeOK'
    BY DEF TypeOK, SysTypeOK, Detecting, Programs
  <1>2. Shared'
    <2>1. \A q \in Runs \ {p} : Untouched(q)
      BY DEF Untouched, TypeOK, SysTypeOK
    <2>2. Known(p)'
      BY DEF Known, Past, PastHeader, PastPrograms, TypeOK, SysTypeOK
    <2>3. EmptyExplained' /\ Strays'
      BY EmptyStays DEF Shared, Strays, TypeOK, Ended
    <2> QED BY <2>1, <2>2, <2>3, UntouchedKnown DEF Shared
  <1>3. \A q \in Runs : Kept(q)'
    BY DEF TypeOK, Kept, Failed, Before, Detecting, Ended
  <1> QED BY <1>1, <1>2, <1>3

\* A signal ends the run p at some point.
LEMMA KillStep ==
  ASSUME NEW p \in Runs, IInv, KillDetection(p) \/ KillModule(p)
  PROVE  IInv'
  <1>1. /\ pc[p] \in Detecting \union Executing
        /\ pc' = [pc EXCEPT ![p] = "killed"]
        /\ kills' \in 0 .. MaxMishaps /\ ReleaseAll(p)
        /\ cut' = (cut \/ pc[p] = "write")
        /\ UNCHANGED <<files, prog, results, left, misled, disturbed, starts, faults>>
        /\ UNCHANGED <<rc, work, output, spoilt, unmarked, cleans>>
        /\ \/ UNCHANGED status
           \/ status' = [status EXCEPT ![p] = "empty"]
    BY BoundAssumption
       DEF KillDetection, KillModule, KillFrom, Killed, modvars, IInv, TypeOK, SysTypeOK
  <1> USE <1>1 DEF IInv, files, results
  <1>2. TypeOK'
    BY DEF TypeOK, SysTypeOK, ReleaseAll, Ended, Statuses
  <1>3. Shared'
    <2>1. \A q \in Runs \ {p} : Untouched(q)
      BY NoneAssumption DEF Untouched, ReleaseAll, TypeOK, SysTypeOK
    <2>2. Known(p)'
      BY DEF Known, Past, PastHeader, PastPrograms, TypeOK, Detecting
    <2>3. EmptyExplained' /\ Strays'
      BY DEF EmptyExplained, Shared, Strays, TypeOK
    <2> QED BY <2>1, <2>2, <2>3, UntouchedKnown DEF Shared
  <1>4. \A q \in Runs : Kept(q)'
    BY DEF TypeOK, Kept, Failed, Before, Detecting
  <1> QED BY <1>2, <1>3, <1>4

\* A command left behind may disturb its program.
LEMMA LeftBehindStep ==
  ASSUME NEW p \in Runs, TypeOK, Strays, Killed, LeftBehind(p),
         pc[p] \in {"compiling", "linking"}
  PROVE  /\ Strays' /\ disturbed' = disturbed \union {prog[p]}
         /\ left' \subseteq [kill : 1 .. MaxMishaps, at : {"compiling", "linking"},
                             of : Programs]
         /\ disturbed' \in SUBSET Programs
  <1>1. kills' \in 1 .. MaxMishaps /\ prog[p] \in Programs
    BY BoundAssumption DEF Killed, TypeOK, SysTypeOK
  <1>2. [kill |-> kills', at |-> pc[p], of |-> prog[p]] \in
          [kill : 1 .. MaxMishaps, at : {"compiling", "linking"}, of : Programs]
    BY <1>1
  <1> QED BY <1>1, <1>2 DEF LeftBehind, Strays, TypeOK, SysTypeOK

\* A signal ends a single process of p.
LEMMA KillCommandStep ==
  ASSUME NEW p \in Runs, IInv, KillCommand(p)
  PROVE  IInv'
  <1>1. /\ Killed /\ ReleaseAll(p) /\ UNCHANGED <<files, results, cut, starts, faults>>
        /\ UNCHANGED modvars /\ kills' \in 0 .. MaxMishaps
    BY BoundAssumption
       DEF KillCommand, LockerKilled, CompileKilled, Killed, IInv, TypeOK, SysTypeOK
  <1>2. PICK t \in {"fatal", "executing", "detecting_ada", "compile", "execute"},
             g \in Programs :
          /\ pc' = [pc EXCEPT ![p] = t] /\ prog' = [prog EXCEPT ![p] = g]
          /\ \/ t = "fatal"
             \/ t = pc[p] /\ pc[p] \in {"executing", "detecting_ada"} /\ g = prog[p]
             \/ prog[p] = "sd-arch" /\ t = "compile" /\ g = "sd-os"
             \/ prog[p] = "sd-os" /\ t = "execute" /\ g = "sd-arch"
    <2>1. pc \in [Runs -> Points] /\ prog \in [Runs -> Programs] /\ prog[p] \in Programs
      BY DEF IInv, TypeOK, SysTypeOK, Points
    <2>2. CASE LockerKilled(p)
      BY <2>1, <2>2 DEF LockerKilled
    <2>3. CASE CompileKilled(p)
      <3>1. CASE prog[p] = "sd-arch"
        BY <2>1, <2>3, <3>1 DEF CompileKilled, Compiled, Goto, Programs
      <3>2. CASE prog[p] = "sd-os"
        BY <2>1, <2>3, <3>2 DEF CompileKilled, Compiled, Goto, Programs
      <3> QED BY <2>1, <3>1, <3>2 DEF Programs
    <2> QED BY <2>2, <2>3 DEF KillCommand
  <1>3. pc[p] \in {"compiling", "linking", "executing", "detecting_ada"}
        /\ (t \in {"compile", "execute"} => pc[p] \in {"compiling", "linking"})
    BY <1>2 DEF KillCommand, LockerKilled, CompileKilled, Compiled, Goto, IInv, TypeOK
  <1>4. /\ disturbed \subseteq disturbed' /\ disturbed' \in SUBSET Programs /\ Strays'
        /\ left' \subseteq [kill : 1 .. MaxMishaps, at : {"compiling", "linking"},
                            of : Programs]
    <2>1. CASE UNCHANGED <<left, disturbed>>
      BY <2>1 DEF IInv, Shared, Strays, TypeOK, SysTypeOK
    <2>2. CASE LeftBehind(p) /\ pc[p] \in {"compiling", "linking"}
      BY <1>1, <2>2, LeftBehindStep DEF IInv, Shared
    <2> HIDE DEF KillCommand
    <2>3. CASE LockerKilled(p)
      BY <2>1, <2>2, <2>3 DEF LockerKilled
    <2>4. CASE CompileKilled(p)
      <3>1. Compiled(p, "linking") => pc[p] = "linking"
        BY DEF Compiled, Goto
      <3> HIDE DEF LeftBehind
      <3> QED BY <2>1, <2>2, <2>4, <3>1 DEF CompileKilled
    <2> QED BY <2>3, <2>4 DEF KillCommand
  <1>5. /\ misled' \in [Runs -> SUBSET Programs]
        /\ \A q \in Runs \ {p} : misled'[q] = misled[q]
        /\ misled[p] \subseteq misled'[p]
        /\ t \in {"compile", "execute"} => prog[p] \in misled'[p]
    <2>1. prog[p] \in Programs /\ misled \in [Runs -> SUBSET Programs] /\ pc \in [Runs -> Points]
      BY DEF IInv, TypeOK, SysTypeOK, Points
    <2>2. CASE LockerKilled(p)
      <3>1. t \notin {"compile", "execute"}
        BY <1>2, <2>1, <2>2 DEF LockerKilled
      <3> QED BY <2>1, <2>2, <3>1 DEF LockerKilled
    <2>3. CASE CompileKilled(p)
      BY <2>1, <2>3 DEF CompileKilled
    <2> QED BY <2>2, <2>3 DEF KillCommand
  <1> HIDE DEF KillCommand
  <1>6. TypeOK'
    BY <1>1, <1>2, <1>4, <1>5
       DEF IInv, TypeOK, SysTypeOK, ReleaseAll, files, results, modvars, Ended,
           Detecting
  <1>7. Shared'
    <2>1. \A q \in Runs \ {p} : Untouched(q)
      BY <1>1, <1>2, <1>4, <1>5, NoneAssumption
         DEF IInv, Untouched, ReleaseAll, TypeOK, SysTypeOK, files, results
    <2>2. Known(p)'
      <3>0. /\ Known(p) /\ pc'[p] = t /\ prog'[p] = g /\ UNCHANGED <<probe, found>>
            /\ prog[p] \in Programs /\ Programs = {"sd-arch", "sd-os"}
        BY <1>1, <1>2 DEF IInv, Shared, TypeOK, SysTypeOK, files, results, Programs
      <3>1. CASE t = "fatal"
        BY <3>0, <3>1 DEF Known, Past, PastHeader, PastPrograms, Detecting
      <3>2. CASE t = pc[p] /\ pc[p] \in {"executing", "detecting_ada"} /\ g = prog[p]
        BY <3>0, <3>2, <1>4, <1>5
           DEF Known, Past, PastHeader, PastPrograms, Detecting
      <3>3. CASE t = "compile" /\ prog[p] = "sd-arch" /\ g = "sd-os"
        BY <3>0, <3>3, <1>3, <1>4, <1>5
           DEF Known, Past, PastHeader, PastPrograms, Detecting
      <3>4. CASE t = "execute" /\ prog[p] = "sd-os" /\ g = "sd-arch"
        BY <3>0, <3>4, <1>3, <1>4, <1>5
           DEF Known, Past, PastHeader, PastPrograms, Detecting
      <3> QED BY <1>2, <3>1, <3>2, <3>3, <3>4
    <2>3. EmptyExplained'
      BY <1>1, <1>2, <1>3, EmptyStays DEF IInv, Shared, TypeOK, files
    <2> QED BY <2>1, <2>2, <2>3, <1>4, UntouchedKnown DEF IInv, Shared
  <1>8. \A q \in Runs : Kept(q)'
    BY <1>1, <1>2, <1>3 DEF IInv, TypeOK, Kept, Failed, Before, Detecting, modvars
  <1> QED BY <1>6, <1>7, <1>8 DEF IInv

\* What was left behind goes on, and disturbs only its program.
LEMMA StrayStep ==
  ASSUME NEW c \in left, IInv, StrayCompile(c) \/ StrayLink(c), UNCHANGED modvars
  PROVE  IInv'
  <1> DEFINE All == [kill : 1 .. MaxMishaps, at : {"compiling", "linking"}, of : Programs]
  <1>1. /\ UNCHANGED <<pc, prog, locker, saved, holder, results, misled, disturbed, cut>>
        /\ UNCHANGED <<starts, faults, kills>> /\ UNCHANGED modvars
    BY DEF StrayCompile, StrayLink
  <1>2. c \in All /\ c.of \in disturbed /\ c.of \in Programs
    BY DEF IInv, TypeOK, SysTypeOK, Shared, Strays
  <1>3. [c EXCEPT !.at = "linking"] \in All /\ [c EXCEPT !.at = "linking"].of = c.of
    BY <1>2
  <1>4. left' \subseteq All /\ Strays'
    <2>1. \/ left' = left \ {c}
          \/ left' = (left \ {c}) \union {[c EXCEPT !.at = "linking"]}
      BY DEF StrayCompile, StrayLink
    <2>2. left \subseteq All /\ \A d \in left : d.of \in disturbed
      BY DEF IInv, TypeOK, SysTypeOK, Shared, Strays
    <2>3. left' \subseteq All
      BY <2>1, <2>2, <1>3
    <2>4. \A d \in left' : d.of \in disturbed'
      BY <2>1, <2>2, <1>1, <1>2, <1>3
    <2> QED BY <2>3, <2>4 DEF Strays
  <1>5. PICK s \in {"absent", "partial", "built"} :
          probe' = probe \/ probe' = [probe EXCEPT ![c.of] = s]
    BY DEF StrayCompile, StrayLink, Linked, Unlinked
  <1>6. /\ probe' \in [Programs -> {"absent", "partial", "built"}]
        /\ \A g \in Programs \ disturbed : probe'[g] = probe[g]
    BY <1>2, <1>5 DEF IInv, TypeOK, SysTypeOK
  <1> HIDE DEF All
  <1>7. TypeOK'
    BY <1>1, <1>4, <1>6 DEF IInv, TypeOK, SysTypeOK, results, modvars, All
  <1>8. Shared'
    <2>1. \A q \in Runs : Untouched(q)
      BY <1>1, <1>6 DEF Untouched, results
    <2>2. EmptyExplained'
      BY <1>1, EmptyStays DEF IInv, Shared
    <2> QED BY <2>1, <2>2, <1>4, UntouchedKnown DEF IInv, Shared
  <1>9. \A q \in Runs : Kept(q)'
    BY <1>1 DEF IInv, Kept, Failed, modvars
  <1> QED BY <1>7, <1>8, <1>9 DEF IInv

\* sd-clean finds no run at work, and p's status goes before p's output.
LEMMA CleanStep ==
  ASSUME NEW p \in Runs, IInv, Clean(p)
  PROVE  IInv'
  <1>1. PICK steps \in 0 .. 3 :
       /\ IF steps = 3 THEN Works ELSE Fails
       /\ IF steps >= 1
            THEN /\ locker' = FALSE /\ saved' = "absent" /\ cut' = FALSE
                 /\ probe' = [g \in Programs |-> "absent"]
                 /\ disturbed' = {c.of : c \in left}
            ELSE UNCHANGED <<files, disturbed, cut>>
       /\ IF steps >= 2 THEN CleanStatus(p) ELSE UNCHANGED status
       /\ IF steps = 3
            THEN /\ work' = [work EXCEPT ![p] = "absent"]
                 /\ output' = [output EXCEPT ![p] = "absent"]
                 /\ spoilt' = spoilt \ {p}
            ELSE UNCHANGED <<work, output, spoilt>>
    BY DEF Clean
  <1>2. /\ \A q \in Runs : pc[q] \in Ended
        /\ pc' = [pc EXCEPT ![p] = "idle"]
        /\ cleans < MaxCleans /\ cleans' = cleans + 1
        /\ UNCHANGED <<prog, holder, results, left, misled, starts, kills, rc, unmarked>>
    BY DEF Clean
  <1> USE <1>1, <1>2, BoundAssumption, CleansAssumption
      DEF IInv, files, Works, Fails, CleanStatus
  <1>3. TypeOK'
    <2>1. locker' \in BOOLEAN /\ cut' \in BOOLEAN
      BY DEF TypeOK, SysTypeOK
    <2>2. /\ probe' \in [Programs -> {"absent", "partial", "built"}]
          /\ saved' \in {"absent", "empty", "whole"} /\ disturbed' \in SUBSET Programs
      BY DEF TypeOK, SysTypeOK
    <2>3. faults' \in 0 .. MaxMishaps /\ cleans' \in 0 .. MaxCleans
      BY DEF TypeOK, SysTypeOK
    <2>4. work' \in [Runs -> Contents] /\ output' \in [Runs -> Contents]
      BY DEF TypeOK, Contents
    <2>5. status' \in [Runs -> Statuses] /\ spoilt' \in SUBSET Runs
      BY DEF TypeOK, Statuses
    <2>6. pc' \in [Runs -> Points]
      BY DEF TypeOK, Points, Ended
    <2> QED BY <1>2, <2>1, <2>2, <2>3, <2>4, <2>5, <2>6
            DEF TypeOK, SysTypeOK, Points, results
  <1>4. Shared'
    <2>1. \A q \in Runs : pc'[q] \in Ended
      BY DEF TypeOK, Ended
    <2>2. \A q \in Runs : pc'[q] = "no_locker" => faults' > 0
      BY DEF TypeOK, SysTypeOK, Shared, Known
    <2>3. saved' = "empty" => cut' \/ \E q \in Runs : pc'[q] = "write"
      <3>1. CASE steps >= 1 BY <3>1
      <3>2. CASE steps = 0
        BY <3>2 DEF Shared, EmptyExplained, Ended
      <3> QED BY <3>1, <3>2
    <2>4. Strays'
      BY DEF Shared, Strays
    <2>5. \A q \in Runs : Known(q)'
      BY <2>1, <2>2 DEF Known, Past, PastHeader, PastPrograms, Ended, Detecting
    <2> QED BY <2>3, <2>4, <2>5 DEF Shared, EmptyExplained
  <1>5. \A q \in Runs : Kept(q)'
    BY DEF TypeOK, Kept, Failed, Before, Detecting, Ended
  <1> QED BY <1>3, <1>4, <1>5

----------------------------------------------------------------------------
(* The theorems.                                                           *)

LEMMA NextStep == IInv /\ [Next]_vars => IInv'
  <1> SUFFICES ASSUME IInv, [Next]_vars PROVE IInv'
    OBVIOUS
  <1>1. ASSUME NEW p \in Runs, Advance(p) PROVE IInv'
    <2>1. CASE Detect(p) /\ UNCHANGED modvars
      BY <2>1, DetectTypes, DetectShared, DetectKept DEF IInv
    <2>2. CASE Execute(p)
      BY <2>2, ExecuteTypes, ExecuteShared, ExecuteKept DEF IInv
    <2> QED BY <1>1, <2>1, <2>2 DEF Advance
  <1>2. CASE UNCHANGED vars
    BY <1>2 DEF IInv, TypeOK, SysTypeOK, Shared, Known, Past, PastHeader, Strays,
                Kept, Failed, EmptyExplained, vars, sysvars, modvars, files,
                results, killvars
  <1> QED BY <1>1, <1>2, RunStep, KillStep, KillCommandStep, CleanStep, StrayStep
          DEF Next

\* The inductive invariant.
THEOREM Invariance == Spec => []IInv
  BY InitIInv, NextStep, PTL DEF Spec

\* Every variable keeps its type, for any number of runs.
THEOREM TypeCorrect == Spec => []TypeOK
  <1>1. IInv => TypeOK BY DEF IInv
  <1> QED BY Invariance, <1>1, PTL

\* A run finds itself without sd-locker only after a failed command, for any
\* number of runs that move theirs into place.
THEOREM LockerThereHolds == Spec => []LockerThere
  <1>1. IInv => LockerThere BY DEF IInv, Shared, Known, LockerThere
  <1> QED BY Invariance, <1>1, PTL

\* No run builds a program while another one executes it, unless a killed
\* sd-compile has misled that one about this program, or a compiler or linker
\* that a signal left behind may have written it.
THEOREM ProbeUndisturbedHolds == Spec => []ProbeUndisturbed
  <1>1. ASSUME IInv PROVE ProbeUndisturbed
    <2> SUFFICES ASSUME NEW p \in Runs, NEW q \in Runs, pc[p] = "executing",
                        pc[q] = "linking", prog[p] = prog[q]
                 PROVE  prog[p] \in misled[p] \union disturbed
      BY DEF ProbeUndisturbed
    <2>1. Known(p) /\ Known(q) /\ prog[p] \in Programs
      BY <1>1 DEF IInv, Shared, TypeOK, SysTypeOK
    <2> QED BY <2>1 DEF Known, Past
  <1> QED BY Invariance, <1>1, PTL

\* A run gets past sd-cpuidx86.h only with the results of complete programs, and
\* to its end with programs that it found or made complete, or took for that.
THEOREM DetectedForRealHolds == Spec => []DetectedForReal
  <1>1. ASSUME IInv PROVE DetectedForReal
    <2> SUFFICES ASSUME NEW p \in Runs
                 PROVE
      /\ PastHeader(p) =>
           "sd-arch" \in found[p] /\ (probe["sd-arch"] = "built" \/ "sd-arch" \in disturbed)
      /\ pc[p] \in PastPrograms =>
           probe["sd-os"] = "built" \/ "sd-os" \in misled[p] \union disturbed
      BY DEF DetectedForReal
    <2>1. Known(p) /\ "sd-arch" \in Programs /\ "sd-os" \in Programs
      BY <1>1 DEF IInv, Shared, Programs
    <2>2. PastHeader(p) => pc[p] \in Detecting \union {"detected"}
      BY DEF PastHeader, PastPrograms, Detecting
    <2> QED BY <2>1, <2>2 DEF Known, Past
  <1> QED BY Invariance, <1>1, PTL

\* An empty sd-adaversion.out is being written, or a run ended writing it.
THEOREM EmptyExplainedHolds == Spec => []EmptyExplained
  <1>1. IInv => EmptyExplained BY DEF IInv, Shared
  <1> QED BY Invariance, <1>1, PTL

\* A status file that says "succeeded" has the whole file beside it, or a cp or
\* the cat that ends a custom program's file has failed.
THEOREM SucceededIsWholeHolds == Spec => []SucceededIsWhole
  <1>1. IInv => SucceededIsWhole BY DEF IInv, Kept, SucceededIsWhole
  <1> QED BY Invariance, <1>1, PTL

\* A run that exits with 0 leaves a file, and a status that is true of it.
THEOREM DoneIsMarkedHolds == Spec => []DoneIsMarked
  <1>1. IInv => DoneIsMarked BY DEF IInv, Kept, DoneIsMarked
  <1> QED BY Invariance, <1>1, PTL

----------------------------------------------------------------------------
(* The locks, and how long a run takes.                                    *)

\* A lock is held only by a run that is inside the command under it.
HoldersInside ==
  \A p \in Runs :
    /\ \A g \in Programs :
         /\ holder[ObjectLock(g)] = p => pc[p] \in {"compiling", "linking"} /\ prog[p] = g
         /\ holder[ProgramLock(g)] = p => pc[p] = "executing" /\ prog[p] = g
    /\ holder[AdaLock] = p => pc[p] = "detecting_ada"

\* A step of p that leaves its locks alone, takes one, or releases them all.
LEMMA HoldersStay ==
  ASSUME TypeOK, HoldersInside, NEW p \in Runs,
         \A q \in Runs \ {p} : pc'[q] = pc[q] /\ prog'[q] = prog[q],
         \/ /\ UNCHANGED holder
            /\ pc[p] \in {"compiling", "linking", "executing", "detecting_ada"} =>
                 /\ prog'[p] = prog[p]
                 /\ pc'[p] = pc[p] \/ (pc[p] = "compiling" /\ pc'[p] = "linking")
         \/ ReleaseAll(p)
         \/ /\ pc[p] \notin {"compiling", "linking", "executing", "detecting_ada"}
            /\ prog'[p] = prog[p]
            /\ \/ Acquire(p, ObjectLock(prog[p])) /\ pc'[p] = "compiling"
               \/ Acquire(p, ProgramLock(prog[p])) /\ pc'[p] = "executing"
               \/ Acquire(p, AdaLock) /\ pc'[p] = "detecting_ada"
  PROVE  HoldersInside'
  <1> USE NoneAssumption, LocksAre
      DEF TypeOK, SysTypeOK, HoldersInside, ObjectLock, ProgramLock, AdaLock,
          Programs
  <1>1. CASE UNCHANGED holder
    BY <1>1 DEF ReleaseAll, Acquire
  <1>2. CASE ReleaseAll(p)
    BY <1>2 DEF ReleaseAll
  <1>3. CASE Acquire(p, ObjectLock(prog[p])) /\ pc'[p] = "compiling" /\ prog'[p] = prog[p]
             /\ pc[p] \notin {"compiling", "linking", "executing", "detecting_ada"}
    BY <1>3 DEF Acquire
  <1>4. CASE Acquire(p, ProgramLock(prog[p])) /\ pc'[p] = "executing" /\ prog'[p] = prog[p]
             /\ pc[p] \notin {"compiling", "linking", "executing", "detecting_ada"}
    BY <1>4 DEF Acquire
  <1>5. CASE Acquire(p, AdaLock) /\ pc'[p] = "detecting_ada" /\ prog'[p] = prog[p]
             /\ pc[p] \notin {"compiling", "linking", "executing", "detecting_ada"}
    BY <1>5 DEF Acquire
  <1> QED BY <1>1, <1>2, <1>3, <1>4, <1>5

LEMMA HoldersStep == IInv /\ HoldersInside /\ [Next]_vars => HoldersInside'
  <1> SUFFICES ASSUME IInv, HoldersInside, [Next]_vars PROVE HoldersInside'
    OBVIOUS
  <1>0. TypeOK /\ pc \in [Runs -> Points] /\ prog \in [Runs -> Programs]
    BY DEF IInv, TypeOK, SysTypeOK, Points
  <1>1. ASSUME NEW p \in Runs, Detect(p) PROVE HoldersInside'
    <2> USE <1>0, HoldersStay DEF Goto
    <2>1. CASE PrepareLocker(p) \/ MoveLocker(p) \/ CheckLocker(p)
      BY <2>1 DEF PrepareLocker, MoveLocker, CheckLocker
    <2>2. CASE BeginCompile(p) BY <2>2 DEF BeginCompile, Compiled
    <2>3. CASE Compile(p) \/ Link(p) BY <2>3 DEF Compile, Link, Compiled
    <2>4. CASE BeginExecute(p) BY <2>4 DEF BeginExecute
    <2>5. CASE EndExecute(p) BY <2>5 DEF EndExecute
    <2>6. CASE MakeHeader(p) BY <2>6 DEF MakeHeader
    <2>7. CASE TestSaved(p) BY <2>7 DEF TestSaved
    <2>8. CASE BeginDetectAda(p) \/ EndDetectAda(p)
      BY <2>8 DEF BeginDetectAda, EndDetectAda
    <2>9. CASE Truncate(p) \/ Write(p) BY <2>9 DEF Truncate, Write
    <2>10. CASE ReadType(p) \/ ReadVersion(p) BY <2>10 DEF ReadType, ReadVersion
    <2> QED BY <1>1, <2>1, <2>2, <2>3, <2>4, <2>5, <2>6, <2>7, <2>8, <2>9, <2>10
            DEF Detect
  <1>2. ASSUME NEW p \in Runs, Execute(p) PROVE HoldersInside'
    <2>1. PICK t \in (Executing \ {"detected"}) \union {"done", "fatal"} :
            pc' = [pc EXCEPT ![p] = t]
      BY <1>2, ExecuteMoves DEF IInv
    <2>2. pc[p] \in Executing /\ UNCHANGED <<holder, prog>>
      BY <1>2, ExecuteMoves DEF IInv, SysUnchanged
    <2> QED BY <1>0, <2>1, <2>2, HoldersStay DEF Executing
  <1>3. ASSUME NEW p \in Runs, Run(p) PROVE HoldersInside'
    BY <1>0, <1>3, HoldersStay DEF Run, Start, Ended
  <1>4. ASSUME NEW p \in Runs, KillDetection(p) \/ KillModule(p)
        PROVE  HoldersInside'
    BY <1>0, <1>4, HoldersStay DEF KillDetection, KillModule, KillFrom
  <1>5. ASSUME NEW p \in Runs, KillCommand(p) PROVE HoldersInside'
    <2>1. ReleaseAll(p) /\ \A q \in Runs \ {p} : pc'[q] = pc[q] /\ prog'[q] = prog[q]
      BY <1>0, <1>5
         DEF KillCommand, LockerKilled, CompileKilled, Compiled, Goto
    <2> QED BY <1>0, <2>1, HoldersStay
  <1>6. ASSUME NEW p \in Runs, Clean(p) PROVE HoldersInside'
    <2>1. /\ pc' = [pc EXCEPT ![p] = "idle"] /\ UNCHANGED <<holder, prog>>
          /\ pc[p] \in Ended
      BY <1>6 DEF Clean
    <2> QED BY <1>0, <2>1, HoldersStay DEF Ended
  <1>7. CASE UNCHANGED <<pc, prog, holder>>
    BY <1>7 DEF HoldersInside
  <1>8. UNCHANGED vars => UNCHANGED <<pc, prog, holder>>
    BY DEF vars, sysvars
  <1>9. ASSUME NEW c \in left, StrayCompile(c) \/ StrayLink(c)
        PROVE  UNCHANGED <<pc, prog, holder>>
    BY <1>9 DEF StrayCompile, StrayLink
  <1> QED BY <1>1, <1>2, <1>3, <1>4, <1>5, <1>6, <1>7, <1>8, <1>9 DEF Next, Advance

\* The commands a run may still execute, when its next one is c, about the
\* program g.
CommandsLeft(c, g) ==
  CASE c = "prepare" -> 29 [] c = "move" -> 28 [] c = "check" -> 27
    [] c = "compile" -> IF g = "sd-arch" THEN 26 ELSE 23
    [] c = "compiling" -> IF g = "sd-arch" THEN 25 ELSE 22
    [] c = "linking" -> IF g = "sd-arch" THEN 24 ELSE 21
    [] c = "execute" -> IF g = "sd-arch" THEN 20 ELSE 17
    [] c = "executing" -> IF g = "sd-arch" THEN 19 ELSE 16
    [] c = "header" -> 18
    [] c = "ada" -> 15 [] c = "detect_ada" -> 14 [] c = "detecting_ada" -> 13
    [] c = "truncate" -> 12 [] c = "write" -> 11 [] c = "read_type" -> 10
    [] c = "read_version" -> 9 [] c = "detected" -> 8 [] c = "refresh" -> 7
    [] c = "execute_module" -> 6 [] c = "not_found" -> 5 [] c = "copy" -> 4
    [] c = "copying" -> 3 [] c = "remove" -> 2
    [] c \in {"succeed", "fail", "module_fatal"} -> 1
    [] OTHER -> 0

LEMMA CommandsLeftIs ==
  ASSUME NEW g
  PROVE
  /\ CommandsLeft("prepare", g) = 29 /\ CommandsLeft("move", g) = 28
  /\ CommandsLeft("check", g) = 27
  /\ CommandsLeft("compile", g) = IF g = "sd-arch" THEN 26 ELSE 23
  /\ CommandsLeft("compiling", g) = IF g = "sd-arch" THEN 25 ELSE 22
  /\ CommandsLeft("linking", g) = IF g = "sd-arch" THEN 24 ELSE 21
  /\ CommandsLeft("execute", g) = IF g = "sd-arch" THEN 20 ELSE 17
  /\ CommandsLeft("executing", g) = IF g = "sd-arch" THEN 19 ELSE 16
  /\ CommandsLeft("header", g) = 18 /\ CommandsLeft("ada", g) = 15
  /\ CommandsLeft("detect_ada", g) = 14 /\ CommandsLeft("detecting_ada", g) = 13
  /\ CommandsLeft("truncate", g) = 12 /\ CommandsLeft("write", g) = 11
  /\ CommandsLeft("read_type", g) = 10 /\ CommandsLeft("read_version", g) = 9
  /\ CommandsLeft("detected", g) = 8 /\ CommandsLeft("refresh", g) = 7
  /\ CommandsLeft("execute_module", g) = 6 /\ CommandsLeft("not_found", g) = 5
  /\ CommandsLeft("copy", g) = 4 /\ CommandsLeft("copying", g) = 3
  /\ CommandsLeft("remove", g) = 2 /\ CommandsLeft("succeed", g) = 1
  /\ CommandsLeft("fail", g) = 1 /\ CommandsLeft("module_fatal", g) = 1
  /\ \A c \in Ended : CommandsLeft(c, g) = 0
  BY DEF CommandsLeft, Ended

\* A step of a run moves it, and it alone, to a later command.
Onwards(p) ==
  \E t \in Points, g \in Programs :
    /\ pc' = [pc EXCEPT ![p] = t] /\ prog' = [prog EXCEPT ![p] = g]
    /\ CommandsLeft(t, g) < CommandsLeft(pc[p], prog[p])

LEMMA GotoOnwards ==
  ASSUME TypeOK, NEW p \in Runs, NEW f, NEW t \in Points, NEW g \in Programs,
         Goto(p, f, t), prog' = [prog EXCEPT ![p] = g] \/ (prog' = prog /\ g = prog[p]),
         CommandsLeft(t, g) < CommandsLeft(f, prog[p])
  PROVE  Onwards(p)
  <1>1. prog' = [prog EXCEPT ![p] = g]
    BY DEF TypeOK, SysTypeOK
  <1> QED BY <1>1 DEF Goto, Onwards

LEMMA CompiledOnwards ==
  ASSUME TypeOK, NEW p \in Runs, NEW f \in {"compile", "compiling", "linking"},
         Compiled(p, f)
  PROVE  Onwards(p)
  <1>0. /\ prog[p] = "sd-arch" \/ prog[p] = "sd-os"
        /\ "compile" \in Points /\ "execute" \in Points
        /\ "sd-arch" \in Programs /\ "sd-os" \in Programs
    BY DEF TypeOK, SysTypeOK, Programs, Points, Detecting
  <1>1. CASE prog[p] = "sd-arch"
    <2>1. Goto(p, f, "compile") /\ prog' = [prog EXCEPT ![p] = "sd-os"]
      BY <1>1 DEF Compiled
    <2>2. CommandsLeft("compile", "sd-os") < CommandsLeft(f, prog[p])
      BY <1>1, CommandsLeftIs
    <2> QED BY <1>0, <2>1, <2>2, GotoOnwards
  <1>2. CASE prog[p] = "sd-os"
    <2>1. Goto(p, f, "execute") /\ prog' = [prog EXCEPT ![p] = "sd-arch"]
      BY <1>2 DEF Compiled
    <2>2. CommandsLeft("execute", "sd-arch") < CommandsLeft(f, prog[p])
      BY <1>2, CommandsLeftIs
    <2> QED BY <1>0, <2>1, <2>2, GotoOnwards
  <1> QED BY <1>0, <1>1, <1>2

LEMMA DetectOnwards ==
  ASSUME TypeOK, NEW p \in Runs, Detect(p)
  PROVE  Onwards(p)
  <1>0. /\ prog[p] \in Programs /\ "sd-os" \in Programs
        /\ prog[p] \in {"sd-arch", "sd-os"}
    BY DEF TypeOK, SysTypeOK, Programs
  <1> DEFINE Later(f, t) == Goto(p, f, t) /\ UNCHANGED prog
  <1>l. ASSUME NEW f, NEW t \in Points, Later(f, t),
               CommandsLeft(t, prog[p]) < CommandsLeft(f, prog[p])
        PROVE  Onwards(p)
    BY <1>0, <1>l, GotoOnwards
  <1> USE <1>0, <1>l, CommandsLeftIs DEF Points, Detecting, Executing, Ended
  <1>1. CASE PrepareLocker(p) BY <1>1 DEF PrepareLocker
  <1>2. CASE MoveLocker(p) BY <1>2 DEF MoveLocker
  <1>3. CASE CheckLocker(p)
    <2>1. Later("check", "compile") \/ Later("check", "no_locker")
      BY <1>3 DEF CheckLocker
    <2> HIDE DEF Later
    <2> QED BY <2>1
  <1>4. CASE BeginCompile(p)
    <2>1. Compiled(p, "compile") \/ Later("compile", "compiling")
      BY <1>4 DEF BeginCompile
    <2> HIDE DEF Later
    <2> QED BY <2>1, CompiledOnwards
  <1>5. CASE Compile(p) BY <1>5 DEF Compile
  <1>6. CASE Link(p)
    <2>1. Compiled(p, "linking") \/ Later("linking", "fatal")
      BY <1>6 DEF Link
    <2> HIDE DEF Later
    <2> QED BY <2>1, CompiledOnwards
  <1>7. CASE BeginExecute(p) BY <1>7 DEF BeginExecute
  <1>8. CASE EndExecute(p)
    <2>1. \/ Later("executing", "header") /\ prog[p] = "sd-arch"
          \/ Later("executing", "ada") /\ prog[p] = "sd-os"
      BY <1>8 DEF EndExecute
    <2> HIDE DEF Later
    <2> QED BY <2>1
  <1>9. CASE MakeHeader(p)
    <2>1. CASE Goto(p, "header", "execute") /\ prog' = [prog EXCEPT ![p] = "sd-os"]
      <3>1. CommandsLeft("execute", "sd-os") < CommandsLeft("header", prog[p])
        OBVIOUS
      <3>2. "execute" \in Points
        OBVIOUS
      <3> QED BY <1>0, <2>1, <3>1, <3>2, GotoOnwards
    <2>2. CASE Later("header", "fatal")
      <3> HIDE DEF Later
      <3> QED BY <2>2
    <2> QED BY <1>9, <2>1, <2>2 DEF MakeHeader
  <1>10. CASE TestSaved(p)
    <2>1. Later("ada", "detect_ada") \/ Later("ada", "read_type")
      BY <1>10 DEF TestSaved
    <2> HIDE DEF Later
    <2> QED BY <2>1
  <1>11. CASE BeginDetectAda(p) BY <1>11 DEF BeginDetectAda
  <1>12. CASE EndDetectAda(p) BY <1>12 DEF EndDetectAda
  <1>13. CASE Truncate(p) BY <1>13 DEF Truncate
  <1>14. CASE Write(p) BY <1>14 DEF Write
  <1>15. CASE ReadType(p) BY <1>15 DEF ReadType
  <1>16. CASE ReadVersion(p) BY <1>16 DEF ReadVersion
  <1> QED BY <1>1, <1>2, <1>3, <1>4, <1>5, <1>6, <1>7, <1>8, <1>9, <1>10,
             <1>11, <1>12, <1>13, <1>14, <1>15, <1>16 DEF Detect

LEMMA ExecuteOnwards ==
  ASSUME TypeOK, NEW p \in Runs, Execute(p)
  PROVE  Onwards(p)
  <1>0. prog[p] \in Programs /\ UNCHANGED prog
    BY ExecuteMoves DEF SysUnchanged, TypeOK, SysTypeOK
  <1> USE <1>0, CommandsLeftIs, GotoOnwards DEF Points, Executing, Ended
  <1>1. CASE ReadCreates(p) BY <1>1 DEF ReadCreates
  <1>2. CASE Refresh(p) BY <1>2 DEF Refresh
  <1>3. CASE Custom(p) BY <1>3 DEF Custom
  <1>4. CASE Search(p) BY <1>4 DEF Search
  <1>5. CASE NotFound(p) BY <1>5 DEF NotFound
  <1>6. CASE BeginCopy(p) BY <1>6 DEF BeginCopy
  <1>7. CASE EndCopy(p) BY <1>7 DEF EndCopy
  <1>8. CASE RemoveWork(p) BY <1>8 DEF RemoveWork, AfterMove
  <1>9. CASE Succeed(p) BY <1>9 DEF Succeed
  <1>10. CASE Fail(p) BY <1>10 DEF Fail
  <1>11. CASE ModuleFatal(p) BY <1>11 DEF ModuleFatal
  <1> QED BY <1>1, <1>2, <1>3, <1>4, <1>5, <1>6, <1>7, <1>8, <1>9, <1>10,
             <1>11 DEF Execute

\* One of p's commands ends without a lock, but p is where it was.
Unlocked(p) ==
  /\ UNCHANGED <<pc, prog>> /\ kills' = kills + 1
  /\ pc[p] \in {"executing", "detecting_ada"}

LEMMA KillOnwards ==
  ASSUME TypeOK, NEW p \in Runs, KillDetection(p) \/ KillModule(p) \/ KillCommand(p)
  PROVE  Onwards(p) \/ Unlocked(p)
  <1>0. prog[p] \in Programs /\ "killed" \in Points /\ "fatal" \in Points
    BY DEF TypeOK, SysTypeOK, Points, Ended
  <1>1. CASE KillDetection(p) \/ KillModule(p)
    <2>1. /\ pc[p] \in Detecting \union Executing /\ Goto(p, pc[p], "killed")
          /\ UNCHANGED prog
      BY <1>1 DEF KillDetection, KillModule, KillFrom, Goto
    <2>2. CommandsLeft("killed", prog[p]) < CommandsLeft(pc[p], prog[p])
      BY <2>1, CommandsLeftIs DEF Detecting, Executing, Ended
    <2> QED BY <1>0, <2>1, <2>2, GotoOnwards
  <1>2. CASE LockerKilled(p)
    <2>1. CASE pc[p] \in {"compiling", "linking"} /\ pc' = [pc EXCEPT ![p] = "fatal"]
      <3>1. Goto(p, pc[p], "fatal") /\ UNCHANGED prog
        BY <1>2, <2>1 DEF Goto, LockerKilled
      <3>2. CommandsLeft("fatal", prog[p]) < CommandsLeft(pc[p], prog[p])
        BY <2>1, CommandsLeftIs DEF Ended
      <3> QED BY <1>0, <3>1, <3>2, GotoOnwards
    <2> QED BY <1>2, <2>1 DEF LockerKilled, Killed, Unlocked
  <1>3. CASE CompileKilled(p)
    BY <1>3, CompiledOnwards DEF CompileKilled
  <1> QED BY <1>1, <1>2, <1>3 DEF KillCommand

\* Whoever waits for a lock waits for a run that is inside its command, which
\* waits for nothing.
WaitsForCommand ==
  \A p \in Runs :
    /\ pc[p] = "compile" /\ holder[ObjectLock(prog[p])] # None =>
         \E q \in Runs \ {p} : pc[q] \in {"compiling", "linking"} /\ prog[q] = prog[p]
    /\ pc[p] = "execute" /\ holder[ProgramLock(prog[p])] # None =>
         \E q \in Runs \ {p} : pc[q] = "executing" /\ prog[q] = prog[p]
    /\ pc[p] = "detect_ada" /\ holder[AdaLock] # None =>
         \E q \in Runs \ {p} : pc[q] = "detecting_ada"

\* Unless a run is started or a module cleaned, each step takes one run to a
\* later command and leaves the others where they are; or a signal takes a lock
\* from one, or a command that a signal left behind goes on.
RunsAdvance ==
  \/ \E p \in Runs : Run(p) \/ Clean(p)
  \/ \E p \in Runs : Onwards(p) \/ Unlocked(p)
  \/ UNCHANGED <<pc, prog>> /\ \E c \in left : c \notin left'

\* Neither the locks nor the steps of the others can keep a run going for ever:
\* it has at most 29 commands to execute, none of which is repeated, and waits
\* only for runs inside theirs (EveryRunEnds is this together with fairness).
THEOREM RunsBounded ==
  Spec => []HoldersInside /\ []WaitsForCommand /\ [][RunsAdvance]_vars
  <1>1. Init => HoldersInside
    <2> SUFFICES ASSUME Init, NEW p \in Runs
                 PROVE  pc[p] = "idle" /\ \A l \in Locks : holder[l] # p
      BY DEF HoldersInside, Locks
    <2> QED BY NoneAssumption DEF Init, SysInit
  <1>2. IInv /\ HoldersInside => WaitsForCommand
    <2> SUFFICES ASSUME IInv, HoldersInside, NEW p \in Runs
                 PROVE  WaitsForCommand!(p)
      BY DEF WaitsForCommand
    <2>1. /\ prog[p] \in Programs
          /\ \A l \in Locks : holder[l] # None => holder[l] \in Runs
          /\ AdaLock \in Locks /\ ObjectLock(prog[p]) \in Locks
          /\ ProgramLock(prog[p]) \in Locks
      BY DEF IInv, TypeOK, SysTypeOK, Locks
    <2> QED BY <2>1 DEF HoldersInside
  <1>3. IInv /\ [Next]_vars => [RunsAdvance]_vars
    <2> SUFFICES ASSUME IInv, Next PROVE RunsAdvance
      OBVIOUS
    <2>1. TypeOK
      BY DEF IInv
    <2>2. ASSUME NEW p \in Runs, Advance(p) PROVE RunsAdvance
      BY <2>1, <2>2, DetectOnwards, ExecuteOnwards DEF Advance, RunsAdvance
    <2>3. ASSUME NEW p \in Runs, KillDetection(p) \/ KillModule(p) \/ KillCommand(p)
          PROVE  RunsAdvance
      BY <2>1, <2>3, KillOnwards DEF RunsAdvance
    <2>4. ASSUME NEW c \in left, StrayCompile(c) \/ StrayLink(c) PROVE RunsAdvance
      <3>1. c \notin left' /\ UNCHANGED <<pc, prog>>
        BY <2>4 DEF StrayCompile, StrayLink, IInv, TypeOK, SysTypeOK
      <3> QED BY <3>1 DEF RunsAdvance
    <2> QED BY <2>2, <2>3, <2>4 DEF Next, RunsAdvance
  <1> QED BY <1>1, <1>2, <1>3, HoldersStep, Invariance, PTL DEF Spec
=============================================================================
