-------------------------- MODULE SystemDetection --------------------------
(***************************************************************************)
(* The system detection of sd-run (SYSDEPS/sysdep-system, sd-compile,      *)
(* sd-mk-cpuidx86-h, sd-adaversion): the runs of a parallel build share    *)
(* the directory SYSDEPS, where each of them builds sd-locker and the      *)
(* support programs if they are missing, executes the programs and takes   *)
(* the Ada compiler's type and version from a file.  There are two kinds   *)
(* of support program.  "sd-arch" stands for itself and sd-cctype, without *)
(* whose results there is no sd-cpuidx86.h; "sd-os" for itself,            *)
(* sd-ccversion and sd-cpuidx86, whose missing results are only reported   *)
(* (sd-cpuidx86 is compiled when its header is there, the others before).  *)
(* A command that is run through sd-locker excludes the others under the   *)
(* same lock file, which is what Locker shows to implement.                *)
(***************************************************************************)
EXTENDS Integers

CONSTANTS Runs,       \* the sd-run processes; each runs a module of its own
          None,       \* no process
          MaxStarts,  \* bound: starts of a run, the first one included
          MaxMishaps  \* bound: commands that fail, and signals that end
                      \* processes of a run

ASSUME NoneAssumption == None \notin Runs
ASSUME BoundAssumption == MaxStarts \in Nat /\ MaxMishaps \in Nat

Programs == {"sd-arch", "sd-os"}

VARIABLES pc,      \* run |-> the next command of the script
          prog,    \* run |-> the program the command is about
          locker,  \* sd-locker exists
          probe,   \* program |-> "absent", "partial" or "built"
          saved,   \* sd-adaversion.out: "absent", "empty" or "whole"
          holder,  \* lock file |-> the run whose command holds it
          found,   \* run |-> the programs whose results are not empty
          ada,     \* run |-> SYSDEP_ADA_TYPE, SYSDEP_ADA_VERSION not empty
          left,    \* the compilers and linkers whose sd-locker or sd-compile
                   \* was killed: they go on, and hold no lock
          misled,  \* history: run |-> the programs whose sd-compile was
                   \* killed, for which sd-locker reports success (Locker!Wait)
          disturbed, \* history: the programs that a command left behind may
                   \* have written
          cut,     \* history: a run ended between emptying sd-adaversion.out
                   \* and writing it, or had nothing to write
          starts, faults, kills

files == <<locker, probe, saved>>
results == <<found, ada>>
killvars == <<left, misled, disturbed, kills>>
sysvars == <<pc, prog, files, holder, results, killvars, cut, starts, faults>>

\* "<object>.lock", under which a program is built, and the lock under which it
\* is executed.
ObjectLock(g) == IF g = "sd-arch" THEN "sd-arch.o.lock" ELSE "sd-os.o.lock"
ProgramLock(g) == IF g = "sd-arch" THEN "sd-arch.lock" ELSE "sd-os.lock"
AdaLock == "sd-adaversion.lock"
Locks == {ObjectLock(g) : g \in Programs} \union {ProgramLock(g) : g \in Programs}
         \union {AdaLock}

\* The points of the script, in its order.
Detecting == {"prepare", "move", "check", "compile", "compiling", "linking",
              "execute", "executing", "header", "ada", "detect_ada",
              "detecting_ada", "truncate", "write", "read_type",
              "read_version"}
Ended == {"idle", "done", "fatal", "no_locker", "killed"}

SysInit ==
  /\ pc = [p \in Runs |-> "idle"] /\ prog = [p \in Runs |-> "sd-arch"]
  /\ locker = FALSE /\ saved = "absent"
  /\ probe = [g \in Programs |-> "absent"]
  /\ holder = [l \in Locks |-> None]
  /\ found = [p \in Runs |-> {}]
  /\ ada = [p \in Runs |-> [type |-> FALSE, version |-> FALSE]]
  /\ left = {} /\ misled = [p \in Runs |-> {}] /\ disturbed = {} /\ cut = FALSE
  /\ starts = 0 /\ faults = 0 /\ kills = 0

Goto(p, from, to) == pc[p] = from /\ pc' = [pc EXCEPT ![p] = to]

\* A command fails, or does not.
Works == UNCHANGED faults
Fails == faults + kills < MaxMishaps /\ faults' = faults + 1

Acquire(p, l) == holder[l] = None /\ holder' = [holder EXCEPT ![l] = p]
\* What p holds, if it does: its sd-locker may have been killed.
ReleaseAll(p) ==
  holder' = [l \in Locks |-> IF holder[l] = p THEN None ELSE holder[l]]

\* What only signals change, and what only sd-adaversion's part does not.
Unkilled == UNCHANGED <<killvars, starts>>
Unsaved == UNCHANGED <<locker, probe, found>>

\* make starts the run: a new process, whose variables are unset.
Start(p) ==
  /\ pc[p] \in Ended /\ starts < MaxStarts
  /\ pc' = [pc EXCEPT ![p] = "prepare"] /\ prog' = [prog EXCEPT ![p] = "sd-arch"]
  /\ found' = [found EXCEPT ![p] = {}]
  /\ ada' = [ada EXCEPT ![p] = [type |-> FALSE, version |-> FALSE]]
  /\ misled' = [misled EXCEPT ![p] = {}] /\ starts' = starts + 1
  /\ UNCHANGED <<files, holder, left, disturbed, cut, faults, kills>>

----------------------------------------------------------------------------
(* SDM_prepare_locker, and the test for sd-locker that follows it.         *)

\* Compile into a file of its own name, unless sd-locker exists.
PrepareLocker(p) ==
  /\ \/ locker /\ Works /\ Goto(p, "prepare", "check")
     \/ ~locker /\ Works /\ Goto(p, "prepare", "move")
     \/ ~locker /\ Fails /\ Goto(p, "prepare", "fatal")
  /\ UNCHANGED <<files, prog, holder, results, cut>> /\ Unkilled

\* Seeded fault: SYSDEP_MOVE ... || SYSDEP_FATAL.
MoveLockerChecked(p) ==
  /\ Works
  /\ \/ locker' = TRUE /\ Goto(p, "move", "check")
     \/ locker /\ UNCHANGED locker /\ Goto(p, "move", "no_locker")
  /\ UNCHANGED <<prog, probe, saved, holder, results, cut>> /\ Unkilled

\* mv into place.  On some systems it fails because sd-locker exists and maybe
\* runs; nobody looks at its status.
MoveLocker(p) ==
  /\ Goto(p, "move", "check")
  /\ \/ Works /\ locker' = TRUE
     \/ Works /\ locker /\ UNCHANGED locker
     \/ Fails /\ UNCHANGED locker
  /\ UNCHANGED <<prog, probe, saved, holder, results, cut>> /\ Unkilled

CheckLocker(p) ==
  /\ Goto(p, "check", IF locker THEN "compile" ELSE "no_locker")
  /\ UNCHANGED <<files, prog, holder, results, cut, faults>> /\ Unkilled

----------------------------------------------------------------------------
(* SDM_protected_C_compilation: sd-compile under "<object>.lock".          *)

\* The programs are compiled one after the other, then executed.
Compiled(p, from) ==
  IF prog[p] = "sd-arch"
    THEN Goto(p, from, "compile") /\ prog' = [prog EXCEPT ![p] = "sd-os"]
    ELSE Goto(p, from, "execute") /\ prog' = [prog EXCEPT ![p] = "sd-arch"]

\* Seeded fault: no test for an existing program, which is linked again.
BeginCompileAlways(p) ==
  /\ Goto(p, "compile", "compiling") /\ Acquire(p, ObjectLock(prog[p]))
  /\ UNCHANGED <<files, prog, results, cut, faults>> /\ Unkilled

\* A program that is there and executable is not built again.  What a linker
\* has not finished is not executable.
BeginCompile(p) ==
  /\ holder[ObjectLock(prog[p])] = None
  /\ \/ probe[prog[p]] = "built" /\ Compiled(p, "compile") /\ UNCHANGED holder
     \/ probe[prog[p]] # "built" /\ Goto(p, "compile", "compiling")
        /\ Acquire(p, ObjectLock(prog[p])) /\ UNCHANGED prog
  /\ UNCHANGED <<files, results, cut, faults>> /\ Unkilled

\* cc -c, then ld starts to write the program itself.
Compile(p) ==
  /\ \/ Works /\ Goto(p, "compiling", "linking") /\ UNCHANGED holder
        /\ probe' = [probe EXCEPT ![prog[p]] = "partial"]
     \/ Fails /\ Goto(p, "compiling", "fatal") /\ ReleaseAll(p)
        /\ UNCHANGED probe
  /\ UNCHANGED <<prog, locker, saved, results, cut>> /\ Unkilled

\* What a linker makes of the program it wrote, and what a failing one leaves:
\* "fail" removes the object and a .tmp that nobody made.
Linked(g) == probe' = [probe EXCEPT ![g] = "built"]
Unlinked(g) == \E s \in {"absent", "partial"} : probe' = [probe EXCEPT ![g] = s]
\* Another linker of the same program was left behind.
LinkedTwice(g) == \E c \in left : c.of = g /\ c.at = "linking"

\* Seeded fault: the lock of a failed command is not released.
LinkKeepsLock(p) ==
  /\ \/ Works /\ Compiled(p, "linking") /\ Linked(prog[p])
        /\ ReleaseAll(p)
     \/ Fails /\ Goto(p, "linking", "fatal") /\ Unlinked(prog[p])
        /\ UNCHANGED <<prog, holder>>
  /\ UNCHANGED <<locker, saved, results, cut>> /\ Unkilled

Link(p) ==
  /\ \/ Works /\ Compiled(p, "linking") /\ Linked(prog[p])
     \/ Works /\ Compiled(p, "linking") /\ Unlinked(prog[p]) /\ LinkedTwice(prog[p])
     \/ Fails /\ Goto(p, "linking", "fatal") /\ Unlinked(prog[p]) /\ UNCHANGED prog
  /\ ReleaseAll(p)
  /\ UNCHANGED <<locker, saved, results, cut>> /\ Unkilled

----------------------------------------------------------------------------
(* Executing the programs, and the header that needs a result of the first.*)

\* Under "<program>.lock", which is not the lock it was compiled under.
BeginExecute(p) ==
  /\ Goto(p, "execute", "executing") /\ Acquire(p, ProgramLock(prog[p]))
  /\ UNCHANGED <<files, prog, results, cut, faults>> /\ Unkilled

\* A failure is an error message: the variable stays empty.
EndExecute(p) ==
  /\ Goto(p, "executing", IF prog[p] = "sd-arch" THEN "header" ELSE "ada")
  /\ ReleaseAll(p)
  /\ \/ Works /\ probe[prog[p]] = "built"
        /\ found' = [found EXCEPT ![p] = found[p] \union {prog[p]}]
     \/ Works /\ probe[prog[p]] # "built" /\ UNCHANGED found
     \/ Fails /\ UNCHANGED found
  /\ UNCHANGED <<files, prog, ada, cut>> /\ Unkilled

\* Seeded fault: sd-mk-cpuidx86-h takes an empty SYSDEP_ARCH.
MakeHeaderUnchecked(p) ==
  /\ \/ Works /\ Goto(p, "header", "execute") /\ prog' = [prog EXCEPT ![p] = "sd-os"]
     \/ Fails /\ Goto(p, "header", "fatal") /\ UNCHANGED prog
  /\ UNCHANGED <<files, holder, results, cut>> /\ Unkilled

\* sd-mk-cpuidx86-h fails if SYSDEP_ARCH or SYSDEP_CC_TYPE is empty, and looks
\* at no other; sd-cpuidx86.h replaces the old one in one step.
MakeHeader(p) ==
  /\ \/ Works /\ "sd-arch" \in found[p] /\ Goto(p, "header", "execute")
        /\ prog' = [prog EXCEPT ![p] = "sd-os"]
     \/ Works /\ "sd-arch" \notin found[p] /\ Goto(p, "header", "fatal")
        /\ UNCHANGED prog
     \/ Fails /\ Goto(p, "header", "fatal") /\ UNCHANGED prog
  /\ UNCHANGED <<files, holder, results, cut>> /\ Unkilled

----------------------------------------------------------------------------
(* The Ada compiler's type and version.                                    *)

\* Seeded fault: the result is redirected to the file from the start.
TestSavedTruncates(p) ==
  /\ IF saved = "absent"
       THEN saved' = "empty" /\ Goto(p, "ada", "detect_ada")
       ELSE UNCHANGED saved /\ Goto(p, "ada", "read_type")
  /\ UNCHANGED <<prog, holder, ada, cut, faults>> /\ Unsaved /\ Unkilled

\* test -f: a file that is there is read, whatever is in it.
TestSaved(p) ==
  /\ Goto(p, "ada", IF saved = "absent" THEN "detect_ada" ELSE "read_type")
  /\ UNCHANGED <<prog, saved, holder, ada, cut, faults>> /\ Unsaved /\ Unkilled

BeginDetectAda(p) ==
  /\ Acquire(p, AdaLock) /\ Goto(p, "detect_ada", "detecting_ada")
  /\ UNCHANGED <<prog, saved, ada, cut, faults>> /\ Unsaved /\ Unkilled

\* sd-adaversion prints a type and a version, if only UNKNOWN 0.0.0; that it
\* could not be run is not looked at.
EndDetectAda(p) ==
  /\ Goto(p, "detecting_ada", "truncate") /\ ReleaseAll(p)
  /\ \/ Works /\ ada' = [ada EXCEPT ![p] = [type |-> TRUE, version |-> TRUE]]
     \/ Fails /\ ada' = [ada EXCEPT ![p] = [type |-> FALSE, version |-> FALSE]]
  /\ UNCHANGED <<prog, saved, cut>> /\ Unsaved /\ Unkilled

\* echo > sd-adaversion.out, with no lock: the shell empties the file ...
Truncate(p) ==
  /\ \/ Works /\ saved' = "empty" /\ Goto(p, "truncate", "write")
     \/ Fails /\ UNCHANGED saved /\ Goto(p, "truncate", "detected")
  /\ UNCHANGED <<prog, holder, ada, cut>> /\ Unsaved /\ Unkilled

\* ... and echo writes it; nobody looks whether it could.
Write(p) ==
  /\ Goto(p, "write", "detected")
  /\ \/ Works /\ ada[p].type /\ saved' = "whole" /\ UNCHANGED cut
     \/ Works /\ ~ada[p].type /\ saved' = "empty" /\ cut' = TRUE
     \/ Fails /\ UNCHANGED saved /\ cut' = TRUE
  /\ UNCHANGED <<prog, holder, ada>> /\ Unsaved /\ Unkilled

\* Two runs of cat, one for each variable.
ReadType(p) ==
  /\ Goto(p, "read_type", "read_version")
  /\ ada' = [ada EXCEPT ![p].type = saved = "whole"]
  /\ UNCHANGED <<prog, saved, holder, cut, faults>> /\ Unsaved /\ Unkilled

ReadVersion(p) ==
  /\ Goto(p, "read_version", "detected")
  /\ ada' = [ada EXCEPT ![p].version = saved = "whole"]
  /\ UNCHANGED <<prog, saved, holder, cut, faults>> /\ Unsaved /\ Unkilled

----------------------------------------------------------------------------
(* Signals.                                                                *)

Killed == faults + kills < MaxMishaps /\ kills' = kills + 1

\* The compiler or linker of p goes on without p; and p's own goes on to link
\* only if sd-compile does.
LeftBehind(p) ==
  /\ left' = left \union {[kill |-> kills', at |-> pc[p], of |-> prog[p]]}
  /\ disturbed' = disturbed \union {prog[p]}

\* A signal to all processes of a run.  (One to its shell alone leaves
\* sd-locker and the command at work, under the lock, to their end: as if it
\* had come after the command, but that the run may be started again before.)
KillFrom(p, points) ==
  /\ pc[p] \in points /\ Killed
  /\ pc' = [pc EXCEPT ![p] = "killed"]
  /\ ReleaseAll(p)
  /\ cut' = (cut \/ pc[p] = "write")
  /\ UNCHANGED <<files, prog, results, left, misled, disturbed, starts, faults>>

\* A signal to sd-locker alone: the lock is gone and the command goes on.  Of a
\* compilation the run takes sd-locker's status for a failure; of a program it
\* still collects the output.
LockerKilled(p) ==
  /\ Killed /\ ReleaseAll(p)
  /\ \/ /\ pc[p] \in {"compiling", "linking"}
        /\ pc' = [pc EXCEPT ![p] = "fatal"] /\ LeftBehind(p)
     \/ pc[p] \in {"executing", "detecting_ada"} /\ UNCHANGED <<pc, left, disturbed>>
  /\ UNCHANGED <<files, prog, results, misled, cut, starts, faults>>

\* A signal to sd-compile alone: sd-locker exits with 0 and the run goes on.  A
\* linker at work is left behind; after a compiler nothing is linked.
CompileKilled(p) ==
  /\ Killed /\ ReleaseAll(p)
  /\ \/ Compiled(p, "compiling") /\ UNCHANGED <<left, disturbed>>
     \/ Compiled(p, "linking") /\ LeftBehind(p)
  /\ misled' = [misled EXCEPT ![p] = misled[p] \union {prog[p]}]
  /\ UNCHANGED <<files, results, cut, starts, faults>>

\* What was left behind: sd-compile goes on to link, unless its compiler fails.
StrayCompile(c) ==
  /\ c.at = "compiling"
  /\ \/ /\ left' = (left \ {c}) \union {[c EXCEPT !.at = "linking"]}
        /\ probe' = [probe EXCEPT ![c.of] = "partial"]
     \/ left' = left \ {c} /\ UNCHANGED probe
  /\ UNCHANGED <<pc, prog, locker, saved, holder, results, misled, disturbed, cut>>
  /\ UNCHANGED <<starts, faults, kills>>

StrayLink(c) ==
  /\ c.at = "linking" /\ left' = left \ {c} /\ (Linked(c.of) \/ Unlinked(c.of))
  /\ UNCHANGED <<pc, prog, locker, saved, holder, results, misled, disturbed, cut>>
  /\ UNCHANGED <<starts, faults, kills>>

Detect(p) ==
  \/ PrepareLocker(p) \/ MoveLocker(p) \/ CheckLocker(p)
  \/ BeginCompile(p) \/ Compile(p) \/ Link(p)
  \/ BeginExecute(p) \/ EndExecute(p) \/ MakeHeader(p)
  \/ TestSaved(p) \/ BeginDetectAda(p) \/ EndDetectAda(p)
  \/ Truncate(p) \/ Write(p) \/ ReadType(p) \/ ReadVersion(p)

----------------------------------------------------------------------------
(* Properties.                                                             *)

\* Every variable keeps its type (pc in SdRun, which has its other points).
SysTypeOK ==
  /\ prog \in [Runs -> Programs]
  /\ locker \in BOOLEAN /\ probe \in [Programs -> {"absent", "partial", "built"}]
  /\ saved \in {"absent", "empty", "whole"}
  /\ holder \in [Locks -> Runs \union {None}]
  /\ found \in [Runs -> SUBSET Programs]
  /\ ada \in [Runs -> [type : BOOLEAN, version : BOOLEAN]]
  /\ left \subseteq [kill : 1 .. MaxMishaps, at : {"compiling", "linking"}, of : Programs]
  /\ misled \in [Runs -> SUBSET Programs] /\ disturbed \in SUBSET Programs
  /\ cut \in BOOLEAN
  /\ starts \in 0 .. MaxStarts
  /\ faults \in 0 .. MaxMishaps /\ kills \in 0 .. MaxMishaps

\* "Specifically do not check if this operation is successful - it may not be
\* on some operating systems during parallel builds" (sysdep-system:25): that
\* is safe.  Whichever run's mv comes first, and whether it fails because another
\* one's sd-locker is in its way, no run finds itself without sd-locker as long
\* as no command has failed otherwise.
LockerThere == \A p \in Runs : pc[p] = "no_locker" => faults > 0

\* "Another process in a parallel build might attempt to replace them at any
\* moment" (sysdep-system:179).  The lock a program is executed under is not
\* the one it is built under, but no run builds one that another executes,
\* because a program that is there is never built again.  The exceptions are a
\* run whose own sd-compile was killed and taken for a success, and a program
\* that a compiler or linker left behind by a signal may have written.
ProbeUndisturbed ==
  \A p, q \in Runs :
    (pc[p] = "executing" /\ pc[q] = "linking" /\ prog[p] = prog[q]) =>
      prog[p] \in misled[p] \union disturbed

\* The points after sd-mk-cpuidx86-h, and those after the last program.
PastPrograms == {"ada", "detect_ada", "detecting_ada", "truncate", "write",
                 "read_type", "read_version", "detected"}
PastHeader(p) ==
  pc[p] \in PastPrograms \/ (pc[p] \in {"execute", "executing"} /\ prog[p] = "sd-os")

\* A run gets past sd-cpuidx86.h only with the results of sd-arch and sd-cctype,
\* which are complete, even if its sd-compile was killed and sd-locker reported
\* success: the empty output then stops it at sd-mk-cpuidx86-h.  Nothing stops
\* it for want of the others: so these are complete only if no sd-compile of
\* the run was killed.  What was left behind by a signal may be at work on
\* either.
DetectedForReal ==
  \A p \in Runs :
    /\ PastHeader(p) =>
         "sd-arch" \in found[p] /\ (probe["sd-arch"] = "built" \/ "sd-arch" \in disturbed)
    /\ pc[p] \in PastPrograms =>
         probe["sd-os"] = "built" \/ "sd-os" \in misled[p] \union disturbed

\* sd-adaversion.out is written by echo >, with no lock, where the unused
\* SDM_fetch_adaversion writes a file of its own and moves it ("save output
\* safely", sysdep-system:110).  A run that finds it empty therefore reads
\* while another one writes it, or after one that ended there or had nothing
\* to write; and then every later run does.
EmptyExplained == saved = "empty" => cut \/ \E q \in Runs : pc[q] = "write"
============================================================================
