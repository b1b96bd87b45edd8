------------------------------- MODULE SdRun -------------------------------
(***************************************************************************)
(* sd-run and sd-clean (SYSDEPS/sd-run, sd-clean, sysdep-mod-exec,         *)
(* sysdep-mod-clean), as the Makefile calls them: after the detection of   *)
(* SystemDetection a run executes its module, which creates one file,      *)
(* copies the file to the output directory and writes the module's status  *)
(* file.  make starts a run when the created file is missing and never     *)
(* looks at the status.  sysdeps.out, to which every module appends a      *)
(* line, is left out.                                                      *)
(***************************************************************************)
EXTENDS SystemDetection

CONSTANTS CustomRuns,  \* the runs whose module has a "custom" program: the
                       \* others search
          MaxCleans    \* bound: calls of sd-clean
ASSUME CustomAssumption == CustomRuns \subseteq Runs
ASSUME CleansAssumption == MaxCleans \in Nat

VARIABLES rc,        \* run |-> the program failed or the search found nothing
          work,      \* run |-> the created file in the module's directory
          output,    \* run |-> the created file in the output directory
          status,    \* run |-> the module's status file
          spoilt,    \* history: the modules of which a cp has failed, or the
                     \* cat that ends a custom program's file
          unmarked,  \* history: the runs that could not write their status
          cleans

modvars == <<rc, work, output, status, spoilt, unmarked, cleans>>
vars == <<sysvars, modvars>>

Contents == {"absent", "empty", "partial", "whole"}
Statuses == {"absent", "empty", "succeeded", "failed"}
Executing == {"detected", "refresh", "execute_module", "not_found", "copy",
              "copying", "remove", "succeed", "fail", "module_fatal"}
Reporting == {"not_found", "succeed", "fail", "module_fatal"}

Init ==
  /\ SysInit
  /\ rc = [p \in Runs |-> 0]
  /\ work = [p \in Runs |-> "absent"] /\ output = [p \in Runs |-> "absent"]
  /\ status = [p \in Runs |-> "absent"]
  /\ spoilt = {} /\ unmarked = {} /\ cleans = 0

\* The rule for the created file has no prerequisites.
Run(p) ==
  /\ output[p] = "absent" /\ Start(p)
  /\ unmarked' = unmarked \ {p}
  /\ UNCHANGED <<rc, work, output, status, spoilt, cleans>>

\* What the module's steps leave alone.
SysUnchanged ==
  UNCHANGED <<prog, files, holder, results, killvars, cut, starts>>

----------------------------------------------------------------------------
(* The status file.                                                        *)

\* echo > file || SYSDEP_ERROR: a failure is a message, and the function
\* returns 0.  The file is then as it was, or emptied.
Mark(p, s) ==
  \/ Works /\ status' = [status EXCEPT ![p] = s] /\ UNCHANGED unmarked
  \/ Fails /\ unmarked' = unmarked \union {p}
     /\ \/ UNCHANGED status
        \/ status' = [status EXCEPT ![p] = "empty"]

\* SDM_module_exit_success: so SDM_module_fail and the exit status 1 that
\* follow SDM_module_succeed are never reached.
Succeed(p) ==
  /\ Goto(p, "succeed", "done") /\ Mark(p, "succeeded")
  /\ UNCHANGED <<rc, work, output, spoilt, cleans>> /\ SysUnchanged

\* A custom program that failed: exit 0.
Fail(p) ==
  /\ Goto(p, "fail", "done") /\ Mark(p, "failed")
  /\ UNCHANGED <<rc, work, output, spoilt, cleans>> /\ SysUnchanged

\* SDM_module_fatal: exit 1.
ModuleFatal(p) ==
  /\ Goto(p, "module_fatal", "fatal") /\ Mark(p, "failed")
  /\ UNCHANGED <<rc, work, output, spoilt, cleans>> /\ SysUnchanged

----------------------------------------------------------------------------
(* Executing the module.                                                   *)

\* SDM_CREATES.
ReadCreates(p) ==
  /\ \/ Works /\ Goto(p, "detected", "refresh")
     \/ Fails /\ Goto(p, "detected", "module_fatal")
  /\ UNCHANGED modvars /\ SysUnchanged

\* rm and touch: an empty file, or none if one of them fails.
Refresh(p) ==
  /\ \/ Works /\ work' = [work EXCEPT ![p] = "empty"]
        /\ Goto(p, "refresh", "execute_module")
     \/ Fails /\ \E w \in {work[p], "absent"} : work' = [work EXCEPT ![p] = w]
        /\ Goto(p, "refresh", "module_fatal")
  /\ UNCHANGED <<rc, output, status, spoilt, unmarked, cleans>>
  /\ SysUnchanged

\* modules/sd-sysinfo/custom; its result is kept while the files are moved.
\* Nobody looks at the cat that ends the file: a part of it then passes for the
\* whole.  What follows, the lines for sysdeps.out, may fail when the file is
\* whole.
Custom(p) ==
  /\ p \in CustomRuns
  /\ Goto(p, "execute_module", "copy")
  /\ \/ Works /\ work' = [work EXCEPT ![p] = "whole"]
        /\ rc' = [rc EXCEPT ![p] = 0] /\ UNCHANGED spoilt
     \/ Fails /\ work' = [work EXCEPT ![p] = "partial"]
        /\ rc' = [rc EXCEPT ![p] = 0] /\ spoilt' = spoilt \union {p}
     \/ Fails /\ rc' = [rc EXCEPT ![p] = 1] /\ UNCHANGED spoilt
        /\ \E w \in {"empty", "partial", "whole"} : work' = [work EXCEPT ![p] = w]
  /\ UNCHANGED <<output, status, unmarked, cleans>>
  /\ SysUnchanged

\* The search types in turn: one finds its flags and echo writes them; or none
\* does; or a file of the module cannot be read or an echo fails, be it that to
\* sysdeps.out, which is fatal (as is a "custom" that is not executable).
Search(p) ==
  /\ p \notin CustomRuns
  /\ \/ Works /\ work' = [work EXCEPT ![p] = "whole"]
        /\ rc' = [rc EXCEPT ![p] = 0] /\ Goto(p, "execute_module", "copy")
     \/ Works /\ rc' = [rc EXCEPT ![p] = 1] /\ UNCHANGED work
        /\ Goto(p, "execute_module", "not_found")
     \/ Fails /\ UNCHANGED rc /\ Goto(p, "execute_module", "module_fatal")
        /\ \E w \in {"empty", "partial", "whole"} : work' = [work EXCEPT ![p] = w]
  /\ UNCHANGED <<output, status, spoilt, unmarked, cleans>>
  /\ SysUnchanged

\* "all search types failed": marked before the empty files are moved.
NotFound(p) ==
  /\ Goto(p, "not_found", "copy") /\ Mark(p, "failed")
  /\ UNCHANGED <<rc, work, output, spoilt, cleans>> /\ SysUnchanged

----------------------------------------------------------------------------
(* SDM_files_move.                                                         *)

\* cp creates its copy, or fails to; nobody looks at its status.
BeginCopy(p) ==
  /\ \/ Works /\ Goto(p, "copy", "copying") /\ UNCHANGED spoilt
        /\ output' = [output EXCEPT ![p] = "empty"]
     \/ Fails /\ Goto(p, "copy", "remove") /\ UNCHANGED output
        /\ spoilt' = spoilt \union {p}
  /\ UNCHANGED <<rc, work, status, unmarked, cleans>> /\ SysUnchanged

EndCopy(p) ==
  /\ Goto(p, "copying", "remove")
  /\ \/ Works /\ output' = [output EXCEPT ![p] = work[p]] /\ UNCHANGED spoilt
     \/ Fails /\ output' = [output EXCEPT ![p] = "partial"]
        /\ spoilt' = spoilt \union {p}
  /\ UNCHANGED <<rc, work, status, unmarked, cleans>> /\ SysUnchanged

\* What comes after the files are moved.
AfterMove(p) ==
  IF rc[p] = 0 THEN "succeed" ELSE IF p \in CustomRuns THEN "fail" ELSE "done"

\* Seeded fault: the program's result is lost in SDM_files_move.
RemoveWorkLosesResult(p) ==
  /\ Works /\ Goto(p, "remove", "succeed")
  /\ work' = [work EXCEPT ![p] = "absent"]
  /\ UNCHANGED <<rc, output, status, spoilt, unmarked, cleans>>
  /\ SysUnchanged

\* The last rm's status is SDM_files_move's, at which only a search looks.
RemoveWork(p) ==
  /\ \/ Works /\ Goto(p, "remove", AfterMove(p))
        /\ work' = [work EXCEPT ![p] = "absent"]
     \/ Fails /\ \E w \in {work[p], "absent"} : work' = [work EXCEPT ![p] = w]
        /\ \/ Goto(p, "remove", AfterMove(p))
           \/ p \notin CustomRuns /\ Goto(p, "remove", "module_fatal")
  /\ UNCHANGED <<rc, output, status, spoilt, unmarked, cleans>>
  /\ SysUnchanged

----------------------------------------------------------------------------
(* Signals, and sd-clean.                                                  *)

\* A signal during the detection.
KillDetection(p) == KillFrom(p, Detecting) /\ UNCHANGED modvars

\* A signal during the execution; echo may have emptied the status file.
KillModule(p) ==
  /\ KillFrom(p, Executing)
  /\ \/ UNCHANGED status
     \/ pc[p] \in Reporting /\ status' = [status EXCEPT ![p] = "empty"]
  /\ UNCHANGED <<rc, work, output, spoilt, unmarked, cleans>>

\* One of its processes only.
KillCommand(p) == (LockerKilled(p) \/ CompileKilled(p)) /\ UNCHANGED modvars

\* Seeded fault: the status file stays.
CleanStatusForgotten(p) == UNCHANGED status

CleanStatus(p) == status' = [status EXCEPT ![p] = "absent"]

\* sd-clean of p's module, between builds: the files all modules share, the
\* status file and the created file are removed in this order, each step only
\* if the ones before it succeeded.
Clean(p) ==
  /\ cleans < MaxCleans /\ cleans' = cleans + 1
  /\ \A q \in Runs : pc[q] \in Ended
  /\ \E steps \in 0 .. 3 :
       /\ IF steps = 3 THEN Works ELSE Fails
       /\ IF steps >= 1
            THEN /\ locker' = FALSE /\ saved' = "absent" /\ cut' = FALSE
                 /\ probe' = [g \in Programs |-> "absent"]
                 /\ disturbed' = {c.of : c \in left}
            ELSE UNCHANGED <<files, disturbed, cut>>
       /\ IF steps >= 2 THEN CleanStatus(p) ELSE UNCHANGED status
       /\ IF steps = 3
            THEN /\ work' = [work EXCEPT ![p] = "absent"]
                 /\ output' = [output EXCEPT ![p] = "absent"]
                 /\ spoilt' = spoilt \ {p}
            ELSE UNCHANGED <<work, output, spoilt>>
  /\ pc' = [pc EXCEPT ![p] = "idle"]
  /\ UNCHANGED <<prog, holder, results, left, misled, starts, kills, rc, unmarked>>

----------------------------------------------------------------------------
(* The specification.                                                      *)

Execute(p) ==
  \/ ReadCreates(p) \/ Refresh(p) \/ Custom(p) \/ Search(p) \/ NotFound(p)
  \/ BeginCopy(p) \/ EndCopy(p) \/ RemoveWork(p)
  \/ Succeed(p) \/ Fail(p) \/ ModuleFatal(p)

\* The next command of a run.
Advance(p) ==
  \/ pc[p] \in Detecting /\ Detect(p) /\ UNCHANGED modvars
  \/ pc[p] \in Executing /\ Execute(p)

Next ==
  \/ \E p \in Runs :
       \/ Run(p) \/ Advance(p)
       \/ KillDetection(p) \/ KillCommand(p) \/ KillModule(p)
       \/ Clean(p)
  \/ \E c \in left : (StrayCompile(c) \/ StrayLink(c)) /\ UNCHANGED modvars

Spec == Init /\ [][Next]_vars

\* The system schedules every run, and the compilers and programs end.  (Of what
\* a signal left behind nothing is assumed.)
FairSpec ==
  Spec /\ \A p \in Runs : WF_vars(Advance(p))

----------------------------------------------------------------------------
(* Properties.                                                             *)

\* Every variable keeps its type.
TypeOK ==
  /\ SysTypeOK
  /\ pc \in [Runs -> Detecting \union Executing \union Ended]
  /\ rc \in [Runs -> {0, 1}]
  /\ work \in [Runs -> Contents] /\ output \in [Runs -> Contents]
  /\ status \in [Runs -> Statuses]
  /\ spoilt \in SUBSET Runs /\ unmarked \in SUBSET Runs
  /\ cleans \in 0 .. MaxCleans

\* A status file that says "succeeded", fresh or left by an earlier run, has
\* the whole file beside it, or a cp, or the cat that ends a custom program's
\* file, has failed since the module was cleaned: whatever else fails, and
\* wherever a run is killed.
SucceededIsWhole ==
  \A p \in Runs :
    status[p] = "succeeded" => output[p] = "whole" \/ p \in spoilt

\* A run that exits with 0 leaves the file make asked for.  It may have failed,
\* and make goes on with the partial file; but the status file then tells, if
\* it could be written.  The other way round, only a custom program can be said
\* to have failed beside a whole file.
DoneIsMarked ==
  \A p \in Runs :
    (pc[p] = "done" /\ p \notin spoilt) =>
      /\ output[p] # "absent"
      /\ p \notin unmarked =>
           \/ status[p] = "succeeded" /\ output[p] = "whole"
           \/ status[p] = "failed" /\ (output[p] = "whole" => p \in CustomRuns)

\* No run waits for ever for another one's lock: each ends.
EveryRunEnds == \A p \in Runs : (pc[p] \notin Ended) ~> (pc[p] \in Ended)
============================================================================
