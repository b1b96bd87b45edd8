------------------------------- MODULE Locker -------------------------------
(***************************************************************************)
(* sd-locker (SYSDEPS/sd-locker.c with sd-locker_posix.c or                *)
(* sd-locker_win32.c): each process opens the lock file, takes an          *)
(* exclusive lock on it, runs its command in a child and releases the      *)
(* lock.  The kernel's lock belongs to the process and to the inode: it    *)
(* goes when the process exits, is killed or closes the file, and it does  *)
(* not follow the file's name.                                             *)
(***************************************************************************)
EXTENDS Integers, Sequences

CONSTANTS Procs,      \* the sd-locker processes
          None,       \* no process, or no file
          MaxCleans,  \* bound: removals of the lock file by sd-clean
          MaxKills,   \* bound: lockers killed by a signal
          Commands    \* the lengths of argv [0 .. argc - 1], for each command

ASSUME NoneAssumption == None \notin Procs /\ None \notin Nat
ASSUME BoundAssumption == MaxCleans \in Nat /\ MaxKills \in Nat
\* "usage" of main: there is a command.
ASSUME CommandsAssumption == \A argv \in Commands : argv \in Seq(Nat) /\ argv # <<>>

VARIABLES os,      \* SD_LOCKER_OS_TYPE: "posix" or "win32"
          pc,      \* process |-> the next call of main
          locked,  \* process |-> sd_locker_state.locked
          fd,      \* process |-> the inode lock_fd refers to
          code,    \* process |-> exit status; None while it runs or if killed
          line,    \* process |-> its Win32 command line, while it is made
          child,   \* process |-> the state of the child it forked
          file,    \* the inode the lock file's name refers to
          holder,  \* inode |-> the process that holds its write lock
          cleans, kills

vars == <<os, pc, locked, fd, code, line, child, file, holder, cleans, kills>>

Inodes == 0 .. MaxCleans
EXIT_SUCCESS == 0
EXIT_FAILURE == 1
STILL_ACTIVE == 259   \* GetExitCodeProcess, of a process that runs

\* A child and the exit status the system reports of it once it has ended.
Results == {EXIT_SUCCESS, EXIT_FAILURE}
Children == [state : {"none", "forked", "running"}, result : {EXIT_SUCCESS}]
              \union [state : {"exited", "signalled"}, result : Results]
Child(s, r) == [state |-> s, result |-> r]

\* Between sd_locker_lock_acquire and sd_locker_lock_release.
Holding == {"execute", "measure", "quote", "create", "wait", "collect", "release"}
Live == {"open", "acquire", "close"} \union Holding

\* argc and argv, the index of the loop, length_total and length_used.
Lines == [argv : Seq(Nat), index : Nat, total : Nat, used : Nat]
Line(a, i, t, u) == [argv |-> a, index |-> i, total |-> t, used |-> u]
NoLine == Line(<<>>, 0, 0, 0)

Init ==
  /\ os \in {"posix", "win32"}
  /\ pc = [p \in Procs |-> "open"]
  /\ locked = [p \in Procs |-> 0]
  /\ fd = [p \in Procs |-> None]
  /\ code = [p \in Procs |-> None]
  /\ line = [p \in Procs |-> NoLine]
  /\ child = [p \in Procs |-> Child("none", EXIT_SUCCESS)]
  /\ file = None
  /\ holder = [n \in Inodes |-> None]
  /\ cleans = 0 /\ kills = 0

\* The locks of a process that goes away, or closes the file, are dropped.
DropLocks(p) ==
  holder' = [n \in Inodes |-> IF holder[n] = p THEN None ELSE holder[n]]

----------------------------------------------------------------------------
(* The steps of main.                                                      *)

\* open with O_CREAT, CreateFile with OPEN_ALWAYS: a name removed by sd-clean
\* gets a new inode.
Open(p) ==
  /\ pc[p] = "open"
  /\ LET inode == IF file = None THEN cleans ELSE file
     IN file' = inode /\ fd' = [fd EXCEPT ![p] = inode]
  /\ pc' = [pc EXCEPT ![p] = "acquire"]
  /\ UNCHANGED <<os, line, locked, code, child, holder, cleans, kills>>

\* Seeded fault: F_SETLK, and its result is not looked at.
AcquireWithoutWaiting(p) ==
  /\ pc[p] = "acquire"
  /\ holder' = [holder EXCEPT ![fd[p]] = p]
  /\ locked' = [locked EXCEPT ![p] = 1]
  /\ pc' = [pc EXCEPT ![p] = "execute"]
  /\ UNCHANGED <<os, line, fd, code, child, file, cleans, kills>>

\* F_SETLKW and LockFileEx wait until no other process holds the inode's lock.
Acquire(p) ==
  /\ pc[p] = "acquire"
  /\ holder[fd[p]] = None
  /\ holder' = [holder EXCEPT ![fd[p]] = p]
  /\ locked' = [locked EXCEPT ![p] = 1]
  /\ pc' = [pc EXCEPT ![p] = "execute"]
  /\ UNCHANGED <<os, line, fd, code, child, file, cleans, kills>>

----------------------------------------------------------------------------
(* sd_locker_win32_convert_command: sh -c "'arg' 'arg' ".                  *)

PrefixSize == 7      \* SD_LOCKER_WIN32_POSIX_SHELL_PREFIX_SIZE
QuoteSize == 1       \* SD_LOCKER_WIN32_POSIX_SHELL_QUOTE_SIZE

\* Seeded fault: sizeof (' ') taken as the size of a char.
SpaceSizeOfChar == 1

SpaceSize == 4       \* sizeof (' '): a character constant is an int

Convert(p) ==
  /\ os = "win32" /\ pc[p] = "execute"
  /\ \E argv \in Commands :
       line' = [line EXCEPT ![p] = Line(argv, 0, PrefixSize + QuoteSize, 0)]
  /\ pc' = [pc EXCEPT ![p] = "measure"]
  /\ UNCHANGED <<os, locked, fd, code, child, file, holder, cleans, kills>>

\* The next argument of either loop.
Argument(p) == line[p].argv[line[p].index + 1]
AtEnd(p) == line[p].index = Len(line[p].argv)

\* The first loop: length_total is what the line will need.
Measure(p) ==
  /\ pc[p] = "measure" /\ ~AtEnd(p)
  /\ line' = [line EXCEPT ![p] =
                 Line(@.argv, @.index + 1,
                      @.total + QuoteSize + Argument(p) + QuoteSize + SpaceSize, @.used)]
  /\ UNCHANGED <<os, pc, locked, fd, code, child, file, holder, cleans, kills>>

\* malloc (length_total), and the prefix.
Allocate(p) ==
  /\ pc[p] = "measure" /\ AtEnd(p)
  /\ line' = [line EXCEPT ![p] = Line(@.argv, 0, @.total, PrefixSize)]
  /\ pc' = [pc EXCEPT ![p] = "quote"]
  /\ UNCHANGED <<os, locked, fd, code, child, file, holder, cleans, kills>>

\* The second loop: an argument in quotes, and a space.
Quote(p) ==
  /\ pc[p] = "quote" /\ ~AtEnd(p)
  /\ line' = [line EXCEPT ![p] =
                 Line(@.argv, @.index + 1, @.total,
                      @.used + QuoteSize + Argument(p) + QuoteSize + 1)]
  /\ UNCHANGED <<os, pc, locked, fd, code, child, file, holder, cleans, kills>>

\* The closing quote and the null character.
Terminate(p) ==
  /\ pc[p] = "quote" /\ AtEnd(p)
  /\ line' = [line EXCEPT ![p] = Line(@.argv, @.index, @.total, @.used + 2)]
  /\ pc' = [pc EXCEPT ![p] = "create"]
  /\ UNCHANGED <<os, locked, fd, code, child, file, holder, cleans, kills>>

ConvertCommand(p) ==
  Convert(p) \/ Measure(p) \/ Allocate(p) \/ Quote(p) \/ Terminate(p)

----------------------------------------------------------------------------
(* The child, its end, and the end of main.                                *)

\* fork, whose child is the command only after execvp; or CreateProcess.
Start(p) ==
  /\ pc[p] = IF os = "posix" THEN "execute" ELSE "create"
  /\ child' = [child EXCEPT ![p] =
                 Child(IF os = "posix" THEN "forked" ELSE "running",
                       EXIT_SUCCESS)]
  /\ line' = [line EXCEPT ![p] = NoLine]
  /\ pc' = [pc EXCEPT ![p] = "wait"]
  /\ UNCHANGED <<os, locked, fd, code, file, holder, cleans, kills>>

ChildEnded(p) == child[p].state \in {"exited", "signalled"}

\* Seeded fault: exit_code keeps the EXIT_SUCCESS main gave it.
WaitIgnoresStatus(p) ==
  /\ os = "posix" /\ pc[p] = "wait" /\ ChildEnded(p)
  /\ code' = [code EXCEPT ![p] = EXIT_SUCCESS]
  /\ pc' = [pc EXCEPT ![p] = "release"]
  /\ UNCHANGED <<os, line, locked, fd, child, file, holder, cleans, kills>>

\* waitpid; WEXITSTATUS of a child that was killed by a signal is 0.
Wait(p) ==
  /\ os = "posix" /\ pc[p] = "wait" /\ ChildEnded(p)
  /\ code' = [code EXCEPT ![p] = child[p].result]
  /\ pc' = [pc EXCEPT ![p] = "release"]
  /\ UNCHANGED <<os, line, locked, fd, child, file, holder, cleans, kills>>

\* WaitForSingleObject, to the end of the command; or it fails at once, for
\* wait_result is not looked at.
WaitForSingleObject(p) ==
  /\ os = "win32" /\ pc[p] = "wait"
  /\ pc' = [pc EXCEPT ![p] = "collect"]
  /\ UNCHANGED <<os, line, locked, fd, code, child, file, holder, cleans, kills>>
WaitEnds(p) == ChildEnded(p) /\ WaitForSingleObject(p)
WaitFails(p) == ~ChildEnded(p) /\ WaitForSingleObject(p)

GetExitCode(p) ==
  /\ pc[p] = "collect"
  /\ code' = [code EXCEPT ![p] = IF ChildEnded(p) THEN child[p].result
                                 ELSE STILL_ACTIVE]
  /\ pc' = [pc EXCEPT ![p] = "release"]
  /\ UNCHANGED <<os, line, locked, fd, child, file, holder, cleans, kills>>

\* Seeded fault: state->locked is not reset.
ReleaseKeepsFlag(p) ==
  /\ pc[p] = "release"
  /\ holder' = [holder EXCEPT ![fd[p]] = None]
  /\ pc' = [pc EXCEPT ![p] = "close"]
  /\ UNCHANGED <<os, line, locked, fd, code, child, file, cleans, kills>>

Release(p) ==
  /\ pc[p] = "release"
  /\ holder' = [holder EXCEPT ![fd[p]] = None]
  /\ locked' = [locked EXCEPT ![p] = 0]
  /\ pc' = [pc EXCEPT ![p] = "close"]
  /\ UNCHANGED <<os, line, fd, code, child, file, cleans, kills>>

\* close, then return exit_code from main.
Close(p) ==
  /\ pc[p] = "close"
  /\ DropLocks(p)
  /\ pc' = [pc EXCEPT ![p] = "exited"]
  /\ UNCHANGED <<os, line, locked, fd, code, child, file, cleans, kills>>

\* The next call can fail.  waitpid does once the child is gone (SIGCHLD ignored:
\* ECHILD); no handler makes a call EINTR.  On Win32 the wait itself is never
\* fatal, and of the conversion of the command only malloc is.
CanFail(p) ==
  /\ pc[p] \in Live \ {"quote"}
  /\ pc[p] = "execute" => os = "posix"
  /\ pc[p] = "measure" => AtEnd(p)
  /\ pc[p] = "wait" => os = "posix" /\ ChildEnded(p)

\* Seeded fault: waitpid returns early (EINTR) and the locker gives up.
FatalWhileRunning(p) ==
  /\ pc[p] \in Live
  /\ code' = [code EXCEPT ![p] = EXIT_FAILURE]
  /\ pc' = [pc EXCEPT ![p] = "exited"]
  /\ DropLocks(p)
  /\ line' = [line EXCEPT ![p] = NoLine]
  /\ UNCHANGED <<os, locked, fd, child, file, cleans, kills>>

\* Seeded fault: the lock outlives the process, as a lock that is the mere
\* existence of the file would.
FatalKeepsLock(p) ==
  /\ CanFail(p)
  /\ code' = [code EXCEPT ![p] = EXIT_FAILURE]
  /\ pc' = [pc EXCEPT ![p] = "exited"]
  /\ line' = [line EXCEPT ![p] = NoLine]
  /\ UNCHANGED <<os, locked, fd, child, file, holder, cleans, kills>>

\* Any of the calls fails and sd_locker_fatal exits.
Fatal(p) ==
  /\ CanFail(p)
  /\ code' = [code EXCEPT ![p] = EXIT_FAILURE]
  /\ pc' = [pc EXCEPT ![p] = "exited"]
  /\ DropLocks(p)
  /\ line' = [line EXCEPT ![p] = NoLine]
  /\ UNCHANGED <<os, locked, fd, child, file, cleans, kills>>

----------------------------------------------------------------------------
(* The child, and what happens around the lockers.                         *)

ChildGoes(p, from, to) ==
  /\ child[p].state \in from
  /\ child' = [child EXCEPT ![p] = to]
  /\ UNCHANGED <<os, line, pc, locked, fd, code, file, holder, cleans, kills>>

\* The child closes its lock_fd, which drops no lock of its parent's, and
\* becomes the command; if close or execvp fails it exits.
ChildExec(p) == ChildGoes(p, {"forked"}, Child("running", EXIT_SUCCESS))
ChildFatal(p) == ChildGoes(p, {"forked"}, Child("exited", EXIT_FAILURE))

CommandExits(p) ==
  \E r \in Results : ChildGoes(p, {"running"}, Child("exited", r))

\* A signal leaves no exit status; TerminateProcess and an exception do.
ChildKilled(p) ==
  ChildGoes(p, {"forked", "running"},
            Child("signalled", IF os = "posix" THEN EXIT_SUCCESS
                               ELSE EXIT_FAILURE))

\* A signal kills the locker itself; a command it started goes on.
Kill(p) ==
  /\ pc[p] \in Live /\ kills < MaxKills
  /\ kills' = kills + 1
  /\ pc' = [pc EXCEPT ![p] = "killed"]
  /\ code' = [code EXCEPT ![p] = None]
  /\ DropLocks(p)
  /\ line' = [line EXCEPT ![p] = NoLine]
  /\ UNCHANGED <<os, locked, fd, child, file, cleans>>

\* sd-clean removes "*.lock"; lockers keep the inode they have open.  On Win32
\* a file opened without FILE_SHARE_DELETE cannot be removed.
Clean ==
  /\ file # None /\ cleans < MaxCleans
  /\ os = "win32" => \A p \in Procs : pc[p] \in Live => fd[p] # file
  /\ file' = None /\ cleans' = cleans + 1
  /\ UNCHANGED <<os, line, pc, locked, fd, code, child, holder, kills>>

Main(p) == Open(p) \/ Acquire(p) \/ ConvertCommand(p) \/ Start(p) \/ Wait(p)
           \/ WaitEnds(p) \/ GetExitCode(p) \/ Release(p) \/ Close(p)
ChildStep(p) == ChildExec(p) \/ ChildFatal(p) \/ CommandExits(p)

Next ==
  \/ \E p \in Procs : Main(p) \/ WaitFails(p) \/ Fatal(p) \/ ChildStep(p)
                      \/ ChildKilled(p) \/ Kill(p)
  \/ Clean

Spec == Init /\ [][Next]_vars

\* A locker or its child runs as long as one of them can, and the commands
\* end.  Weak fairness is enough for the lock: each process takes it once.
FairSpec == Spec /\ \A p \in Procs : WF_vars(Main(p) \/ ChildStep(p))

----------------------------------------------------------------------------
(* Properties.                                                             *)

\* Every variable keeps its type.
TypeOK ==
  /\ os \in {"posix", "win32"}
  /\ pc \in [Procs -> Live \union {"exited", "killed"}]
  /\ locked \in [Procs -> {0, 1}]
  /\ fd \in [Procs -> Inodes \union {None}]
  /\ code \in [Procs -> Results \union {STILL_ACTIVE, None}]
  /\ line \in [Procs -> Lines]
  /\ child \in [Procs -> Children]
  /\ file \in Inodes \union {None}
  /\ holder \in [Inodes -> Procs \union {None}]
  /\ cleans \in 0 .. MaxCleans /\ kills \in 0 .. MaxKills

\* p's child exists: it has not ended.
Running(p) == child[p].state \in {"forked", "running"}

\* p's locker goes on although the command it started runs.
WaitFailed(p) == os = "win32" /\ Running(p) /\ pc[p] # "wait"

\* Commands of two lockers overlap only if one of the lockers was killed and
\* left its command behind, if the wait for it failed on Win32, where its result
\* is ignored (sd-locker_win32.c:248), or if on POSIX the two opened different
\* files under the one name, because sd-clean removed the first: neither a
\* failing call nor a failing command frees the lock early
\* (sd-locker.c:211-215), and on Win32 a lock file in use cannot be removed.
MutualExclusion ==
  \A p, q \in Procs :
    (/\ p # q /\ Running(p) /\ Running(q)
     /\ os = "win32" \/ fd[p] = fd[q])
      => \/ "killed" \in {pc[p], pc[q]}
         \/ WaitFailed(p) \/ WaitFailed(q)

\* "assert (state->locked == 0)" and "== 1" (sd-locker_posix.c:42,69,
\* sd-locker_win32.c:53,79, sd-locker.c:171) never fail, and the flag says what
\* the kernel's lock table says, which is never more than one lock for a
\* process.
FlagMatchesLock ==
  \A p \in Procs : pc[p] \in Live =>
    /\ locked[p] = (IF pc[p] \in Holding THEN 1 ELSE 0)
    /\ \A n \in Inodes : holder[n] = p <=> (locked[p] = 1 /\ n = fd[p])

\* A locker that returns 0 from main ran a command that has ended with 0, or,
\* on POSIX, was killed by a signal (sd-locker_posix.c:144).  A wait that fails
\* on Win32 does not become a success: the status is then STILL_ACTIVE
\* (sd-locker_win32.c:250).
ExitStatus ==
  \A p \in Procs : (pc[p] = "exited" /\ code[p] = EXIT_SUCCESS) =>
    \/ child[p] = Child("exited", EXIT_SUCCESS)
    \/ os = "posix" /\ child[p].state = "signalled"

\* "Lock handle, wait indefinitely to acquire lock" (sd-locker_posix.c:30,
\* sd-locker_win32.c:43): the wait does end, for every process.
EveryLockerEnds == <>(\A p \in Procs : pc[p] \in {"exited", "killed"})

\* sd-locker implements mutual exclusion of the commands it waits for: one at
\* a time for each lock file, where on POSIX a file that sd-clean removed and
\* the one created in its place are two, and on Win32 there is only the name.
Waiting(p) == pc[p] = "wait" /\ Running(p)
Stage(p) ==
  CASE Waiting(p) -> "running"
    [] ~Waiting(p) /\ (child[p].state # "none" \/ pc[p] \in {"exited", "killed"})
         -> "done"
    [] OTHER -> "waiting"
LockOf(p) == IF ~Waiting(p) THEN None ELSE IF os = "win32" THEN 0 ELSE fd[p]
Abstract == INSTANCE Mutex WITH
  Locks <- Inodes,
  stage <- [p \in Procs |-> Stage(p)],
  lock <- [p \in Procs |-> LockOf(p)]
ImplementsMutex == Abstract!MSpec

\* "Various buffer assertions" (sd-locker_win32.c:202): the command line never
\* takes more than the memory that was allocated for it, whatever the number
\* and the lengths of the arguments.
CommandLineFits ==
  \A p \in Procs : pc[p] \in {"quote", "create"} => line[p].used <= line[p].total
============================================================================
