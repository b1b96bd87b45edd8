# Verification of coreland-c_string

`coreland-c_string` is an Ada library of thin bindings to C strings and to
arrays of C strings, with its own build-time system detection (SYSDEPS) and its
own portable installer. This directory models the parts that have behaviour
worth checking, model-checks them with TLC on small instances, and proves the
most important results with TLAPS for every instance.

## 1. Inventory

| Component | State it keeps | Operations | What is hard |
|---|---|---|---|
| `C_String` (`c_string.ads/.adb`) | none; reads raw C memory | `To_String` (2), `To_C_String`, `To_C_Char_Array`, `Index` (2), `Length` | reads through unchecked pointer arithmetic, one cell at a time, of memory that C code may change; widths of `size_t`, `Storage_Offset` and `Integer` |
| `C_String.Arrays` (`c_string-arrays.ads/.adb`) | the heap it allocates from, the pointer array it is given or returns | `Size_Terminated`, `Index`, `Index_Terminated`, `Convert`, `Convert_Terminated`, `Convert_To_C`, `Convert_To_C_Terminated`, `Deallocate`, `Deallocate_Terminated` | sizes read first and used later, loop bounds, `Integer` overflow of byte offsets, allocation failure half way, ownership |
| `sd-locker` (`SYSDEPS/sd-locker.c`, with `sd-locker_posix.c` or `sd-locker_win32.c`) | `sd_locker_state`, the lock file's descriptor or handle, the kernel's lock, the child | `main`: open, acquire, execute, wait, release, close; on Win32 also the conversion of the command to one line | concurrent processes, failing calls, kills, a wait whose result nobody looks at, removal of the lock file by `sd-clean` |
| System detection (`SYSDEPS/sysdep-system`, `sd-compile`, `sd-mk-cpuidx86-h`, `sd-adaversion`) | `sd-locker`, the support programs and `sd-adaversion.out`, shared by all runs; the variables of one run | build `sd-locker`, build and execute the support programs under locks, read or make the Ada compiler's version | parallel builds share the files; `sd-locker` itself and one result are made without a lock |
| Module execution (`SYSDEPS/sd-run`, `sysdep-mod-exec`, `sd-clean`) | a module's created file, its copy in the output directory, its status file | run, mark, move, clean | a failure, a signal or a `cp` that fails between two of these; the status left by an earlier run |
| `sd-cpuidx86` (`SYSDEPS/sd-cpuidx86.c`) | the phase of the processor's cycle of cache descriptors, the caches found so far | search a level, print a size or a flag | a search may stop in the middle of the cycle, which the next one starts from |
| Installer (`install-core.c`, `install-posix.c`, `installer.c`, `deinstaller.c`, `instchk.c`, `insthier.c`) | the file system, `install_failed` | install, check and deinstall a list of items | a copy interrupted half way, a step that fails, reverse-order removal |
| Installer on Win32 (`install-win32.c`) | the security identifiers of users and groups, each in a block of its own | look up, get, compare, free; copy where POSIX links | who frees what after a failure; assertions on identifiers that a failure left unassigned |
| Other probes, generators, compile wrappers, `c_string-conf`, unit tests | none | print or run one command | nothing concurrent or stateful |

How they interact: Ada code calls `C_String`; `C_String.Arrays` reads each
entry of a pointer array with `C_String.To_String`; C code shares the memory of
both. `make` runs one `sd-run` for each module whose created file is missing,
possibly several at a time; each goes through `sysdep-system`, which builds and
executes the support programs through `sd-locker` so that parallel builds do not
trample each other, and then through `sysdep-mod-exec`. `sd-clean` removes the
programs, the results and the lock files. The installer programs are built last
and share only the list of items (`insthier.c`).

What makes each component correct:

* `C_String`: every operation returns what its declaration says or raises, and
  reads nothing outside the caller's block, for every block and width, also
  while C writes.
* `C_String.Arrays`: reads return the entries' strings; arrays built for C are
  complete, terminated and share nothing; conversion there and back loses
  nothing but what follows a nul; memory is released.
* `sd-locker`: of the commands under one lock file one runs at a time; every
  waiter gets its turn; the exit status is the command's.
* system detection: nobody executes a program that is being built, nobody gets
  past the header without the results it needs, every run ends.
* module execution: the status file never claims a success that did not happen,
  and a run that exits with 0 leaves what `make` asked for.
* `sd-cpuidx86`: a cache is found if and only if the processor reports it.
* installer: a destination is the old file or the new one and never a part;
  what is installed is checked and removed by the same list; on Win32 every
  identifier is freed once, and files go to the owner the item names.

The hazards, each with its line, are in `PROJECT.json`.

## 2. Modules

| Module | Models | Kind |
|---|---|---|
| `CMemory` | C memory blocks, terminated strings, `To_C` | pure operators |
| `CStringContract` | what `c_string.ads` promises: each call is one atomic step | abstract specification |
| `CString` | `c_string.adb`, one action per loop step, with a C side that writes | detailed specification |
| `CStringProofs` | theorems about `CString` | proofs |
| `CStringArrays` | `c_string-arrays.adb`, one action per loop step, sequences of calls | detailed specification |
| `CStringArraysProofs` | theorems about `CStringArrays` | proofs |
| `Mutex` | mutual exclusion of commands | abstract specification |
| `Locker` | `sd-locker.c` with either backend, `sd-clean`'s removal of lock files | detailed specification |
| `LockerProofs` | theorems about `Locker` | proofs |
| `SystemDetection` | the detection part of `sd-run`, by any number of parallel runs | detailed specification |
| `SdRun` | the whole of `sd-run`, and `sd-clean` | composes `SystemDetection` with the modules' execution |
| `SdRunProofs` | theorems about `SdRun` | proofs |
| `CpuIdX86` | `sd-cpuidx86.c`, and the processor it asks | detailed specification |
| `CpuIdX86Proofs` | theorems about `CpuIdX86` | proofs |
| `InstallFS` | what a path names: files, directories, links | pure operators |
| `FileReplace` | what `install_file_copy` promises: replace in one step, or nothing | abstract specification |
| `FileCopy` | `install_file_copy`, one action per system call, with failures and kills | detailed specification |
| `FileCopyProofs` | theorems about `FileCopy` | proofs |
| `Installer` | `installer`, `deinstaller` and `instchk` over the list of items | composes `FileCopy` |
| `InstallerProofs` | theorems about `Installer` | proofs |
| `InstallSids` | the identifiers in `install-win32.c` and in the functions of `install-core.c` that handle them | detailed specification |
| `InstallSidsProofs` | theorems about `InstallSids` | proofs |
| `MCCString`, `MCCStringArrays`, `MCLocker`, `MCSdRun`, `MCCpuIdX86`, `MCFileCopy`, `MCInstaller`, `MCInstallSids` | small instances | model checking |

**CMemory / CString.** A block of C memory is a function from offsets to cells.
The package keeps no state, so one behaviour is one call, from any memory: `call`
holds the operation and its parameters, `pc` the point the body has reached,
`i` the loop parameter, `len` what the nested `Length` returned, `text` the
result so far. `entry` and `writes` are history. `Unsafe_Index` checks nothing,
so a read outside the block is an action of its own, `Overrun`, that goes to
`"fault"`; but its index is converted to `Storage_Offset`, a signed type, and one
that is above `OffsetLast` raises `Constraint_Error` (`Readable`, `OutOfRange`),
which is also what the contract promises. The `not null` subtypes are `RejectNull`. Every operation is entered
by its own action and leaves through `"returned"` or the exception's name.
`ForeignWrite` is C code that changes a character, or truncates the string, but
never removes a terminator.

**CStringArrays.** `heap` maps addresses to the blocks of C strings, `arr` is
the caller's pointer array, kept across calls, so that arrays built by one call
are read by the next. `table` is `Pointer_Array.all` while it is filled.
`Index_Core` is the operator `IndexCore`: the byte offset `Index * Word_Size` is
computed in `Integer` first (which is no wider than `Storage_Offset`), a null entry reads as `""`, a string longer than
`Integer'Last` raises. The overloads for `Unbounded_String` and for allocated
arrays only convert the pointer or the result type and are the same actions.
`To_String` on an entry is atomic here: `CString` shows when it is.

**Locker.** `os` is the backend, chosen once. For each process `pc` is the next
call of `main`, `locked` the flag, `fd` the inode, `child` the process it
started, `code` the exit status. `holder` is the kernel's lock table, by inode,
and `file` the inode the lock file's name refers to; `Clean` makes the name refer
to nothing, and the next `Open` creates a new inode; on Win32 a file that is
open cannot be removed. `Fatal` is any call that fails, `Kill` a signal.
On POSIX the child is forked first and then becomes the command, and `Wait` takes
its status; on Win32 the wait (`WaitEnds`, or `WaitFails` at once) and the exit
code (`GetExitCode`, `STILL_ACTIVE` of a command that runs) are two calls.
On Win32 `line` is the command line while it is made: `argv` (its strings by
their lengths only), the index of the loop, `length_total` and `length_used`.
`Measure` and `Quote` are the two loops of `sd_locker_win32_convert_command`, one
argument a step, `Allocate` and `Terminate` their ends.

**SystemDetection / SdRun.** Several runs share `locker` (that `sd-locker`
exists), `probe` (the support programs) and `saved` (`sd-adaversion.out`);
`holder` is who holds each lock file, since `Locker` shows that a command run
through `sd-locker` excludes the others. There are two kinds of support program:
`"sd-arch"` stands for itself and `sd-cctype`, whose results `sd-mk-cpuidx86-h`
tests before it makes the header; `"sd-os"` for itself, `sd-ccversion` and
`sd-cpuidx86`, whose missing results are only reported. `pc` is the script's
next command, `prog` the program it is about, `found` and `ada` its variables. A
command that takes time while
others look (`ld`, the execution of a program, `echo >`, `cp`) is two steps.
`Works` and `Fails` are the two outcomes of a command; what a failure leaves
(half a program, an empty file) is in the action. `SdRun` adds for each run its
module: `work` and `output` are the created file in the module's directory and
its copy, `status` the status file, `rc` the result kept while files are moved.
`KillDetection` and `KillModule` are signals to all processes of a run;
`LockerKilled` one to its `sd-locker`, which releases the lock while the command
goes on; `CompileKilled` one to its `sd-compile`, which `sd-locker` takes for a
success (`Locker`'s `ExitStatus` says when). The compiler and the linker are
children of `sd-compile`: `left` are those that a signal left behind, without a
lock, and `StrayCompile` and `StrayLink` their ends, whenever they come. `misled`,
`disturbed`, `cut`, `spoilt` and `unmarked` are history: what went wrong where
nobody looks, for the properties to name.

**CpuIdX86.** `hw` is the processor: its cache descriptors in sets of four
registers, its feature leaves. `turn` is the set that `cpuid (2)` returns next;
it may stand anywhere when the program starts. `level` is the table searched,
`left` the executions left for it. `Matching` are the bytes of a set that the
table describes, `FirstMatch` the one that the nested searches reach first. The
tables are the program's. A register set counts the sets in a byte that no
table describes (`MachinesAssumption`), as those of real processors do. Sizes are in
kilobytes; `LongLimit` is how many of them an `unsigned long` counts in bytes.
What a processor reports is read by the program's own tables, so a row in the
wrong unit shows only when its bytes do not fit.

**InstallFS / FileCopy.** `fs` maps each path to a node: kind, what it holds,
mode, owner. A file that is being written holds `Partial`. Groups are left out:
the code sets the group in the call that sets the owner, so a process that is
itself the owner wanted leaves the group of its file as it is
(`install-core.c:234-245`), and no property here speaks of groups. `at` is the next system call of `install_file_copy`,
`streams` the two `FILE`s, `status` what the call returns. The reads and writes
of the copy loop are one action, because only `fflush` makes the file complete;
each may fail. After `ERR` the streams are closed again, which is undefined for a
stream that was closed before: `Abort` is the outcome that ends the program.
`"<dst>.tmp"` is `TmpOf`; a destination as long as the buffer has no temporary
name of its own (`Short`). `left` is history: names that a kill or a failed
`unlink` may have left.

**Installer.** One behaviour is a sequence of program runs over one file system.
`index` is the item (from 1), `cwd` the working directory, `failed` is
`install_failed`, `reported` the items whose status was an error. A copy is
`Call` followed by the steps of `FileCopy` (`Copying`) and `CopyReturns`; a
directory is one `MakeDir` for each part of its path and `DirMade`. What the
`ntran_*` functions do to names is given by the functions `LibName` (`.vlb`
files), `Suffixed` and `In` (joining with the directory and the fake root). `stat`
follows links (`Seen`), `lstat` does not. Since a copy is modelled system call
by system call, a kill can leave anything `FileCopy` leaves for the next run.

**InstallSids.** `heap` is what each block holds, `ptr` which block each of the
identifier variables refers to: those of the installer's `install_uidgid_lookup`,
`uid` and `gid`; `process`, for `uid_current`; and `uid_got` and `gid_got`, for
`iwin32_file_ownership_get`. `Take` is an allocation that is filled, `FailsHolding`
one that is lost or whose filling fails, `FreedHeap` the frees, `Forget` the end of
the variables' life. `MustHold` and `MustLack` are the identifiers that the
assertions ahead want assigned and not yet assigned: those of
`install_uidgid_lookup` and `install_file_copy`, and those of the functions of
`install-win32.c` they hand identifiers to. `found` is the owner of a temporary
file that a copy finds, which keeps it. An item's operation runs from `Serve` to `"idle"`; `aborted`
is a failed assertion (`AssertionFails`), `corrupt` a block freed twice, after which C defines
nothing and the model stops. `token`, `links` and `owner` tell how
`iwin32_gid_current` ended, how many links were made, and to whom the file
belongs. The rest of what these functions do is in `FileCopy` and `Installer`.

Seeded faults: definitions marked "Seeded fault" beside the definition they
vary are what a plausible bug would turn it into; no specification uses them. They
show that each property can fail.

## 3. Runs

| Run | Question | States | Bounds |
|---|---|---|---|
| `cstring` | what does a call do while C writes, does it behave as the atomic contract when C does not, and does it end? | 580 k | 2 characters and nul, blocks of 0..4 cells, `size_t'Last` 4, `Storage_Offset'Last` 2, `Integer'Last` 1, 1 write |
| `arrays` | do reads, conversions and round trips return what they should, and what survives writes by C? | 645 k | arrays of 0..3 entries and a terminator, 3 blocks, `Integer'Last` 2, word of 2 bytes, 1 write |
| `arrays_last_lost` | does `Convert_To_C` convert every string? (no) | | as above, no write |
| `arrays_leak` | does `Deallocate` release what `Convert_To_C` allocated? (no) | | as above, no write |
| `locker` | mutual exclusion, flag, exit status, command line; does every locker end? does it implement `Mutex`? | 665 k | 3 lockers on either system, 1 kill, 1 removal of the file, a command of one argument and one of two, the second of them empty |
| `sysdeps` | is the detection safe in parallel, do the files tell what happened, does every run end? | 363 k | 2 runs (one with a custom program, one that searches), 3 starts, 1 failing command or 1 signal, 1 `sd-clean` |
| `cpuid` | are the caches found that the processor reports? | 94 k | up to 2 sets, each with up to 2 of 7 descriptors in 6 places; `LongLimit` 2^22 |
| `filecopy` | does a copy replace its destination in one step? what stays behind? does every call return? | 64 k | 3 different calls, 2 failing system calls, 1 kill, 16 file systems |
| `installer` | are failures reported, crashes repaired, checks sound, removals complete? does every run end? | 125 k | 6 items, 3 runs, 1 failing call, 1 kill |
| `installer_mkdir` | is a directory that cannot be made reported? (no) | | 1 run, 1 failing call |
| `instchk_types` | are file types checked? (no) | | 1 run |
| `identities` | who owns each identifier, what is lost, to whom do files go? | 711 k | 2 items of any kind, 3 accounts, 2 failing calls, 14 blocks |

The widths are made small on purpose: with `Integer'Last` below
`Storage_Offset'Last` below `size_t'Last` every overflow check of the code is reached by a block of four cells, and with a
word of two bytes the byte offset overflows before the index does. Array and
string lengths need to reach only the cases the loops tell apart: none, one,
the last, one past the last. Three lockers give one that holds the lock and two
that compete; a removed file and a second inode need one removal; a kill can take the
holder while the two others wait (the proofs cover any number). In `MCCString`,
`MCLocker` and `MCCpuIdX86` the system really stops (the call ends, the processes
exit, the answer is printed), so the deadlock check is off there, and in
`MCInstaller`, `MCSdRun` and `MCInstallSids`, where runs, starts and items are
bounded; `CStringArrays` and `FileCopy` accept calls for ever and keep it.

Two runs of a parallel build meet at every file they share, and a third start
is what finds the status and the files of an earlier run; one failure or one
signal, and one cleaning, come at every point of them (`MaxMishaps` bounds
failures and signals together, because the two of them make a model too large to
run; for the safety properties the proofs cover any number). Two sets of
descriptors are what a search can stop between. Two items show what one leaves
to the next; 14 blocks are never used up by two items (1 for the Administrator,
5 for an item, the lost ones of the first).

The installer's instance has an item of every kind and what makes them interact:
a directory inside another, so that the order of removal matters; a read-only
file, whose temporary file can block the next run; an owner that only root may
give; a link whose directory holds a file named like a source. An old version of
the file has the size of the new one, so that the check, which compares sizes,
does not see the difference. Three runs are enough for an interrupted one, its
repair, and a check or a removal.

Type invariants: `CString` and `FileCopy` have theirs checked; those of `Locker`,
`SdRun`, `InstallSids`, `CStringArrays` and `Installer` are proved (section 5), for
every instance.

Fairness. `CString`: weak fairness of the call's own steps, because an Ada call
waits for nothing. `Locker`: weak fairness of each locker together with its
command, that is, the scheduler runs what can run and commands end; none for
failures, kills or `sd-clean`. Weak fairness is enough for the blocking
`F_SETLKW` because each process takes the lock once. `FileCopy` and `Installer`:
weak fairness of the program's own steps: a process that is not killed makes its
next system call, and each returns. `SdRun`: weak fairness of each run's own
commands; `make`, signals and `sd-clean` have none, and waiting for a lock is
fair enough since each run takes each lock once per start. `CStringArrays`,
`CpuIdX86` and `InstallSids` are checked for safety only.

## 4. Findings

* `Convert_To_C` stops at `'Last - 1` in a table without a terminating entry:
  the last string is never converted (`c_string-arrays.adb:280`).
* `Deallocate` and `Deallocate_Terminated` are empty: a string that
  `Convert_To_C` allocated is still there after its array has been deallocated
  (`c_string-arrays.adb:293-304`).
* A failing `mkdir` is not noticed on POSIX: `iposix_mkdir` returns 0 and
  `install_rmkdir` tests for -1 (`install-core.c:506`).
* On POSIX `instchk` checks no file types, against the comment above the test
  (`install-core.c:389`).

Behaviour that no text of the repository contradicts, and that the properties
therefore state as exceptions: a kill between `chmod 0444` and `rename` leaves a
temporary file that makes the next run of an ordinary user fail for that file,
once (`Recovers`); if `inst_link` cannot change back, later items are copied
from the wrong directory without an error (`CopiedOrReported`); a temporary file
keeps its directory from being removed (`DeinstallsAll`); `instchk` reports an
item it cannot look up but does not count it, and exits with 0
(`install-core.c:1114`, `1437`; `CheckSound`); the installer exits
with 0 whatever fails. Of the build: a command that a signal kills counts as a
success for `sd-locker` (`ExitStatus`), and only the header, which needs the
output of `sd-arch` and `sd-cctype`, stops that run: with another program
incomplete it goes on (`DetectedForReal`); a signal to `sd-locker` or `sd-compile`
alone leaves the linker at work without a lock, on a program that others may
execute or link as well (`ProbeUndisturbed`, `DetectedForReal`); a run
that ends while it writes `sd-adaversion.out` leaves it empty to all later ones,
and so does one that had nothing to write (`EmptyExplained`); nobody looks at the
status of `cp`, nor of the `cat` that ends the file of `sd-sysinfo`
(`SucceededIsWhole`); a run whose custom program failed exits with 0 and leaves
the partial file, or a whole one beside a status of failure (`DoneIsMarked`); on
POSIX lockers that opened different files under one name do not exclude each
other, and on Win32 a wait that fails
releases the lock under a running command (`MutualExclusion`). Of the identities:
`iwin32_gid_current` may return 1 without a group, which the callers' assertion
finds (`AssertsHold`), or leave a pointer to a block that is free, which
`gid_free` frees again (`PointersOwned`); a temporary file of somebody else that a
copy finds is installed as that one's when the process is itself the owner wanted
(`OwnerInstalled`); a link made by copying loses two
blocks, a failed call at most two (`LeaksBounded`). `sd-cpuidx86` wraps the sizes
in bytes that an `unsigned long` cannot hold (`SizePrinted`), and gives the line
of the last level it found (`LineOfLastLevel`).

## 5. Proofs

`CStringProofs` proves, from `SizeLast, OffsetLast, IntegerLast, MaxWrites \in Nat` and
`Nul \notin Chars` only:

* `TypeCorrect`, `NoOverrunHolds` and `LengthBracketedHolds`, for any number of
  writes by C. The invariant is `IInv == TypeOK /\ Persistent /\ Progress /\
  NoOverrun`. `Persistent` says that the terminators of the memory at the call
  are still there, which is what C's promise amounts to; `Progress` says what
  each point of a call knows (the cells before `i` were no terminators at the
  call, and so on). `NoOverrun` alone is not inductive: that a legal scan stops
  inside the block needs the terminator it is heading for. The bracket needs in
  addition that a terminated block has a first nul (`FirstNulExists`), the
  least-number principle, taken here from the well-foundedness of strict
  inclusion on finite sets.
* `Atomicity`: a call during which C writes nothing implements
  `CStringContract`, whatever C writes in the others. The extra
  invariant `Copied` says that `text` is the prefix copied so far and that
  `Has_Null` has passed only non-nul cells. A step that stays inside the call
  is a stutter (`InsideStep`); a step that ends it is `CReturn` (`EndStep`).

`LockerProofs` proves, for either system, any finite or infinite set of lockers,
any number of kills and removals: `TypeCorrect`, `MutualExclusionHolds`,
`FlagMatchesLockHolds`, `ExitStatusHolds`, and `Refinement`
to `Mutex`. The invariant ties the flag, the kernel's lock table and the child
to the point of `main` each process is at; mutual exclusion follows because the
parent of a running child holds the lock of its inode, or was killed, or did not
wait, and an inode has one holder. On Win32 the refinement needs no inodes: what
is open keeps its name.

`CommandLineFitsHolds` is an induction over the arguments. `Sums` adds up their
lengths, by recursion on the index; `Accounted`, checked by TLC first, says how
`length_total` and `length_used` are made of it: six bytes and its length for
each argument measured, three bytes and its length for each one copied. That the
recursion defines sums (`SumsType`) and that they grow with the index
(`SumsGrow`) is proved by `InductionOn`, induction on the natural numbers for
sets instead of operators, from the well-foundedness of `<`. What is left over at
the end is three bytes for each argument less one, and it is there because
`sizeof (' ')` is the size of an `int`.

`SdRunProofs` proves, for any set of runs and any number of starts, failures,
signals and cleanings, `TypeCorrect` and all six safety invariants of the
`sysdeps` run. The invariant has four parts. `Known(p)` is what a run in the
detection knows of the files all share: who compiles or links holds the lock
and found no program, who is past the header has one. It is inductive because a
program that is there is not touched until `sd-clean`, which finds no run at
work, but by what a signal left behind: `Strays` says that the programs of `left`
are among the `disturbed` ones, of which nothing is claimed. `EmptyExplained` is inductive as it stands. `Kept(p)` is what a run in the
execution knows of its module's files: before the copy the output is absent,
since `make` starts a run only then; after it, what `rc` says is what the file
holds, or the module is `spoilt`. `DetectMoves` and `ExecuteMoves` say which
points a step leads to, so that each part is disturbed by one half of the steps
only.

`CStringArraysProofs` proves, for any heap, any arrays and any number of writes by
C, `TypeCorrect` and all five safety invariants of the `arrays` run. `Sized` says
what the scan of `Size_Terminated` has passed, now and at the call; `Filling` that
the strings allocated so far are the newest of the heap, one for each entry of
the table, so that no two are shared (`Base`); `Sourced` that a table built
earlier still holds copies of its strings while C leaves it alone. The proof
of `ReadsExact` failed at first for a good reason: an array with more than
`Integer'Last` entries before its null makes the count of `Size_Terminated`
overflow, so that even `Index_Terminated (Pointer, 0)` raises `Constraint_Error`.
`TooMany` names that case, and the `arrays` run has arrays that reach it.

`CpuIdX86Proofs` proves, for any number of descriptor sets, any phase of their
cycle and any descriptors, all three invariants of the `cpuid` run. `Ahead(k)`
is how many executions of `cpuid (2)` pass before set `k` comes; `Behind` says
that every set that is not among the `left` next ones has been searched and does
not match, so that a search that ends without a match has seen the whole cycle,
wherever it began. `Sizes` says what is known of each level that is done, and
`Line` that the line is of the last level found. What the tables hold enters only
through `TableFacts`: descriptors are above 5 and sizes above 0.

`InstallSidsProofs` proves, for any accounts, any heap and any number of items
and failures, `TypeCorrect` and all four safety invariants of the `identities` run:
`AssertsHoldHolds`, `PointersOwnedHolds`, `OwnerInstalledHolds` and
`LeaksBoundedHolds`. `Owned` says that no two variables share a block and that
no variable's block is free, but for the group that could not be copied; the
lemmas on the heap (`TakeOwned`, `LoseOwned`, `FreeOwned`) say what an
allocation and a free do to it. `LeaksBounded` counts: `Lost` are the live blocks
that no variable refers to, and `Leaking` bounds them by what the links and
failures so far allow, at every point of an item (`Allowance`); `Scoped` says which
variables are in use there, so that what falls out of use is counted once.
`Holding` says which variables are assigned at
each point and what they hold, which is what the assertions ahead ask for, and
`Installing` that a copy belongs to the process, or to whom the temporary file it
found belonged, until its owner is set.

`FileCopyProofs` proves, for any paths, file systems and calls, any number of
failing system calls and kills: `CopyTypeCorrect`, `NoLeftoverHolds`, and
`Refinement` to `FileReplace`. `Stages` says which of the wishes (contents, mode,
owner) the temporary file meets at each point of a call; it is what makes
`Rename` the abstract step. `Leftovers` is needed because a call may find a
temporary file: it is the user's, or already its owner's, so that the call ends
with the right owner although it changes the owner only if it is not the
process's. The assumptions on names are those of `snprintf` (a name that is cut
becomes the destination itself) and that a destination keeps its owner from one
call to the next (`JobsAssumption`).

`InstallerProofs` proves, for any list of items whose places are apart, any file
systems and any number of runs, failing calls and kills, `TypeCorrect`,
`CheckSoundHolds` and `CopiedOrReportedHolds`. The proof rests on the invariant of
`FileCopyProofs`, which every step of the drivers keeps (`DriverWrites`): they
write no temporary name. `Landed(j)` is what a call leaves behind; `CopiesMade`
says it of every item the installer has passed without reporting it, and is
inductive because no later item writes the place or the source of an earlier
one. `Checked` is the same for `instchk`, which changes nothing. The assumptions:
`ListAssumption` (the items are such as `insthier.c` can state) and
`PlacesAssumption` (the places of the list are apart from each other and from the
sources, as they are for a build directory that is not the destination; two items
may name one place if they ask for the same file). `CopiedOrReported` needs two
conditions that the proof brought out: the program must be where it started
(`cwd = Home`), and the name must leave room for `".tmp"` (`Short`), because
`install_file_copy` of a longer one writes over its destination, which keeps the
owner it had, and ends well.

`RecoversHolds` and `DeinstallsAllHolds` need more of the list, which `Orderly`
states: a directory is made step by step from one that is there and is no item;
a file or link comes after its directory; what the list calls a directory is not
also a file or link, in the list or in the trees; sources are files the list does
not write; two copies share a temporary name only if they share the place.
`insthier.c` is such a list: its five directories come first, and every other
item goes to one of them. `DeinstallsAllHolds` also needs `Private`: nothing but
later items of the list lies in a directory of it, as with the directories of
`conf-incdir` to `conf-repos`, which are the package's own (`rmdir` keeps a
directory that others use, and the item is reported). `ListInstance` in
`MCInstaller` has TLC evaluate both hypotheses for the instance. The argument goes
through `PathChange`, which says of every path a step can change who
changes it and to what; from it `Kinds` (what is a directory, a file, a link or
nothing) is inductive. `Temporary` says that no temporary file outlives its call
in a run that nothing disturbs, unless the run found it; `Unread` that one the
owner cannot write has the mode its file asks for; `Calling` that an undisturbed
call fails only for an owner it may not set or for such a temporary file; `Paved`
how far `install_rmkdir` has come; `Repaired` that every item passed is `Served`.
For the deinstaller `Contained` says where the contents of a directory are in the
list, and `Gone` that everything beyond the index is removed. `Recovers` is stated
for names that leave room for `".tmp"`, as `CopiedOrReported` is.

Liveness under fairness is outside what the prover handles, so `CallsEnd`,
`EveryLockerEnds`, `CopyEnds`, `RunEnds` and `EveryRunEnds` are model-checked only.
What they rest on apart from fairness is a matter of single steps and is proved
for every value of the constants: no call, locker, copy or run can go on for ever,
because each of its steps leaves less to do and nobody else's adds to it. What
remains for TLC is that one that has not ended, and does not wait, can always
take its next step.

* `CallBounded`: `StepsLeft(n)` of a call on `n` cells is at most `2n + 4`, every
  step of the call makes it smaller, and a write by C leaves it as it is: two
  passes over the block, whether the call is legal or not. `InBlock` says that
  the loop parameter has passed nothing but cells of the block.
* `LockersAdvance`: a locker's `Distance` is the pair of the calls of `main` to
  come and of the arguments, or the steps of its child, that are left. Every step
  but `Clean` makes one locker's smaller in the order `Nearer`, which is well
  founded (`NearerIsWellFounded`), and leaves the others' alone; and a locker that
  finds the lock taken waits for one in `Holding` (`WaitsForHolder`), never for
  one that waits itself.
* `RunsBounded` of `SdRunProofs`: `HoldersInside` is inductive and says that each of
  the locks is held only by a run inside the command under it. No run
  holds one lock while it waits for another, so there is no circle of runs that
  wait, although a program is built and executed under different locks. Apart from
  starts and cleanings every step takes one run to a later one of its 29 commands,
  or is a signal to an `sd-locker`, which leaves its run where it is, or a step of
  what a signal left behind.
* `CopyBounded`: the system calls of `install_file_copy` are made once each, the
  failing ones included, and the cleaning up leads nowhere but out.
* `RunsBounded` of `InstallerProofs`: what is `Left` of a run is a triple of items,
  whether the present one has been begun, and its calls or directories. It becomes
  smaller in a well-founded order with every step of the three programs, in
  particular for the deinstaller, whose unsigned index runs down to 0.

## 6. Not modelled

Left out of what is modelled, and why:

* system detection: two support programs stand for the two kinds there are, since
  each program has a lock and a file of its own, and programs of a kind have the
  same steps; `sd-cpuidx86`, which is compiled after the header, is among those
  compiled before it; a signal to the script's shell alone, whose commands go on
  under their locks; the cross-compilation branch, the
  exported variables and `SDM_fetch_adaversion`, which nobody calls, have no
  shared state;
* module execution: the kinds of search are one step, since they differ in what
  they try and not in what they leave; `sysdeps.out`, one line of each module,
  that nobody reads back;
* `sd-cpuidx86`: how registers are read, and the debugging output; a processor
  that answers `cpuid (2)` with a count of sets it does not have; a process that
  moves to another processor between two executions. The leaf is asked for
  without a test of the highest one, as in the code, and the second-level size
  of AMD is taken as the code does;
* identities: the conversion of identifiers to and from text, and what happens
  after a block has been freed twice;
* installer: messages, groups, `errno` texts.

Hazards known and without a property: `sd-compile` of `sd-locker` itself and the
messages of `sysdep-system` (no state); an installer whose name for a temporary
file is cut to the destination's own (the `filecopy` run has such a call, and
`ImplementsReplace` leaves its destination out); memory that an allocation
failure in the middle of a conversion loses (`c_string-arrays.adb:252`).

Not planned: the other probes, the generators and compile wrappers,
`c_string-conf` and the unit tests, which are sequential and stateless; for
Win32, the calls that differ from POSIX only in their names.
