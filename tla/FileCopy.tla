----------------------------- MODULE FileCopy ------------------------------
(***************************************************************************)
(* install_file_copy (install-core.c), one action per system call: the     *)
(* source is copied to "<dst>.tmp", which gets its mode and owner and is   *)
(* then renamed.  Any call may fail and the process may die at any point.  *)
(***************************************************************************)
EXTENDS InstallFS, Integers

CONSTANTS Jobs,       \* the arguments install_file_copy is called with
          Trees,      \* the file systems a program may find
          MaxFaults,  \* bound: failing system calls
          MaxKills    \* bound: kills

ASSUME JobsAssumption ==
  \A j \in Jobs :
    /\ j \in [src : Short, dst : Targets, uid : Uids, mode : Modes]
    \* a destination keeps its owner (a temporary file that is found keeps its
    \* own), and no two destinations share a temporary name
    /\ \A k \in Jobs : TmpOf[j.dst] = TmpOf[k.dst] => j.uid = k.uid
ASSUME TreesAssumption ==
  \A t \in Trees :
    /\ t \in [Paths -> Nodes]
    /\ \A p \in Temps : t[p] = Absent
    /\ \A j \in Jobs : t[j.src].kind \in {"none", "file"}
ASSUME CopyBounds == MaxFaults \in Nat /\ MaxKills \in Nat

VARIABLES fs,       \* path |-> what it names
          root,     \* whether can_set_ownership (process_uid) holds
          job,      \* src, dst, uid and mode of the call
          at,       \* the next system call; "idle" outside
          streams,  \* fd_src and fd_dst: "none", "open" or "closed"
          status,   \* "running", or how the last call ended
          left,     \* history: temporary names a kill or a failing unlink
                    \* may have left behind
          faults, kills

cvars == <<fs, root, job, at, streams, status, left, faults, kills>>

Points == {"open_src", "open_tmp", "copy", "flush", "set_mode", "set_owner",
           "close_dst", "close_src", "rename", "err"}
NoStreams == [src |-> "none", dst |-> "none"]

CopyInit ==
  /\ fs \in Trees /\ root \in BOOLEAN /\ job \in Jobs
  /\ at = "idle" /\ streams = NoStreams /\ status = "ok" /\ left = {}
  /\ faults = 0 /\ kills = 0

\* Seeded fault: the destination is written in place.
DstTmpInPlace == job.dst

DstTmp == TmpOf[job.dst]

\* The system call a step makes fails, or succeeds.
Fault == faults < MaxFaults /\ faults' = faults + 1
NoFault == UNCHANGED faults

Goto(next) == at' = next /\ UNCHANGED <<root, job, kills>>

\* Return from the call.
Return(s) ==
  /\ status' = s /\ streams' = NoStreams
  /\ Goto("idle")

----------------------------------------------------------------------------
Call(j) ==
  /\ at = "idle"
  /\ job' = j /\ status' = "running" /\ at' = "open_src"
  /\ UNCHANGED <<fs, root, streams, left, faults, kills>>

OpenSrc ==
  /\ at = "open_src" /\ fs[job.src].kind = "file" /\ NoFault
  /\ streams' = [streams EXCEPT !.src = "open"]
  /\ Goto("open_tmp")
  /\ UNCHANGED <<fs, status, left>>

\* No user ID, no name, or no source: return without cleaning up.
OpenSrcFails ==
  /\ at = "open_src"
  /\ Fault \/ (fs[job.src].kind # "file" /\ NoFault)
  /\ Return("error")
  /\ UNCHANGED <<fs, left>>

\* Seeded fault: the temporary file is opened exclusively.
CanOpenTmpExclusive == fs[DirOf[DstTmp]].kind = "dir" /\ fs[DstTmp].kind = "none"

\* A file that is there must be writable: a kill between chmod and rename can
\* leave one that is not, and ERR then unlinks it.
CanOpenTmp ==
  /\ fs[DirOf[DstTmp]].kind = "dir"
  /\ \/ fs[DstTmp].kind = "none"
     \/ fs[DstTmp].kind = "file" /\ (root \/ fs[DstTmp].mode \in Writable)

\* "wb" truncates an existing file, which keeps its mode and owner.
OpenTmp ==
  /\ at = "open_tmp" /\ CanOpenTmp /\ NoFault
  /\ fs' = [fs EXCEPT ![DstTmp] =
              IF @.kind = "file" THEN File(Partial, @.mode, @.owner)
              ELSE File(Partial, Created, Self)]
  /\ streams' = [streams EXCEPT !.dst = "open"]
  /\ Goto("copy")
  /\ UNCHANGED <<status, left>>

OpenTmpFails ==
  /\ at = "open_tmp"
  /\ Fault \/ (~CanOpenTmp /\ NoFault)
  /\ Goto("err")
  /\ UNCHANGED <<fs, streams, status, left>>

\* Seeded fault: fread returns 0 for ever.
CopyStuck == at = "copy" /\ UNCHANGED cvars

\* The loop of fread and fwrite, up to the end of the source.
Copy ==
  /\ at = "copy" /\ NoFault
  /\ Goto("flush")
  /\ UNCHANGED <<fs, streams, status, left>>

\* What stdio still held reaches the file.
Flush ==
  /\ at = "flush" /\ NoFault
  /\ fs' = [fs EXCEPT ![DstTmp].data = fs[job.src].data]
  /\ Goto("set_mode")
  /\ UNCHANGED <<streams, status, left>>

\* Seeded fault: the mode of the structure is not assigned.
SetModeUnassigned ==
  /\ at = "set_mode" /\ NoFault
  /\ fs' = [fs EXCEPT ![DstTmp].mode = None]
  /\ Goto("set_owner")
  /\ UNCHANGED <<streams, status, left>>

SetMode ==
  /\ at = "set_mode" /\ NoFault
  /\ fs' = [fs EXCEPT ![DstTmp].mode = job.mode]
  /\ Goto("set_owner")
  /\ UNCHANGED <<streams, status, left>>

\* want_change_owner
Foreign == job.uid # Self

\* chown sets the group with the owner, and not at all if the owner is the
\* process's; groups are not modelled.
SetOwner ==
  /\ at = "set_owner" /\ (Foreign => root) /\ NoFault
  /\ fs' = IF Foreign THEN [fs EXCEPT ![DstTmp].owner = job.uid] ELSE fs
  /\ Goto("close_dst")
  /\ UNCHANGED <<streams, status, left>>

\* An unprivileged user may not want another owner.
SetOwnerFails ==
  /\ at = "set_owner" /\ Foreign
  /\ Fault \/ (~root /\ NoFault)
  /\ Goto("err")
  /\ UNCHANGED <<fs, streams, status, left>>

\* A stream is closed whether fclose succeeds or not.
CloseDst ==
  /\ at = "close_dst"
  /\ (NoFault /\ Goto("close_src")) \/ (Fault /\ Goto("err"))
  /\ streams' = [streams EXCEPT !.dst = "closed"]
  /\ UNCHANGED <<fs, status, left>>

CloseSrc ==
  /\ at = "close_src"
  /\ (NoFault /\ Goto("rename")) \/ (Fault /\ Goto("err"))
  /\ streams' = [streams EXCEPT !.src = "closed"]
  /\ UNCHANGED <<fs, status, left>>

Rename ==
  /\ at = "rename" /\ fs[job.dst].kind # "dir" /\ NoFault
  /\ fs' = [fs EXCEPT ![DstTmp] = Absent, ![job.dst] = fs[DstTmp]]
  /\ left' = left \ {DstTmp}
  /\ Return("ok")

RenameFails ==
  /\ at = "rename"
  /\ Fault \/ (fs[job.dst].kind = "dir" /\ NoFault)
  /\ Goto("err")
  /\ UNCHANGED <<fs, streams, status, left>>

\* A read, a write, fflush or chmod fails.
WriteFails ==
  /\ at \in {"copy", "flush", "set_mode"} /\ Fault
  /\ Goto("err")
  /\ UNCHANGED <<fs, streams, status, left>>

\* Seeded fault: the temporary file stays.
CleanUpForgets ==
  /\ at = "err" /\ NoFault
  /\ UNCHANGED <<fs, left>>
  /\ Return("error")

\* ERR: both streams are closed (again), the temporary file is unlinked and
\* what unlink says is ignored.
CleanUp ==
  /\ at = "err"
  /\ \/ /\ fs[DstTmp].kind \in {"none", "file"} /\ NoFault
        /\ fs' = [fs EXCEPT ![DstTmp] = Absent]
        /\ left' = left \ {DstTmp}
     \/ /\ Fault \/ (fs[DstTmp].kind \notin {"none", "file"} /\ NoFault)
        /\ left' = left \union {DstTmp}
        /\ UNCHANGED fs
  /\ Return("error")

\* Closing a stream a second time is undefined: it passes, as in CleanUp, or
\* the C library aborts the process.
Abort ==
  /\ at = "err" /\ "closed" \in {streams.src, streams.dst}
  /\ left' = left \union {DstTmp}
  /\ Return("killed") /\ UNCHANGED <<fs, faults>>

Kill ==
  /\ at \in Points /\ kills < MaxKills /\ kills' = kills + 1
  /\ left' = left \union {DstTmp}
  /\ status' = "killed" /\ streams' = NoStreams /\ at' = "idle"
  /\ UNCHANGED <<fs, root, job, faults>>

CopyStep ==
  \/ OpenSrc \/ OpenSrcFails \/ OpenTmp \/ OpenTmpFails \/ Copy \/ Flush
  \/ SetMode \/ SetOwner \/ SetOwnerFails \/ CloseDst \/ CloseSrc
  \/ Rename \/ RenameFails \/ WriteFails \/ CleanUp \/ Abort

CopyNext == CopyStep \/ Kill \/ \E j \in Jobs : Call(j)

CopySpec == CopyInit /\ [][CopyNext]_cvars

\* A process that is not killed makes its next system call.
FairCopySpec == CopySpec /\ WF_cvars(CopyStep)

----------------------------------------------------------------------------
(* Properties.                                                             *)

\* Every variable keeps its type: in particular no file has a mode or an owner
\* nobody gave it.
CopyTypeOK ==
  /\ fs \in [Paths -> Nodes] /\ root \in BOOLEAN /\ job \in Jobs
  /\ at \in Points \union {"idle"}
  /\ streams \in [src : {"none", "open", "closed"},
                  dst : {"none", "open", "closed"}]
  /\ status \in {"running", "ok", "error", "killed"}
  /\ left \subseteq Paths
  /\ faults \in 0 .. MaxFaults /\ kills \in 0 .. MaxKills

\* A temporary file (install-core.c:179) exists only during the call that
\* makes it, unless a kill, or an unlink that failed (install-core.c:268), left
\* it behind.
NoLeftover ==
  \A p \in Temps :
    fs[p] # Absent => p \in left \/ (at # "idle" /\ p = DstTmp)

\* install_file_copy replaces a file in one step, with the source's contents
\* and the mode and owner asked for, or leaves it alone, whatever call fails
\* and whenever the process dies, also when it finds a temporary file of an
\* earlier run (install-core.c:189).
Replace == INSTANCE FileReplace WITH files <- [p \in Short |-> fs[p]]
ImplementsReplace == Replace!RSpec

\* A call returns or dies.
CopyEnds == (at # "idle") ~> (at = "idle")
============================================================================
