--------------------------- MODULE FileCopyProofs ---------------------------
(***************************************************************************)
(* Proofs about FileCopy, for any file systems, any set of jobs and any    *)
(* number of failing calls and kills.                                      *)
(***************************************************************************)
EXTENDS FileCopy, TLAPS

\* Where the temporary file is open, complete, has its mode, has its owner.
Owned == {"close_dst", "close_src", "rename"}
Moded == {"set_owner"} \union Owned
Filled == {"set_mode"} \union Moded
Working == {"copy", "flush"} \union Filled

\* The temporary file meets the call's wishes one after the other.
Stages ==
  /\ at = "idle" <=> status # "running"
  /\ at \in Working \union {"open_tmp"} => fs[job.src].kind = "file"
  /\ at \in Working => fs[DstTmp].kind = "file"
  /\ at \in Filled => fs[DstTmp].data = fs[job.src].data
  /\ at \in Moded => fs[DstTmp].mode = job.mode
  /\ at \in Owned /\ job.dst \in Short => fs[DstTmp].owner = job.uid

\* A temporary name that is in use names a file of the user's, or of the owner
\* its destination wants; a kill or a failed unlink left it, or this call made it.
Leftovers ==
  \A p \in Temps : fs[p] # Absent =>
    /\ fs[p].kind = "file"
    /\ \A j \in Jobs : TmpOf[j.dst] = p => fs[p].owner \in {Self, j.uid}
    /\ p \in left \/ (at \in Working \union {"err"} /\ p = DstTmp)

CopyInv == CopyTypeOK /\ Stages /\ Leftovers

----------------------------------------------------------------------------
LEMMA FileFields ==
  ASSUME NEW n \in Nodes, n.kind = "file"
  PROVE  /\ n = File(n.data, n.mode, n.owner)
         /\ n.data \in Contents \union {Partial}
         /\ n.mode \in Modes /\ n.owner \in Uids
  <1>1. n \in Files
    BY DEF Nodes, Absent, Directory, Symlink, Node
  <1>2. PICK d \in Contents \union {Partial}, m \in Modes, u \in Uids : n = File(d, m, u)
    BY <1>1 DEF Files
  <1> QED BY <1>2 DEF File, Node

LEMMA FilesAreNodes ==
  ASSUME NEW d \in Contents \union {Partial}, NEW m \in Modes, NEW u \in Uids
  PROVE  /\ File(d, m, u) \in Nodes /\ File(d, m, u) # Absent
         /\ File(d, m, u).kind = "file" /\ File(d, m, u).data = d
         /\ File(d, m, u).mode = m /\ File(d, m, u).owner = u
  BY DEF Nodes, Files, File, Node, Absent

\* A file that changes one field is a file.
LEMMA FieldSet ==
  ASSUME NEW n \in Nodes, n.kind = "file"
  PROVE  /\ \A d \in Contents \union {Partial} :
              [n EXCEPT !.data = d] = File(d, n.mode, n.owner)
         /\ \A m \in Modes : [n EXCEPT !.mode = m] = File(n.data, m, n.owner)
         /\ \A u \in Uids : [n EXCEPT !.owner = u] = File(n.data, n.mode, u)
  <1>1. PICK d, m, u : n = File(d, m, u)
    BY FileFields
  <1>2. n.data = d /\ n.mode = m /\ n.owner = u
    BY <1>1 DEF File, Node
  <1>3. ASSUME NEW x
        PROVE  /\ [n EXCEPT !.data = x] = File(x, m, u)
               /\ [n EXCEPT !.mode = x] = File(d, x, u)
               /\ [n EXCEPT !.owner = x] = File(d, m, x)
    BY <1>1 DEF File, Node
  <1> QED BY <1>2, <1>3

LEMMA AbsentIsNone ==
  /\ Absent \in Nodes /\ Absent.kind = "none"
  /\ \A n \in Nodes : n.kind = "none" => n = Absent
  BY DEF Nodes, Files, File, Node, Absent, Directory, Symlink

\* A temporary name is neither a source nor a destination with a temporary name.
LEMMA TmpNames ==
  ASSUME NEW j \in Jobs
  PROVE  /\ j.src \in Short /\ j.dst \in Targets /\ j.uid \in Uids /\ j.mode \in Modes
         /\ TmpOf[j.dst] \in Paths /\ TmpOf[j.dst] \notin Short
         /\ j.dst \in Short => TmpOf[j.dst] \in Temps
         /\ j.dst \notin Short => TmpOf[j.dst] = j.dst
         /\ j.dst \notin Temps /\ Short \subseteq Paths /\ Targets \subseteq Paths
         /\ Temps \subseteq Paths /\ (j.dst \notin Short => TmpOf[j.dst] \notin Temps)
  <1>1. j.src \in Short /\ j.dst \in Targets /\ j.uid \in Uids /\ j.mode \in Modes
    BY JobsAssumption
  <1>2. Short \subseteq Targets /\ Targets \subseteq Paths
    BY PathAssumption DEF Short
  <1>3. \A p \in Targets : TmpOf[p] \in Paths
    BY <1>2, PathAssumption
  <1>4. TmpOf[j.dst] \notin Short
    BY <1>1, TmpAssumption DEF Short
  <1>5. Temps \subseteq Paths /\ \A p \in Targets : p \notin Temps
    BY <1>2, <1>3 DEF Temps, Short
  <1>6. j.dst \in Short => TmpOf[j.dst] \in Temps
    BY DEF Temps
  <1>7. j.dst \notin Short => TmpOf[j.dst] = j.dst
    BY <1>1, TmpAssumption
  <1> QED BY <1>1, <1>2, <1>3, <1>4, <1>5, <1>6, <1>7

\* A step that writes one temporary file, or none.
Writes(n) == fs' = [fs EXCEPT ![DstTmp] = n]

LEMMA InitCopyInv == CopyInit => CopyInv
  <1> SUFFICES ASSUME CopyInit PROVE CopyInv
    OBVIOUS
  <1>1. CopyTypeOK
    BY TreesAssumption, CopyBounds DEF CopyInit, CopyTypeOK, NoStreams
  <1>2. Stages
    BY DEF CopyInit, Stages, Working, Filled, Moded, Owned
  <1>3. Leftovers
    BY TreesAssumption DEF CopyInit, Leftovers
  <1> QED BY <1>1, <1>2, <1>3 DEF CopyInv

LEMMA TypeStep == CopyInv /\ [CopyNext]_cvars => CopyTypeOK'
  <1> SUFFICES ASSUME CopyInv, [CopyNext]_cvars PROVE CopyTypeOK'
    OBVIOUS
  <1> USE CopyBounds DEF CopyInv, CopyTypeOK, Points, NoStreams, Goto, Return, NoFault
  <1>0. /\ job.src \in Short /\ job.dst \in Paths /\ job.uid \in Uids /\ job.mode \in Modes
        /\ DstTmp \in Paths /\ job.src \in Paths
    BY TmpNames DEF DstTmp
  <1>1. Fault => faults' \in 0 .. MaxFaults
    BY DEF Fault
  <1> HIDE DEF Fault
  <1>2. ASSUME NEW n \in Nodes, Writes(n) PROVE fs' \in [Paths -> Nodes]
    BY <1>2 DEF Writes
  <1>3. CASE OpenTmp
    <2>1. /\ Partial \in Contents \union {Partial}
          /\ File(Partial, Created, Self) \in Nodes
      BY FileAssumption, FilesAreNodes
    <2>2. fs[DstTmp].kind = "file" =>
            File(Partial, fs[DstTmp].mode, fs[DstTmp].owner) \in Nodes
      BY <1>0, FileFields, FilesAreNodes
    <2>3. fs' \in [Paths -> Nodes]
      BY <1>3, <2>1, <2>2 DEF OpenTmp
    <2> QED BY <1>3, <2>3 DEF OpenTmp
  <1>4. CASE Flush
    <2>1. fs[DstTmp].kind = "file" /\ fs[job.src].kind = "file"
      BY <1>4 DEF Flush, Stages, Working
    <2>2. fs[job.src].data \in Contents \union {Partial}
      BY <1>0, <2>1, FileFields
    <2>3. [fs[DstTmp] EXCEPT !.data = fs[job.src].data] \in Nodes
      BY <1>0, <2>1, <2>2, FieldSet, FileFields, FilesAreNodes
    <2>4. Writes([fs[DstTmp] EXCEPT !.data = fs[job.src].data])
      BY <1>4 DEF Flush, Writes
    <2> QED BY <1>2, <1>4, <2>3, <2>4 DEF Flush
  <1>5. CASE SetMode
    <2>1. fs[DstTmp].kind = "file"
      BY <1>5 DEF SetMode, Stages, Working, Filled
    <2>2. [fs[DstTmp] EXCEPT !.mode = job.mode] \in Nodes
      BY <1>0, <2>1, FieldSet, FileFields, FilesAreNodes
    <2>3. Writes([fs[DstTmp] EXCEPT !.mode = job.mode])
      BY <1>5 DEF SetMode, Writes
    <2> QED BY <1>2, <1>5, <2>2, <2>3 DEF SetMode
  <1>6. CASE SetOwner
    <2>1. fs[DstTmp].kind = "file"
      BY <1>6 DEF SetOwner, Stages, Working, Filled, Moded
    <2>2. [fs[DstTmp] EXCEPT !.owner = job.uid] \in Nodes
      BY <1>0, <2>1, FieldSet, FileFields, FilesAreNodes
    <2>3. Foreign => Writes([fs[DstTmp] EXCEPT !.owner = job.uid])
      BY <1>6 DEF SetOwner, Writes
    <2>4. ~Foreign => fs' = fs
      BY <1>6 DEF SetOwner
    <2> QED BY <1>2, <1>6, <2>2, <2>3, <2>4 DEF SetOwner
  <1>7. CASE Rename
    BY <1>0, <1>7, AbsentIsNone DEF Rename
  <1>8. CASE CleanUp
    BY <1>0, <1>1, <1>8, AbsentIsNone DEF CleanUp
  <1>9. CASE OpenSrc \/ OpenSrcFails \/ OpenTmpFails \/ Copy
    BY <1>1, <1>9 DEF OpenSrc, OpenSrcFails, OpenTmpFails, Copy
  <1>10. CASE SetOwnerFails \/ CloseDst \/ CloseSrc
    BY <1>1, <1>10 DEF SetOwnerFails, CloseDst, CloseSrc
  <1>11. CASE RenameFails \/ WriteFails \/ Abort
    BY <1>0, <1>1, <1>11 DEF RenameFails, WriteFails, Abort
  <1>12. CASE Kill
    BY <1>0, <1>12 DEF Kill
  <1>13. ASSUME NEW j \in Jobs, Call(j) PROVE CopyTypeOK'
    BY <1>13 DEF Call
  <1>14. CASE UNCHANGED cvars
    BY <1>14 DEF cvars
  <1> QED
    BY <1>3, <1>4, <1>5, <1>6, <1>7, <1>8, <1>9, <1>10, <1>11, <1>12, <1>13, <1>14
    DEF CopyNext, CopyStep

\* What a step writes: the temporary file's new value, and where it goes on.
LEMMA StagesStep == CopyInv /\ [CopyNext]_cvars => Stages'
  <1> SUFFICES ASSUME CopyInv, [CopyNext]_cvars PROVE Stages'
    OBVIOUS
  <1> USE DEF CopyInv, Stages, Working, Filled, Moded, Owned, Goto, Return, DstTmp
  <1>0. /\ job.src \in Short /\ job.src \in Paths /\ DstTmp \in Paths
        /\ DstTmp # job.src /\ fs[DstTmp] \in Nodes /\ fs[job.src] \in Nodes
        /\ fs \in [Paths -> Nodes] /\ job \in Jobs /\ job.mode \in Modes
        /\ job.uid \in Uids
    BY TmpNames DEF CopyTypeOK
  <1>1. ASSUME NEW n, Writes(n)
        PROVE  fs'[DstTmp] = n /\ fs'[job.src] = fs[job.src]
    BY <1>0, <1>1 DEF Writes
  <1>2. CASE OpenTmp
    <2>1. Writes(IF fs[DstTmp].kind = "file"
                 THEN File(Partial, fs[DstTmp].mode, fs[DstTmp].owner)
                 ELSE File(Partial, Created, Self))
      BY <1>2 DEF OpenTmp, Writes
    <2>2. fs'[DstTmp].kind = "file" /\ fs'[job.src] = fs[job.src]
      BY <1>1, <2>1 DEF File, Node
    <2> QED BY <1>2, <2>2 DEF OpenTmp
  <1>3. CASE Flush
    <2>1. Writes([fs[DstTmp] EXCEPT !.data = fs[job.src].data])
      BY <1>3 DEF Flush, Writes
    <2>2. fs[DstTmp].kind = "file" /\ fs[job.src].kind = "file"
      BY <1>3 DEF Flush
    <2>3. fs[job.src].data \in Contents \union {Partial}
      BY <1>0, <2>2, FileFields
    <2>4. fs'[DstTmp] = File(fs[job.src].data, fs[DstTmp].mode, fs[DstTmp].owner)
      BY <1>0, <1>1, <2>1, <2>2, <2>3, FieldSet
    <2>5. fs'[DstTmp].kind = "file" /\ fs'[DstTmp].data = fs'[job.src].data
      BY <1>1, <2>1, <2>4 DEF File, Node
    <2>6. fs'[job.src].kind = "file"
      BY <1>1, <2>1, <2>2
    <2> QED BY <1>3, <2>5, <2>6 DEF Flush
  <1>4. CASE SetMode
    <2>1. Writes([fs[DstTmp] EXCEPT !.mode = job.mode])
      BY <1>4 DEF SetMode, Writes
    <2>2. /\ fs[DstTmp].kind = "file" /\ fs[job.src].kind = "file"
          /\ fs[DstTmp].data = fs[job.src].data
      BY <1>4 DEF SetMode
    <2>3. fs'[DstTmp] = File(fs[DstTmp].data, job.mode, fs[DstTmp].owner)
      BY <1>0, <1>1, <2>1, <2>2, FieldSet
    <2>4. /\ fs'[DstTmp].kind = "file" /\ fs'[DstTmp].data = fs[DstTmp].data
          /\ fs'[DstTmp].mode = job.mode
      BY <2>3 DEF File, Node
    <2>5. fs'[job.src] = fs[job.src]
      BY <1>1, <2>1
    <2> QED BY <1>4, <2>2, <2>4, <2>5 DEF SetMode
  <1>5. CASE SetOwner
    <2>1. /\ fs[DstTmp].kind = "file" /\ fs[job.src].kind = "file"
          /\ fs[DstTmp].data = fs[job.src].data /\ fs[DstTmp].mode = job.mode
      BY <1>5 DEF SetOwner
    <2>2. CASE Foreign
      <3>1. Writes([fs[DstTmp] EXCEPT !.owner = job.uid])
        BY <1>5, <2>2 DEF SetOwner, Writes
      <3>2. fs'[DstTmp] = File(fs[DstTmp].data, fs[DstTmp].mode, job.uid)
        BY <1>0, <1>1, <2>1, <3>1, FieldSet
      <3>3. /\ fs'[DstTmp].kind = "file" /\ fs'[DstTmp].data = fs[DstTmp].data
            /\ fs'[DstTmp].mode = fs[DstTmp].mode /\ fs'[DstTmp].owner = job.uid
        BY <3>2 DEF File, Node
      <3>4. fs'[job.src] = fs[job.src]
        BY <1>1, <3>1
      <3> QED BY <1>5, <2>1, <3>3, <3>4 DEF SetOwner
    <2>3. CASE ~Foreign
      <3>1. job.dst \in Short => fs[DstTmp].owner = job.uid
        <4>1. SUFFICES ASSUME job.dst \in Short PROVE fs[DstTmp].owner = job.uid
          OBVIOUS
        <4>2. DstTmp \in Temps
          BY <1>0, <4>1, TmpNames
        <4>3. fs[DstTmp] # Absent
          BY <2>1, AbsentIsNone
        <4>4. fs[DstTmp].owner \in {Self, job.uid}
          BY <1>0, <4>2, <4>3 DEF Leftovers
        <4> QED BY <2>3, <4>4 DEF Foreign
      <3> QED BY <1>5, <2>1, <2>3, <3>1 DEF SetOwner
    <2> QED BY <2>2, <2>3
  <1>6. CASE OpenSrc \/ OpenSrcFails \/ OpenTmpFails \/ Copy
    BY <1>6 DEF OpenSrc, OpenSrcFails, OpenTmpFails, Copy
  <1>7. CASE SetOwnerFails \/ CloseDst \/ CloseSrc \/ RenameFails \/ WriteFails
    BY <1>7 DEF SetOwnerFails, CloseDst, CloseSrc, RenameFails, WriteFails
  <1>8. CASE Rename \/ CleanUp \/ Abort \/ Kill
    BY <1>8 DEF Rename, CleanUp, Abort, Kill
  <1>9. ASSUME NEW j \in Jobs, Call(j) PROVE Stages'
    BY <1>9 DEF Call
  <1>10. CASE UNCHANGED cvars
    BY <1>10 DEF cvars
  <1> QED
    BY <1>2, <1>3, <1>4, <1>5, <1>6, <1>7, <1>8, <1>9, <1>10 DEF CopyNext, CopyStep

\* Only the temporary file of the call is written, by steps that keep it a file
\* of an allowed owner, and only steps that stop working return.
LEMMA LeftoversStep == CopyInv /\ [CopyNext]_cvars => Leftovers'
  <1> SUFFICES ASSUME CopyInv, [CopyNext]_cvars, NEW p \in Temps, fs'[p] # Absent
      PROVE  /\ fs'[p].kind = "file"
             /\ \A j \in Jobs : TmpOf[j.dst] = p => fs'[p].owner \in {Self, j.uid}
             /\ p \in left' \/ (at' \in Working \union {"err"} /\ p = DstTmp')
    BY DEF Leftovers
  <1> USE DEF CopyInv, Leftovers, Goto, Return, DstTmp
  <1>0. /\ job \in Jobs /\ DstTmp \in Paths /\ p \in Paths /\ fs[DstTmp] \in Nodes
        /\ fs \in [Paths -> Nodes] /\ job.src \in Short /\ job.dst # p
        /\ job.uid \in Uids /\ job.mode \in Modes /\ job.src \in Paths
    BY TmpNames DEF CopyTypeOK
  <1>1. ASSUME NEW j \in Jobs, TmpOf[j.dst] = DstTmp PROVE j.uid = job.uid
    BY <1>0, <1>1, JobsAssumption
  <1>2. ASSUME NEW d, NEW m, NEW u \in {Self, job.uid}, Writes(File(d, m, u)),
               at' \in Working, UNCHANGED <<job, left>>, at \notin {"err", "idle"}
        PROVE  /\ fs'[p].kind = "file"
               /\ \A j \in Jobs : TmpOf[j.dst] = p => fs'[p].owner \in {Self, j.uid}
               /\ p \in left' \/ (at' \in Working \union {"err"} /\ p = DstTmp')
    <2>1. CASE p = DstTmp
      <3>1. fs'[p].kind = "file" /\ fs'[p].owner = u
        BY <1>0, <1>2, <2>1 DEF Writes, File, Node
      <3> QED BY <1>1, <1>2, <2>1, <3>1
    <2>2. CASE p # DstTmp
      <3>1. fs'[p] = fs[p]
        BY <1>0, <1>2, <2>2 DEF Writes
      <3> QED BY <1>2, <2>2, <3>1
    <2> QED BY <2>1, <2>2
  <1>3. DstTmp \in Temps /\ fs[DstTmp].kind = "file" => fs[DstTmp].owner \in {Self, job.uid}
    BY <1>0, AbsentIsNone
  <1>4. CASE DstTmp \notin Temps
    <2>1. fs'[p] = fs[p] /\ p # DstTmp
      BY <1>0, <1>4 DEF CopyNext, CopyStep, OpenSrc, OpenSrcFails, OpenTmp,
        OpenTmpFails, Copy, Flush, SetMode, SetOwner, SetOwnerFails, CloseDst,
        CloseSrc, Rename, RenameFails, WriteFails, CleanUp, Abort, Kill, Call, cvars
    <2>2. p \in left => p \in left'
      BY <1>0, <1>4 DEF CopyNext, CopyStep, OpenSrc, OpenSrcFails, OpenTmp,
        OpenTmpFails, Copy, Flush, SetMode, SetOwner, SetOwnerFails, CloseDst,
        CloseSrc, Rename, RenameFails, WriteFails, CleanUp, Abort, Kill, Call, cvars
    <2> QED BY <2>1, <2>2
  <1>5. CASE DstTmp \in Temps /\ OpenTmp
    <2>1. fs[DstTmp].kind = "file" =>
            Writes(File(Partial, fs[DstTmp].mode, fs[DstTmp].owner))
      BY <1>5 DEF OpenTmp, Writes
    <2>2. fs[DstTmp].kind # "file" => Writes(File(Partial, Created, Self))
      BY <1>5 DEF OpenTmp, Writes
    <2>3. at' \in Working /\ UNCHANGED <<job, left>> /\ at \notin {"err", "idle"}
      BY <1>5 DEF OpenTmp, Working
    <2> QED BY <1>2, <1>3, <1>5, <2>1, <2>2, <2>3
  <1>6. CASE DstTmp \in Temps /\ (Flush \/ SetMode \/ SetOwner)
    <2>1. fs[DstTmp].kind = "file" /\ fs[job.src].kind = "file"
      BY <1>6 DEF Flush, SetMode, SetOwner, Stages, Working, Filled, Moded
    <2>2. fs[job.src].data \in Contents \union {Partial}
      BY <1>0, <2>1, FileFields
    <2>3. Flush => Writes(File(fs[job.src].data, fs[DstTmp].mode, fs[DstTmp].owner))
      BY <1>0, <2>1, <2>2, FieldSet DEF Flush, Writes
    <2>4. SetMode => Writes(File(fs[DstTmp].data, job.mode, fs[DstTmp].owner))
      BY <1>0, <2>1, FieldSet DEF SetMode, Writes
    <2>5. SetOwner /\ Foreign => Writes(File(fs[DstTmp].data, fs[DstTmp].mode, job.uid))
      BY <1>0, <2>1, FieldSet DEF SetOwner, Writes
    <2>6. fs[DstTmp] = File(fs[DstTmp].data, fs[DstTmp].mode, fs[DstTmp].owner)
      BY <1>0, <2>1, FileFields
    <2>7. fs = [fs EXCEPT ![DstTmp] = fs[DstTmp]]
      BY <1>0
    <2>8. SetOwner /\ ~Foreign =>
            Writes(File(fs[DstTmp].data, fs[DstTmp].mode, fs[DstTmp].owner))
      BY <2>6, <2>7 DEF SetOwner, Writes
    <2>9. at' \in Working /\ UNCHANGED <<job, left>> /\ at \notin {"err", "idle"}
      BY <1>6 DEF Flush, SetMode, SetOwner, Working, Filled, Moded, Owned
    <2>10. fs[DstTmp].owner \in {Self, job.uid} /\ job.uid \in {Self, job.uid}
      BY <1>3, <1>6, <2>1
    <2> QED BY <1>2, <1>6, <2>3, <2>4, <2>5, <2>8, <2>9, <2>10
  <1>7. CASE DstTmp \in Temps /\ (Rename \/ CleanUp)
    <2>1. CASE p = DstTmp
      BY <1>0, <1>7, <2>1 DEF Rename, CleanUp
    <2>2. CASE p # DstTmp
      <3>1. fs'[p] = fs[p]
        BY <1>0, <1>7, <2>2 DEF Rename, CleanUp
      <3>2. p \in left => p \in left'
        BY <1>7, <2>2 DEF Rename, CleanUp
      <3> QED BY <2>2, <3>1, <3>2
    <2> QED BY <2>1, <2>2
  <1>8. CASE OpenSrc \/ OpenSrcFails \/ OpenTmpFails \/ Copy
    BY <1>8 DEF OpenSrc, OpenSrcFails, OpenTmpFails, Copy, Working, Filled, Moded, Owned
  <1>9. CASE SetOwnerFails \/ CloseDst \/ CloseSrc \/ RenameFails \/ WriteFails
    BY <1>9 DEF SetOwnerFails, CloseDst, CloseSrc, RenameFails, WriteFails,
      Working, Filled, Moded, Owned
  <1>10. CASE Abort \/ Kill
    BY <1>10 DEF Abort, Kill
  <1>11. ASSUME NEW j \in Jobs, Call(j)
        PROVE  /\ fs'[p].kind = "file"
               /\ \A k \in Jobs : TmpOf[k.dst] = p => fs'[p].owner \in {Self, k.uid}
               /\ p \in left' \/ (at' \in Working \union {"err"} /\ p = DstTmp')
    BY <1>11 DEF Call, Working, Filled, Moded, Owned
  <1>12. CASE UNCHANGED cvars
    BY <1>12 DEF cvars
  <1> QED
    BY <1>4, <1>5, <1>6, <1>7, <1>8, <1>9, <1>10, <1>11, <1>12 DEF CopyNext, CopyStep

THEOREM CopyInductive == CopySpec => []CopyInv
  <1>1. CopyInv /\ [CopyNext]_cvars => CopyInv'
    BY TypeStep, StagesStep, LeftoversStep DEF CopyInv
  <1> QED BY <1>1, InitCopyInv, PTL DEF CopySpec

\* Every variable keeps its type: no file gets a mode or an owner nobody gave it.
THEOREM CopyTypeCorrect == CopySpec => []CopyTypeOK
  BY CopyInductive, PTL DEF CopyInv

\* A temporary file (install-core.c:179) exists only during the call that makes
\* it, unless a kill or an unlink that failed left it behind.
THEOREM NoLeftoverHolds == CopySpec => []NoLeftover
  <1>1. CopyInv => NoLeftover
    BY DEF CopyInv, Leftovers, NoLeftover, Working, Filled, Moded, Owned
  <1> QED BY <1>1, CopyInductive, PTL

----------------------------------------------------------------------------
(* How long a call takes.                                                  *)

\* The steps a call may still make: each system call once, then the cleaning up.
CallsLeft(a) ==
  CASE a = "open_src" -> 10 [] a = "open_tmp" -> 9 [] a = "copy" -> 8
    [] a = "flush" -> 7 [] a = "set_mode" -> 6 [] a = "set_owner" -> 5
    [] a = "close_dst" -> 4 [] a = "close_src" -> 3 [] a = "rename" -> 2
    [] a = "err" -> 1 [] OTHER -> 0

LEMMA CallsLeftType == \A a : CallsLeft(a) \in 0 .. 10
  BY DEF CallsLeft

\* A step of a call leads to a later one, whether the system call fails or not:
\* none is tried again, and nothing leads back from the cleaning up.
LEMMA CopyStepShortens ==
  ASSUME CopyStep \/ Kill
  PROVE  CallsLeft(at') < CallsLeft(at)
  <1> USE DEF Goto, Return
  <1>1. /\ CallsLeft("open_src") = 10 /\ CallsLeft("open_tmp") = 9
        /\ CallsLeft("copy") = 8 /\ CallsLeft("flush") = 7
        /\ CallsLeft("set_mode") = 6 /\ CallsLeft("set_owner") = 5
        /\ CallsLeft("close_dst") = 4 /\ CallsLeft("close_src") = 3
        /\ CallsLeft("rename") = 2 /\ CallsLeft("err") = 1
        /\ CallsLeft("idle") = 0
    BY DEF CallsLeft
  <1>2. CASE OpenSrc BY <1>1, <1>2 DEF OpenSrc
  <1>3. CASE OpenSrcFails BY <1>1, <1>3 DEF OpenSrcFails
  <1>4. CASE OpenTmp \/ OpenTmpFails BY <1>1, <1>4 DEF OpenTmp, OpenTmpFails
  <1>5. CASE Copy \/ Flush \/ SetMode BY <1>1, <1>5 DEF Copy, Flush, SetMode
  <1>6. CASE SetOwner \/ SetOwnerFails BY <1>1, <1>6 DEF SetOwner, SetOwnerFails
  <1>7. CASE CloseDst \/ CloseSrc BY <1>1, <1>7 DEF CloseDst, CloseSrc
  <1>8. CASE Rename \/ RenameFails BY <1>1, <1>8 DEF Rename, RenameFails
  <1>9. CASE WriteFails BY <1>1, <1>9 DEF WriteFails
  <1>10. CASE CleanUp \/ Abort BY <1>1, <1>10 DEF CleanUp, Abort
  <1>11. CASE Kill BY <1>1, <1>11 DEF Kill, Points
  <1> QED BY <1>2, <1>3, <1>4, <1>5, <1>6, <1>7, <1>8, <1>9, <1>10, <1>11 DEF CopyStep

Shortens ==
  /\ CopyStep \/ Kill => CallsLeft(at') < CallsLeft(at)
  /\ ~(CopyStep \/ Kill) => CallsLeft(at) = 0

\* A call of install_file_copy returns or dies after at most ten of its system
\* calls, the loop of fread and fwrite counted as one, and no other call begins
\* before (CopyEnds is this together with fairness).
THEOREM CopyBounded == CopySpec => [][Shortens]_cvars
  <1>1. [CopyNext]_cvars => [Shortens]_cvars
    <2> SUFFICES ASSUME CopyNext PROVE Shortens
      OBVIOUS
    <2>1. ~(CopyStep \/ Kill) => CallsLeft(at) = 0
      BY DEF CopyNext, Call, CallsLeft
    <2> QED BY <2>1, CopyStepShortens DEF Shortens
  <1> QED BY <1>1, PTL DEF CopySpec

----------------------------------------------------------------------------
\* The abstract specification's file system is this one.
LEMMA SameNames ==
  /\ Replace!Short = Short /\ Replace!Nodes = Nodes
  /\ \A d, m, u : Replace!File(d, m, u) = File(d, m, u)
  BY DEF Replace!Short, Short, Replace!Nodes, Nodes, Replace!Files, Files,
    Replace!File, File, Replace!Node, Node, Replace!Absent, Absent,
    Replace!Directory, Directory, Replace!Symlink, Symlink

LEMMA InitMaps == CopyInit => Replace!RInit
  <1> SUFFICES ASSUME CopyInit PROVE Replace!RInit
    OBVIOUS
  <1>1. fs \in [Paths -> Nodes] /\ Short \subseteq Paths
    BY TreesAssumption, PathAssumption DEF CopyInit, Short
  <1>2. [p \in Short |-> fs[p]] \in [Short -> Nodes]
    BY <1>1
  <1> QED BY <1>2, SameNames DEF CopyInit, Replace!RInit

\* Of the destinations with a temporary name, only Rename changes one.
LEMMA StepMaps ==
  CopyInv /\ [CopyNext]_cvars =>
    [Replace!RCall \/ Replace!RSucceed \/ Replace!RFail]_Replace!rvars
  <1> SUFFICES ASSUME CopyInv, [CopyNext]_cvars
      PROVE [Replace!RCall \/ Replace!RSucceed \/ Replace!RFail]_Replace!rvars
    OBVIOUS
  <1> USE DEF CopyInv, Goto, Return
  <1>0. /\ job \in Jobs /\ fs \in [Paths -> Nodes] /\ Short \subseteq Paths
        /\ DstTmp \in Paths /\ DstTmp \notin Short /\ job.src \in Short
        /\ job.dst \in Paths /\ (job.dst \notin Short => DstTmp = job.dst)
    BY TmpNames DEF CopyTypeOK, DstTmp
  <1>1. ASSUME NEW n, fs' = [fs EXCEPT ![DstTmp] = n] \/ fs' = fs
        PROVE  [p \in Short |-> fs'[p]] = [p \in Short |-> fs[p]]
    BY <1>0, <1>1
  <1>2. CASE Rename
    <2>1. /\ fs[DstTmp].kind = "file" /\ fs[DstTmp].data = fs[job.src].data
          /\ fs[DstTmp].mode = job.mode
          /\ job.dst \in Short => fs[DstTmp].owner = job.uid
      BY <1>2 DEF Rename, Stages, Working, Filled, Moded, Owned
    <2>2. job.dst \in Short => fs[DstTmp] = File(fs[job.src].data, job.mode, job.uid)
      BY <1>0, <2>1, FileFields
    <2>3. job.dst \in Short =>
            [p \in Short |-> fs'[p]]
              = [[p \in Short |-> fs[p]] EXCEPT ![job.dst]
                   = File([p \in Short |-> fs[p]][job.src].data, job.mode, job.uid)]
      BY <1>0, <1>2, <2>2 DEF Rename
    <2>4. job.dst \notin Short => [p \in Short |-> fs'[p]] = [p \in Short |-> fs[p]]
      BY <1>0, <1>2 DEF Rename
    <2>5. status = "running" /\ status' = "ok" /\ UNCHANGED job
      BY <1>2 DEF Rename, Stages, CopyTypeOK
    <2>6. Replace!RSucceed
      BY <2>3, <2>4, <2>5, SameNames DEF Replace!RSucceed, Replace!Replacement
    <2> QED BY <2>6
  <1>3. CASE OpenSrcFails \/ CleanUp \/ Abort \/ Kill
    <2>1. fs' = [fs EXCEPT ![DstTmp] = Absent] \/ fs' = fs
      BY <1>3 DEF OpenSrcFails, CleanUp, Abort, Kill
    <2>2. status = "running" /\ status' \in {"error", "killed"} /\ UNCHANGED job
      BY <1>3 DEF OpenSrcFails, CleanUp, Abort, Kill, Stages, CopyTypeOK, Points
    <2>3. Replace!RFail
      BY <1>1, <2>1, <2>2 DEF Replace!RFail
    <2> QED BY <2>3
  <1>4. ASSUME NEW j \in Jobs, Call(j) PROVE Replace!RCall
    BY <1>4 DEF Call, Replace!RCall, Stages
  <1>5. CASE OpenTmp \/ Flush \/ SetMode \/ SetOwner
    <2>1. \E n : fs' = [fs EXCEPT ![DstTmp] = n] \/ fs' = fs
      BY <1>5 DEF OpenTmp, Flush, SetMode, SetOwner
    <2>2. UNCHANGED <<job, status>>
      BY <1>5 DEF OpenTmp, Flush, SetMode, SetOwner
    <2> QED BY <1>1, <2>1, <2>2 DEF Replace!rvars
  <1>6. CASE OpenSrc \/ OpenTmpFails \/ Copy \/ SetOwnerFails \/ CloseDst \/ CloseSrc
               \/ RenameFails \/ WriteFails \/ UNCHANGED cvars
    <2>1. UNCHANGED <<fs, job, status>>
      BY <1>6 DEF OpenSrc, OpenTmpFails, Copy, SetOwnerFails, CloseDst, CloseSrc,
        RenameFails, WriteFails, cvars
    <2> QED BY <2>1 DEF Replace!rvars
  <1> QED BY <1>2, <1>3, <1>4, <1>5, <1>6 DEF CopyNext, CopyStep

\* install_file_copy (install-core.c:151-272) replaces a file in one step and
\* completely or leaves it alone, whatever call fails and whenever it dies.
THEOREM Refinement == CopySpec => ImplementsReplace
  <1> QED
    BY CopyInductive, InitMaps, StepMaps, PTL
    DEF CopySpec, ImplementsReplace, Replace!RSpec
============================================================================
