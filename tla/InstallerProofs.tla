-------------------------- MODULE InstallerProofs --------------------------
(***************************************************************************)
(* Proofs about Installer, for any list of items whose places are apart,   *)
(* any file systems and any number of runs, failing calls and kills.       *)
(***************************************************************************)
EXTENDS Installer, FileCopyProofs, WellFoundedInduction

\* The drivers' variables keep their types; instchk counts no more failures
\* than it has seen items.
DriverTypes ==
  /\ program \in {"installer", "instchk", "deinstaller"} /\ dry \in BOOLEAN
  /\ phase \in {"done", "init", "item", "mkdir", "copy"}
  /\ index \in 0 .. Len(Items) + 1 /\ depth \in Nat /\ cwd \in Paths
  /\ reported \subseteq DOMAIN Items /\ failed \in Nat
  /\ exit \in {0, 1, None} /\ runs \in 0 .. MaxRuns
  /\ begun.faults \in 0 .. faults /\ begun.temps \subseteq Temps
  /\ IF program = "instchk" THEN failed < index ELSE failed = 0

\* Where a run can be: a call is under way only for the copy of an item.
Control ==
  /\ phase # "copy" => at = "idle"
  /\ phase \in {"mkdir", "copy"} =>
       program = "installer" /\ ~dry /\ index \in DOMAIN Items
  /\ phase = "mkdir" => Item.op = "mkdir"
  /\ phase = "copy" => Item.op \in Copies /\ job = JobOf(Item)
  /\ phase = "init" => failed = 0 /\ reported = {} /\ cwd = Home /\ index = 1
  /\ program # "deinstaller" => index # 0
  /\ phase # "done" => exit = None

\* No link stands for a directory of the list.
RealDirs ==
  \A n \in DOMAIN Items :
    Items[n].op = "mkdir" => fs[Items[n].dir].kind # "symlink"

\* What instchk has found so far.
Checked ==
  program = "instchk" /\ ((phase = "item" /\ failed = 0) \/ exit = 0) =>
    /\ failed = 0
    /\ \A n \in DOMAIN Items :
         n < index => Holds(Items[n]) \/ NeedsLookup(Items[n])

\* The file a call should leave, and the source it is made of.
Landed(j) ==
  /\ fs[j.src].kind = "file"
  /\ j.dst \in Short => fs[j.dst] = File(fs[j.src].data, j.mode, j.uid)

\* What the installer has copied so far.
Running == program = "installer" /\ ~dry /\ (phase \in {"item", "mkdir", "copy"} \/ exit # None)
CopiesMade ==
  Running /\ cwd = Home =>
    \A n \in DOMAIN Items :
      n < index /\ Items[n].op \in Copies /\ n \notin reported =>
        Landed(JobFrom(Home, Items[n]))
CopyMade == phase = "copy" /\ status = "ok" => Landed(job)

IInv ==
  CopyInv /\ DriverTypes /\ Control /\ RealDirs /\ Checked /\ CopiesMade /\ CopyMade

----------------------------------------------------------------------------
(* Items.                                                                  *)

LEMMA ItemsAre ==
  /\ Len(Items) \in Nat /\ Len(Items) # 0 /\ DOMAIN Items = 1 .. Len(Items)
  /\ \A n \in DOMAIN Items :
       /\ Items[n].op \in Copies \union Links \union {"mkdir"}
       /\ Items[n].src \in Names \union {None} /\ Items[n].dst \in Names \union {None}
       /\ Items[n].dir \in Paths /\ Items[n].owner \in Uids \union {None}
       /\ Items[n].mode \in Modes
  <1> DEFINE R == [op : Copies \union Links \union {"mkdir"},
                   src : Names \union {None}, dst : Names \union {None},
                   dir : Paths, owner : Uids \union {None}, mode : Modes]
  <1>1. Items \in Seq(R) /\ Items # <<>>
    BY ItemsAssumption
  <1>2. Len(Items) \in Nat /\ DOMAIN Items = 1 .. Len(Items) /\ Len(Items) # 0
    BY <1>1
  <1> HIDE DEF R
  <1>3. \A n \in DOMAIN Items : Items[n] \in R
    BY <1>1
  <1> USE DEF R
  <1> QED BY <1>2, <1>3

LEMMA ItemFacts ==
  ASSUME NEW n \in DOMAIN Items
  PROVE  /\ Place(Items[n]) \in Paths /\ Place(Items[n]) \in Targets
         /\ Place(Items[n]) \notin Temps /\ Owner(Items[n]) \in Uids
         /\ Items[n].op # "mkdir" =>
              \A d \in Paths : In[d][Source(Items[n])] \in Paths
         /\ Items[n].op = "mkdir" => Place(Items[n]) = Items[n].dir
         /\ Items[n].op \in Copies =>
              \A d \in Paths : JobFrom(d, Items[n]) \in Jobs
         /\ Chain[Items[n].dir] \in Seq(Targets)
  <1>1. Place(Items[n]) \in Paths /\ Place(Items[n]) \in Targets
        /\ Place(Items[n]) \notin Temps
    BY ListAssumption, PathAssumption DEF Temps, Short
  <1>2. Owner(Items[n]) \in Uids
    BY ItemsAre, FileAssumption DEF Owner
  <1>3. ASSUME Items[n].op # "mkdir", NEW d \in Paths
        PROVE  In[d][Source(Items[n])] \in Paths
    <2>1. Items[n].src \in Names
      BY <1>3, ListAssumption
    <2>2. Source(Items[n]) \in Names
      BY <2>1, NamesAssumption DEF Source
    <2>3. In[d] \in [Names -> Paths]
      BY NamesAssumption
    <2> QED BY <2>2, <2>3
  <1>4. Chain[Items[n].dir] \in Seq(Paths)
    BY ItemsAssumption
  <1>5. \A k \in DOMAIN Chain[Items[n].dir] : Chain[Items[n].dir][k] \in Targets
    BY ListAssumption
  <1>6. Chain[Items[n].dir] \in Seq(Targets)
    <2> DEFINE c == Chain[Items[n].dir]
    <2>1. c \in [1 .. Len(c) -> Targets] /\ Len(c) \in Nat
      BY <1>4, <1>5
    <2> HIDE DEF c
    <2>2. c \in Seq(Targets)
      BY <2>1
    <2> QED BY <2>2 DEF c
  <1>7. Items[n].op = "mkdir" => Place(Items[n]) = Items[n].dir
    BY DEF Place
  <1>8. Items[n].op \in Copies => \A d \in Paths : JobFrom(d, Items[n]) \in Jobs
    BY ListAssumption
  <1> QED BY <1>1, <1>2, <1>3, <1>6, <1>7, <1>8

----------------------------------------------------------------------------
(* Steps that are no part of a copy.                                       *)

\* A driver writes one of its own paths, at most.
LEMMA DriverWrites ==
  ASSUME CopyInv, at = "idle", Steady, faults' \in 0 .. MaxFaults,
         kills' \in 0 .. MaxKills,
         \/ fs' = fs
         \/ \E p \in Targets, x \in Nodes : fs' = [fs EXCEPT ![p] = x]
  PROVE  CopyInv'
  <1>1. \A p \in Temps : fs'[p] = fs[p]
    BY PathAssumption DEF Temps, Short, CopyInv, CopyTypeOK
  <1>2. CopyTypeOK'
    <2>1. fs' \in [Paths -> Nodes]
      BY PathAssumption DEF CopyInv, CopyTypeOK
    <2> QED BY <2>1 DEF CopyInv, CopyTypeOK, Steady
  <1>3. Stages'
    BY DEF CopyInv, Stages, Steady, Working, Filled, Moded, Owned
  <1>4. Leftovers'
    <2>1. UNCHANGED <<at, left, job>> /\ UNCHANGED DstTmp
      BY DEF Steady, DstTmp
    <2> QED BY <1>1, <2>1 DEF CopyInv, Leftovers, Working, Filled, Moded, Owned
  <1> QED BY <1>2, <1>3, <1>4 DEF CopyInv

LEMMA FaultCounts ==
  ASSUME CopyInv, Fault \/ NoFault
  PROVE  faults' \in 0 .. MaxFaults /\ faults' >= faults /\ faults \in Nat
  BY CopyBounds DEF CopyInv, CopyTypeOK, Fault, NoFault

\* The driver reports an item.
LEMMA Reported ==
  ASSUME IInv, phase \in {"item", "mkdir", "copy"}, index \in DOMAIN Items,
         NEW s, Report(s), at' = "idle", cwd' \in Paths,
         faults' \in Nat, faults' >= faults,
         failed' = failed \/ (program = "instchk" /\ failed' = failed + 1)
  PROVE  DriverTypes' /\ Control' /\ CopyMade'
  <1>1. index \in 1 .. Len(Items) /\ Len(Items) \in Nat
    BY ItemsAre
  <1>2. index' = IF program = "deinstaller" THEN index - 1 ELSE index + 1
    BY DEF Report, Following
  <1>3. /\ phase' = "item" /\ reported' \subseteq DOMAIN Items
        /\ UNCHANGED <<program, dry, begun, runs, depth, exit>>
    BY DEF Report, SameRun, IInv, DriverTypes
  <1>4. index' \in 0 .. Len(Items) + 1 /\ failed' \in Nat
        /\ (program = "instchk" => failed' < index')
        /\ (program # "deinstaller" => index' # 0)
    BY <1>1, <1>2 DEF IInv, DriverTypes
  <1>5. begun.faults \in 0 .. faults'
    BY DEF IInv, DriverTypes, CopyInv, CopyTypeOK
  <1>6. DriverTypes'
    BY <1>3, <1>4, <1>5 DEF IInv, DriverTypes
  <1>7. Control'
    BY <1>3, <1>4 DEF IInv, Control
  <1> QED BY <1>3, <1>6, <1>7 DEF CopyMade

\* What nobody writes stays.
LEMMA SameFiles ==
  ASSUME fs' = fs
  PROVE  /\ RealDirs => RealDirs'
         /\ \A i : Holds(i) => Holds(i)'
         /\ \A j : Landed(j) => Landed(j)'
  <1>1. \A p : Seen(p)' = Seen(p)
    BY DEF Seen
  <1>2. ASSUME NEW i, Holds(i) PROVE Holds(i)'
    BY <1>1, <1>2 DEF Holds
  <1>3. RealDirs => RealDirs'
    BY DEF RealDirs
  <1>4. \A j : Landed(j) => Landed(j)'
    BY DEF Landed
  <1> QED BY <1>2, <1>3, <1>4

\* A file that is put where there was none spoils no copy.
LEMMA LandedStays ==
  ASSUME CopyInv, NEW j \in Jobs, Landed(j), NEW p \in Paths, NEW x,
         fs' = [fs EXCEPT ![p] = x],
         fs[p] = Absent \/ (p # j.src /\ p # j.dst)
  PROVE  Landed(j)'
  <1>1. fs \in [Paths -> Nodes] /\ j.src \in Paths /\ j.dst \in Paths
    BY TmpNames DEF CopyInv, CopyTypeOK
  <1>2. fs[j.src] # Absent
    BY AbsentIsNone DEF Landed
  <1>3. j.dst \in Short => fs[j.dst] # Absent
    BY DEF Landed, File, Node, Absent
  <1>4. fs'[j.src] = fs[j.src] /\ (j.dst \in Short => fs'[j.dst] = fs[j.dst])
    BY <1>1, <1>2, <1>3
  <1> QED BY <1>4 DEF Landed

\* An item that is reported was copied, or something else.
LEMMA ReportedCopies ==
  ASSUME IInv, IInv => DriverTypes', index \in DOMAIN Items, phase \in {"item", "mkdir", "copy"},
         NEW s, Report(s), cwd' = Home => cwd = Home,
         \A n \in DOMAIN Items :
           program = "installer" /\ ~dry /\ cwd = Home /\ Items[n].op \in Copies =>
             ((n = index /\ s # "error") \/ Landed(JobFrom(Home, Items[n])) =>
                Landed(JobFrom(Home, Items[n]))')
  PROVE  CopiesMade'
  <1> SUFFICES ASSUME Running', cwd' = Home, NEW n \in DOMAIN Items,
                      n < index', Items[n].op \in Copies, n \notin reported'
               PROVE  Landed(JobFrom(Home, Items[n]))'
    BY DEF CopiesMade
  <1>1. program = "installer" /\ ~dry /\ cwd = Home /\ index' = index + 1
        /\ reported' = IF s = "error" THEN reported \union {index} ELSE reported
    BY DEF Running, Report, SameRun, Following
  <1>2. Running
    BY <1>1 DEF Running
  <1>3. n \notin reported /\ (n = index => s # "error")
    BY <1>1
  <1>4. n < index \/ n = index
    BY <1>1, ItemsAre
  <1>5. CASE n = index
    BY <1>1, <1>3, <1>5
  <1>6. CASE n < index
    <2>1. Landed(JobFrom(Home, Items[n]))
      BY <1>1, <1>2, <1>3, <1>6 DEF IInv, CopiesMade
    <2> QED BY <1>1, <2>1
  <1> QED BY <1>4, <1>5, <1>6

----------------------------------------------------------------------------
(* Of the copy's steps, only Rename writes the destination.                *)

LEMMA CopyWrites ==
  ASSUME CopyInv, CopyStep \/ Kill
  PROVE  /\ UNCHANGED job
         /\ \A p \in Paths : p # DstTmp /\ (~Rename \/ p # job.dst) => fs'[p] = fs[p]
         /\ faults' \in 0 .. MaxFaults /\ faults' >= faults
         /\ at # "idle" /\ status' = "ok" => Rename
  <1> USE DEF CopyInv, Goto, Return
  <1>0. fs \in [Paths -> Nodes] /\ DstTmp \in Paths /\ job.dst \in Paths
        /\ faults \in 0 .. MaxFaults /\ (at # "idle" => status # "ok")
    BY TmpNames DEF CopyTypeOK, DstTmp, Stages
  <1>1. UNCHANGED job
    BY DEF CopyStep, OpenSrc, OpenSrcFails, OpenTmp, OpenTmpFails, Copy, Flush,
      SetMode, SetOwner, SetOwnerFails, CloseDst, CloseSrc, Rename, RenameFails,
      WriteFails, CleanUp, Abort, Kill
  <1>2. ASSUME NEW p \in Paths, p # DstTmp, ~Rename \/ p # job.dst
        PROVE  fs'[p] = fs[p]
    <2>1. CASE Rename
      BY <1>0, <1>2, <2>1 DEF Rename
    <2>2. CASE ~Rename
      BY <1>0, <1>2, <2>2 DEF CopyStep, OpenSrc, OpenSrcFails, OpenTmp,
        OpenTmpFails, Copy, Flush, SetMode, SetOwner, SetOwnerFails, CloseDst,
        CloseSrc, RenameFails, WriteFails, CleanUp, Abort, Kill
    <2> QED BY <2>1, <2>2
  <1>3. Fault \/ NoFault \/ UNCHANGED faults
    BY DEF CopyStep, OpenSrc, OpenSrcFails, OpenTmp, OpenTmpFails, Copy, Flush,
      SetMode, SetOwner, SetOwnerFails, CloseDst, CloseSrc, Rename, RenameFails,
      WriteFails, CleanUp, Abort, Kill
  <1>4. faults' \in 0 .. MaxFaults /\ faults' >= faults
    BY <1>0, <1>3, CopyBounds DEF Fault, NoFault
  <1>5. at # "idle" /\ status' = "ok" => Rename
    BY <1>0 DEF CopyStep, OpenSrc, OpenSrcFails, OpenTmp, OpenTmpFails, Copy,
      Flush, SetMode, SetOwner, SetOwnerFails, CloseDst, CloseSrc, RenameFails,
      WriteFails, CleanUp, Abort, Kill
  <1> QED BY <1>1, <1>2, <1>4, <1>5

LEMMA RenameLands ==
  ASSUME CopyInv, Rename
  PROVE  Landed(job)'
  <1> USE DEF CopyInv
  <1>0. /\ fs \in [Paths -> Nodes] /\ job.src \in Paths /\ job.dst \in Paths
        /\ DstTmp \in Paths /\ DstTmp # job.src /\ UNCHANGED job
        /\ job.dst \in Short => DstTmp # job.dst
        /\ job.src \in Short
    BY TmpNames DEF CopyTypeOK, DstTmp, Rename, Return, Goto
  <1>1. /\ fs[job.src].kind = "file" /\ fs[DstTmp].kind = "file"
        /\ fs[DstTmp].data = fs[job.src].data /\ fs[DstTmp].mode = job.mode
        /\ job.dst \in Short => fs[DstTmp].owner = job.uid
    BY DEF Rename, Stages, Working, Filled, Moded, Owned
  <1>2. fs' = [fs EXCEPT ![DstTmp] = Absent, ![job.dst] = fs[DstTmp]]
    BY DEF Rename
  <1>3. fs'[job.dst] = fs[DstTmp]
    BY <1>0, <1>2
  <1>4. fs'[job.src].kind = "file" /\ fs'[job.src].data = fs[job.src].data
    <2>1. CASE job.src = job.dst
      BY <1>1, <1>3, <2>1
    <2>2. CASE job.src # job.dst
      <3>1. fs'[job.src] = fs[job.src]
        BY <1>0, <1>2, <2>2
      <3> QED BY <1>1, <3>1
    <2> QED BY <2>1, <2>2
  <1>5. job.dst \in Short => fs[DstTmp] = File(fs[job.src].data, job.mode, job.uid)
    BY <1>0, <1>1, FileFields
  <1> QED BY <1>0, <1>3, <1>4, <1>5 DEF Landed

\* What the copy of one item does to the copies of others.
LEMMA LandedAfterCopy ==
  ASSUME IInv, CopyStep \/ Kill, phase = "copy", cwd = Home,
         NEW n \in DOMAIN Items, Items[n].op \in Copies, n # index,
         Landed(JobFrom(Home, Items[n]))
  PROVE  Landed(JobFrom(Home, Items[n]))'
  <1> DEFINE j == JobFrom(Home, Items[n])
  <1>0. /\ index \in DOMAIN Items /\ Items[index].op \in Copies
        /\ job = JobFrom(Home, Items[index])
    BY DEF IInv, Control, Item, JobOf
  <1>1. /\ j \in Jobs /\ j.src = In[Home][Source(Items[n])] /\ j.dst = Place(Items[n])
        /\ job.dst = Place(Items[index])
    BY <1>0, ItemFacts, NamesAssumption DEF JobFrom
  <1>2. job \in Jobs /\ UNCHANGED job
    BY CopyWrites DEF IInv, CopyInv, CopyTypeOK
  <1>3. job.dst # j.src /\ (job.dst = j.dst => job = j)
    BY <1>0, <1>1, PlacesAssumption
  <1>4. /\ j.src \in Paths /\ DstTmp # j.src
        /\ j.dst \in Short => j.dst \in Paths /\ DstTmp # j.dst
    BY <1>1, <1>2, TmpNames DEF DstTmp
  <1> HIDE DEF j
  <1>5. fs'[j.src] = fs[j.src]
    BY <1>3, <1>4, CopyWrites DEF IInv
  <1>6. CASE Rename /\ job.dst = j.dst
    BY <1>2, <1>3, <1>6, RenameLands DEF IInv, j
  <1>7. CASE ~(Rename /\ job.dst = j.dst)
    <2>1. j.dst \in Short => fs'[j.dst] = fs[j.dst]
      BY <1>4, <1>7, CopyWrites DEF IInv
    <2>2. Landed(j)
      BY DEF j
    <2>3. Landed(j)'
      BY <1>5, <2>1, <2>2 DEF Landed, j
    <2> QED BY <2>3 DEF j
  <1> QED BY <1>6, <1>7


----------------------------------------------------------------------------
(* The steps.                                                              *)

LEMMA InitInv == InstallInit => IInv
  <1> SUFFICES ASSUME InstallInit PROVE IInv
    OBVIOUS
  <1>1. CopyInv
    BY InitCopyInv DEF InstallInit
  <1>2. DriverTypes
    <2>1. faults = 0 /\ 1 \in 0 .. Len(Items) + 1 /\ 1 \in Nat
      BY ItemsAre DEF InstallInit, CopyInit
    <2>2. begun.faults \in 0 .. faults /\ begun.temps \subseteq Temps
      BY <2>1 DEF InstallInit
    <2>3. runs \in 0 .. MaxRuns /\ failed \in Nat /\ depth \in Nat
      BY RunsBound DEF InstallInit
    <2>4. cwd \in Paths /\ reported \subseteq DOMAIN Items /\ exit \in {0, 1, None}
      BY NamesAssumption DEF InstallInit
    <2> QED BY <2>1, <2>2, <2>3, <2>4 DEF InstallInit, DriverTypes
  <1>3. Control
    BY DEF InstallInit, CopyInit, Control
  <1>4. RealDirs
    BY PlacesAssumption DEF InstallInit, CopyInit, RealDirs
  <1>5. Checked /\ CopiesMade /\ CopyMade
    BY ItemsAssumption DEF InstallInit, Checked, CopiesMade, CopyMade, Running
  <1> QED BY <1>1, <1>2, <1>3, <1>4, <1>5 DEF IInv

LEMMA CopyingInv ==
  ASSUME IInv, phase = "copy", CopyStep \/ Kill, UNCHANGED dvars
  PROVE  IInv'
  <1>0. /\ UNCHANGED <<job, program, dry, phase, index, depth, cwd, reported>>
        /\ UNCHANGED <<failed, exit, begun, runs>>
        /\ program = "installer" /\ ~dry /\ index \in DOMAIN Items
        /\ Item.op \in Copies /\ job = JobOf(Item)
    BY CopyWrites DEF dvars, IInv, Control
  <1>1. CopyInv'
    BY TypeStep, StagesStep, LeftoversStep DEF IInv, CopyInv, CopyNext
  <1>2. DriverTypes'
    BY <1>0, CopyWrites DEF IInv, DriverTypes, CopyInv, CopyTypeOK
  <1>3. Control'
    BY <1>0 DEF IInv, Control, Item, JobOf
  <1>4. RealDirs'
    <2> SUFFICES ASSUME NEW n \in DOMAIN Items, Items[n].op = "mkdir"
                 PROVE  fs'[Items[n].dir].kind # "symlink"
      BY DEF RealDirs
    <2>1. Items[n].dir \in Paths /\ Items[n].dir \in Targets /\ Items[n].dir \notin Temps
      BY ItemFacts, ItemsAre
    <2>2. job.dst = Place(Item) /\ job \in Jobs
      BY <1>0 DEF JobOf, JobFrom, IInv, CopyInv, CopyTypeOK
    <2>3. Items[n].dir # job.dst
      BY <1>0, <2>2, PlacesAssumption DEF Item
    <2>4. DstTmp \in Temps \/ DstTmp = job.dst
      BY <2>2, TmpNames DEF DstTmp
    <2>5. fs'[Items[n].dir] = fs[Items[n].dir]
      BY <2>1, <2>3, <2>4, CopyWrites DEF IInv
    <2> QED BY <2>5 DEF IInv, RealDirs
  <1>5. Checked'
    BY <1>0 DEF Checked
  <1>6. CopiesMade'
    <2> SUFFICES ASSUME cwd = Home, NEW n \in DOMAIN Items, n < index,
                        Items[n].op \in Copies, n \notin reported
                 PROVE  Landed(JobFrom(Home, Items[n]))'
      BY <1>0 DEF CopiesMade
    <2>1. Running
      BY <1>0 DEF Running
    <2>2. Landed(JobFrom(Home, Items[n]))
      BY <2>1 DEF IInv, CopiesMade
    <2>3. n # index
      BY ItemsAre, <1>0
    <2> QED BY <2>2, <2>3, LandedAfterCopy
  <1>7. CopyMade'
    <2> SUFFICES ASSUME status' = "ok" PROVE Landed(job)'
      BY DEF CopyMade
    <2>1. CASE Rename
      BY <2>1, RenameLands DEF IInv
    <2>2. CASE ~Rename
      <3>1. at = "idle"
        BY <2>2, CopyWrites DEF IInv
      <3> QED BY <3>1 DEF CopyStep, OpenSrc, OpenSrcFails, OpenTmp, OpenTmpFails,
            Copy, Flush, SetMode, SetOwner, SetOwnerFails, CloseDst, CloseSrc,
            Rename, RenameFails, WriteFails, CleanUp, Abort, Kill, Points
    <2> QED BY <2>1, <2>2
  <1> QED BY <1>1, <1>2, <1>3, <1>4, <1>5, <1>6, <1>7 DEF IInv

\* A step that leaves the files alone and reports nothing.
LEMMA QuietInv ==
  ASSUME IInv, DriverTypes', Control', fs' = fs, at = "idle", phase' # "copy",
         Steady \/ UNCHANGED <<root, job, at, streams, status, left>>,
         faults' \in 0 .. MaxFaults, kills' \in 0 .. MaxKills, Checked', CopiesMade'
  PROVE  IInv'
  <1>1. CopyInv'
    BY DriverWrites DEF IInv, Steady
  <1>2. RealDirs'
    BY SameFiles DEF IInv
  <1> QED BY <1>1, <1>2 DEF IInv, CopyMade

LEMMA StartInv ==
  ASSUME IInv, NEW p \in {"installer", "instchk", "deinstaller"}, NEW d \in BOOLEAN,
         Start(p, d)
  PROVE  IInv'
  <1>1. DriverTypes'
    <2>1. 1 \in 0 .. Len(Items) + 1 /\ 0 < 1 /\ 0 \in Nat
      BY ItemsAre
    <2>2. faults \in 0 .. faults /\ runs' \in 0 .. MaxRuns
      BY RunsBound DEF Start, IInv, DriverTypes, CopyInv, CopyTypeOK
    <2> QED BY <2>1, <2>2, NamesAssumption
            DEF Start, IInv, DriverTypes, cvars
  <1>2. Control'
    BY DEF Start, IInv, Control, cvars
  <1>3. Checked' /\ CopiesMade'
    <2>1. \A n \in DOMAIN Items : ~(n < 1)
      BY ItemsAre
    <2> QED BY <2>1 DEF Start, Checked, CopiesMade
  <1>4. faults' \in 0 .. MaxFaults /\ kills' \in 0 .. MaxKills
    BY DEF Start, cvars, IInv, CopyInv, CopyTypeOK
  <1> QED BY <1>1, <1>2, <1>3, <1>4, QuietInv DEF Start, cvars, IInv, Control

LEMMA InitFailsInv == ASSUME IInv, InitFails PROVE IInv'
  <1>0. faults' \in 0 .. MaxFaults /\ faults' >= faults /\ faults \in Nat
    BY FaultCounts DEF InitFails, IInv
  <1>1. DriverTypes'
    BY <1>0 DEF InitFails, SameRun, IInv, DriverTypes
  <1>2. Control'
    BY DEF InitFails, SameRun, Steady, IInv, Control
  <1>3. Checked' /\ CopiesMade'
    <2>1. index' = 1 /\ \A n \in DOMAIN Items : ~(n < 1)
      BY ItemsAre DEF InitFails, IInv, Control
    <2> QED BY <2>1 DEF InitFails, Checked, CopiesMade
  <1> QED BY <1>0, <1>1, <1>2, <1>3, QuietInv
          DEF InitFails, Steady, IInv, Control, CopyInv, CopyTypeOK

LEMMA InitSucceedsInv == ASSUME IInv, InitSucceeds PROVE IInv'
  <1>0. /\ faults' = faults /\ faults' \in 0 .. MaxFaults /\ failed = 0
        /\ index' \in 0 .. Len(Items) + 1 /\ index' # 0
        /\ program # "deinstaller" => index' = 1
    BY ItemsAre DEF InitSucceeds, NoFault, IInv, CopyInv, CopyTypeOK, Control
  <1>1. DriverTypes'
    BY <1>0 DEF InitSucceeds, SameRun, IInv, DriverTypes
  <1>2. Control'
    BY <1>0 DEF InitSucceeds, SameRun, Steady, IInv, Control
  <1>3. Checked' /\ CopiesMade'
    <2>1. \A n \in DOMAIN Items : ~(n < 1)
      BY ItemsAre
    <2> QED BY <1>0, <2>1 DEF InitSucceeds, SameRun, Checked, CopiesMade, Running
  <1> QED BY <1>0, <1>1, <1>2, <1>3, QuietInv
          DEF InitSucceeds, Steady, IInv, Control, CopyInv, CopyTypeOK

LEMMA FinishInv == ASSUME IInv, Finish PROVE IInv'
  <1>0. /\ fs' = fs /\ faults' \in 0 .. MaxFaults /\ faults' = faults
        /\ kills' \in 0 .. MaxKills /\ at = "idle" /\ exit' \in {0, 1, None}
        /\ UNCHANGED <<root, job, at, streams, status, left>>
    BY DEF Finish, cvars, IInv, Control, CopyInv, CopyTypeOK
  <1>1. DriverTypes'
    BY <1>0 DEF Finish, SameRun, IInv, DriverTypes
  <1>2. Control'
    BY <1>0 DEF Finish, SameRun, IInv, Control
  <1>3. Checked'
    <2> SUFFICES ASSUME program = "instchk", failed = 0, NEW n \in DOMAIN Items, n < index
                 PROVE  (Holds(Items[n]) \/ NeedsLookup(Items[n]))'
      BY <1>0 DEF Finish, SameRun, Checked
    <2>1. Holds(Items[n]) \/ NeedsLookup(Items[n])
      BY DEF Finish, IInv, Checked
    <2> QED BY <1>0, <2>1, SameFiles DEF NeedsLookup, Finish, SameRun
  <1>4. CopiesMade'
    <2> SUFFICES ASSUME program = "installer", ~dry, cwd = Home, NEW n \in DOMAIN Items,
                        n < index, Items[n].op \in Copies, n \notin reported
                 PROVE  Landed(JobFrom(Home, Items[n]))'
      BY DEF Finish, SameRun, CopiesMade, Running
    <2>1. Landed(JobFrom(Home, Items[n]))
      BY DEF Finish, IInv, CopiesMade, Running
    <2> QED BY <1>0, <2>1, SameFiles
  <1> QED BY <1>0, <1>1, <1>2, <1>3, <1>4, QuietInv DEF Finish


\* A report of an item, whose step writes no file.
LEMMA QuietReport ==
  ASSUME IInv, phase \in {"item", "mkdir"}, index \in DOMAIN Items, NEW s, Report(s),
         fs' = fs, Steady, UNCHANGED <<kills, cwd>>, Fault \/ NoFault,
         failed' = failed \/ (program = "instchk" /\ failed' = failed + 1),
         program = "instchk" =>
           \/ failed' = failed /\ (Holds(Items[index]) \/ NeedsLookup(Items[index]))
           \/ failed' = failed + 1,
         s = "error" \/ dry \/ program # "installer" \/ Item.op \notin Copies
  PROVE  IInv'
  <1>0. /\ faults' \in 0 .. MaxFaults /\ faults' >= faults /\ faults' \in Nat
        /\ kills' \in 0 .. MaxKills /\ at = "idle" /\ at' = "idle" /\ cwd' \in Paths
        /\ phase' = "item" /\ UNCHANGED <<program, dry, exit>> /\ exit = None
    BY FaultCounts DEF IInv, CopyInv, CopyTypeOK, Control, Steady, DriverTypes,
      Report, SameRun
  <1>1. DriverTypes' /\ Control'
    BY <1>0, Reported
  <1>2. Checked'
    <2> SUFFICES ASSUME program = "instchk", failed' = 0, NEW n \in DOMAIN Items,
                        n < index'
                 PROVE  (Holds(Items[n]) \/ NeedsLookup(Items[n]))'
      BY <1>0, ItemsAssumption DEF Checked
    <2>1. failed = 0 /\ failed' = failed /\ index' = index + 1
      BY DEF IInv, DriverTypes, Report, Following
    <2>2. n < index \/ n = index
      BY <2>1, ItemsAre
    <2>3. Holds(Items[n]) \/ NeedsLookup(Items[n])
      <3>1. CASE n = index
        BY <2>1, <3>1
      <3>2. CASE n < index
        <4>1. phase = "item"
          BY DEF IInv, Control
        <4> QED BY <2>1, <3>2, <4>1 DEF IInv, Checked
      <3> QED BY <2>2, <3>1, <3>2
    <2> QED BY <1>0, <2>3, SameFiles DEF NeedsLookup
  <1>3. CopiesMade'
    <2>1. \A n \in DOMAIN Items :
            program = "installer" /\ ~dry /\ cwd = Home /\ Items[n].op \in Copies =>
              ((n = index /\ s # "error") \/ Landed(JobFrom(Home, Items[n])) =>
                 Landed(JobFrom(Home, Items[n]))')
      BY SameFiles DEF Item
    <2> QED BY <1>1, <2>1, ReportedCopies
  <1> QED BY <1>0, <1>1, <1>2, <1>3, QuietInv

LEMMA ReportsInv ==
  ASSUME IInv, ResolveFails \/ DryStep \/ LinkDirFails \/ CheckItem
  PROVE  IInv'
  <1>1. CASE ResolveFails
    BY <1>1, QuietReport DEF ResolveFails, InRange, Item, IInv, DriverTypes
  <1>2. CASE DryStep
    <2>1. InRange /\ (program = "deinstaller" \/ program = "installer") /\ dry
      BY <1>2 DEF DryStep, Serves
    <2> QED BY <1>2, <2>1, QuietReport DEF DryStep, InRange
  <1>3. CASE LinkDirFails
    BY <1>3, QuietReport DEF LinkDirFails, Serves, InRange
  <1>4. CASE CheckItem
    <2>1. InRange /\ program = "instchk" /\ Steady /\ UNCHANGED <<fs, kills, cwd>>
      BY <1>4 DEF CheckItem
    <2>2. CASE Holds(Item) /\ NoFault /\ Report("ok") /\ UNCHANGED failed
      BY <2>1, <2>2, QuietReport DEF InRange, Item
    <2>3. CASE (NoFault \/ Fault) /\ Report("error") /\ failed' = failed + 1
      BY <2>1, <2>3, QuietReport DEF InRange
    <2> QED BY <1>4, <2>2, <2>3 DEF CheckItem
  <1> QED BY <1>1, <1>2, <1>3, <1>4

LEMMA CopyItemInv == ASSUME IInv, CopyItem PROVE IInv'
  <1>0. /\ index \in DOMAIN Items /\ Item.op \in Copies /\ program = "installer"
        /\ ~dry /\ phase = "item" /\ phase' = "copy" /\ job' = JobOf(Item)
        /\ fs' = fs /\ UNCHANGED faults /\ status' = "running"
        /\ UNCHANGED <<program, dry, begun, runs, index, depth, cwd>>
        /\ UNCHANGED <<reported, failed, exit>>
    BY DEF CopyItem, Serves, InRange, Call, SameRun
  <1>1. CopyInv'
    <2>1. JobOf(Item) \in Jobs
      BY <1>0, ItemFacts DEF IInv, DriverTypes, Item, JobOf
    <2>2. CopyNext
      BY <2>1 DEF CopyItem, CopyNext
    <2> QED BY <2>2, TypeStep, StagesStep, LeftoversStep DEF IInv, CopyInv
  <1>2. DriverTypes'
    BY <1>0 DEF IInv, DriverTypes
  <1>3. Control'
    BY <1>0 DEF IInv, Control, Item, JobOf
  <1>4. RealDirs' /\ Checked'
    BY <1>0, SameFiles DEF IInv, Checked
  <1>5. CopiesMade'
    <2> SUFFICES ASSUME cwd = Home, NEW n \in DOMAIN Items, n < index,
                        Items[n].op \in Copies, n \notin reported
                 PROVE  Landed(JobFrom(Home, Items[n]))'
      BY <1>0 DEF CopiesMade
    <2>1. Landed(JobFrom(Home, Items[n]))
      BY <1>0 DEF IInv, CopiesMade, Running
    <2> QED BY <1>0, <2>1, SameFiles
  <1>6. CopyMade'
    BY <1>0 DEF CopyMade
  <1> QED BY <1>1, <1>2, <1>3, <1>4, <1>5, <1>6 DEF IInv

LEMMA CopyReturnsInv == ASSUME IInv, CopyReturns PROVE IInv'
  <1>0. /\ index \in DOMAIN Items /\ program = "installer" /\ phase = "copy"
        /\ ~dry /\ at = "idle" /\ fs' = fs /\ Report(status) /\ UNCHANGED <<cwd, failed>>
        /\ faults' = faults /\ kills' = kills
        /\ UNCHANGED <<root, job, at, streams, status, left>>
        /\ job = JobOf(Item) /\ phase' = "item" /\ program' = program
        /\ status \in {"ok", "error"}
    BY DEF CopyReturns, cvars, IInv, Control, Report, SameRun, CopyInv, CopyTypeOK,
      Stages
  <1>1. faults' \in 0 .. MaxFaults /\ faults' \in Nat /\ faults' >= faults
        /\ kills' \in 0 .. MaxKills
    BY <1>0, CopyBounds DEF IInv, CopyInv, CopyTypeOK
  <1>2. DriverTypes' /\ Control'
    BY <1>0, <1>1, Reported DEF IInv, DriverTypes
  <1>3. Checked'
    BY <1>0 DEF Checked
  <1>4. CopiesMade'
    <2>1. ASSUME NEW n \in DOMAIN Items, cwd = Home,
                 (n = index /\ status # "error") \/ Landed(JobFrom(Home, Items[n]))
          PROVE  Landed(JobFrom(Home, Items[n]))'
      <3>1. CASE n = index /\ status # "error"
        <4>1. job = JobFrom(Home, Items[n])
          BY <1>0, <2>1, <3>1 DEF JobOf, Item
        <4>2. Landed(job)
          BY <1>0, <3>1 DEF IInv, CopyMade
        <4> QED BY <1>0, <4>1, <4>2, SameFiles
      <3> QED BY <1>0, <2>1, <3>1, SameFiles
    <2> QED BY <1>0, <1>2, <2>1, ReportedCopies
  <1> QED BY <1>0, <1>1, <1>2, <1>3, <1>4, QuietInv

LEMMA RMkdirInv == ASSUME IInv, RMkdir PROVE IInv'
  <1>0. /\ index \in DOMAIN Items /\ Item.op = "mkdir" /\ program = "installer"
        /\ ~dry /\ phase = "item" /\ phase' = "mkdir" /\ fs' = fs /\ depth' = 1
        /\ UNCHANGED <<root, job, at, streams, status, left, faults, kills>>
        /\ UNCHANGED <<program, dry, begun, runs, index, cwd>>
        /\ UNCHANGED <<reported, failed, exit>>
    BY DEF RMkdir, Serves, InRange, SameRun, cvars
  <1>1. faults' \in 0 .. MaxFaults /\ kills' \in 0 .. MaxKills /\ at = "idle"
    BY <1>0 DEF IInv, CopyInv, CopyTypeOK, Control
  <1>2. DriverTypes' /\ Control'
    BY <1>0 DEF IInv, DriverTypes, Control, Item
  <1>3. Checked'
    BY <1>0 DEF Checked
  <1>4. CopiesMade'
    <2> SUFFICES ASSUME cwd = Home, NEW n \in DOMAIN Items, n < index,
                        Items[n].op \in Copies, n \notin reported
                 PROVE  Landed(JobFrom(Home, Items[n]))'
      BY <1>0 DEF CopiesMade
    <2>1. Landed(JobFrom(Home, Items[n]))
      BY <1>0 DEF IInv, CopiesMade, Running
    <2> QED BY <1>0, <2>1, SameFiles
  <1> QED BY <1>0, <1>1, <1>2, <1>3, <1>4, QuietInv


LEMMA OwnerSet ==
  ASSUME NEW x \in Nodes, x # Absent, x.kind # "symlink", NEW v \in Uids
  PROVE  /\ [x EXCEPT !.owner = v] \in Nodes
         /\ [x EXCEPT !.owner = v].kind # "symlink"
  <1>1. x \in Files \/ x \in {Directory(m, u) : m \in Modes, u \in Uids}
    BY DEF Nodes, Symlink, Node
  <1>2. CASE x \in Files
    <2>1. x.kind = "file"
      BY <1>2 DEF Files, File, Node
    <2>2. [x EXCEPT !.owner = v] = File(x.data, x.mode, v)
      BY <2>1, FieldSet
    <2>3. x.data \in Contents \union {Partial} /\ x.mode \in Modes
      BY <2>1, FileFields
    <2> QED BY <2>2, <2>3, FilesAreNodes
  <1>3. CASE x \in {Directory(m, u) : m \in Modes, u \in Uids}
    <2>1. PICK m \in Modes, u \in Uids : x = Directory(m, u)
      BY <1>3
    <2>2. [x EXCEPT !.owner = v] = Directory(m, v)
      BY <2>1 DEF Directory, Node
    <2>3. Directory(m, v) \in Nodes /\ Directory(m, v).kind = "dir"
      BY DEF Nodes, Directory, Node
    <2> QED BY <2>2, <2>3
  <1> QED BY <1>1, <1>2, <1>3

\* What a driver writes: a new node where there was none, or another owner of a
\* directory of the list, or nothing where something was.
LEMMA MakeDirInv == ASSUME IInv, MakeDir PROVE IInv'
  <1> DEFINE d == Chain[Item.dir][depth]
  <1>0. /\ phase = "mkdir" /\ depth \in DOMAIN Chain[Item.dir] /\ phase' = "mkdir"
        /\ depth' = depth + 1 /\ Steady
        /\ UNCHANGED <<program, dry, begun, runs, kills, index, cwd>>
        /\ UNCHANGED <<reported, failed, exit>>
        /\ program = "installer" /\ ~dry /\ index \in DOMAIN Items
    BY DEF MakeDir, Making, SameRun, IInv, Control
  <1>1. /\ faults' \in 0 .. MaxFaults /\ faults' >= faults /\ faults \in Nat
        /\ kills' \in 0 .. MaxKills /\ at = "idle"
    BY <1>0, FaultCounts DEF MakeDir, IInv, CopyInv, CopyTypeOK, Control
  <1>2. d \in Targets /\ d \in Paths
    <2>1. Chain[Item.dir] \in Seq(Targets)
      BY <1>0, ItemFacts DEF Item
    <2> QED BY <1>0, <2>1, PathAssumption
  <1>3. Masked[Item.mode] \in Modes
    BY <1>0, ItemsAre, NamesAssumption DEF Item
  <1> DEFINE x == Directory(Masked[Item.mode], Self)
  <1>4. x \in Nodes /\ x.kind = "dir"
    BY <1>3, FileAssumption DEF Nodes, Directory, Node
  <1>5. fs' = fs \/ (fs[d] = Absent /\ fs' = [fs EXCEPT ![d] = x])
    BY DEF MakeDir, Makeable
  <1> HIDE DEF d, x
  <1>6. CopyInv'
    BY <1>0, <1>1, <1>2, <1>4, <1>5, DriverWrites DEF IInv
  <1>7. DriverTypes' /\ Control'
    BY <1>0, <1>1 DEF IInv, DriverTypes, Control, Item, Steady
  <1>8. RealDirs'
    BY <1>2, <1>4, <1>5, ItemsAre DEF IInv, RealDirs, CopyInv, CopyTypeOK
  <1>9. Checked' /\ CopyMade'
    BY <1>0 DEF Checked, CopyMade
  <1>10. CopiesMade'
    <2> SUFFICES ASSUME cwd = Home, NEW n \in DOMAIN Items, n < index,
                        Items[n].op \in Copies, n \notin reported
                 PROVE  Landed(JobFrom(Home, Items[n]))'
      BY <1>0 DEF CopiesMade
    <2>1. Landed(JobFrom(Home, Items[n])) /\ JobFrom(Home, Items[n]) \in Jobs
      BY <1>0, ItemFacts, NamesAssumption DEF IInv, CopiesMade, Running
    <2> QED BY <1>2, <1>5, <2>1, SameFiles, LandedStays DEF IInv
  <1> QED BY <1>6, <1>7, <1>8, <1>9, <1>10 DEF IInv

LEMMA DirMadeInv == ASSUME IInv, DirMade PROVE IInv'
  <1>0. /\ phase = "mkdir" /\ Item.op = "mkdir" /\ program = "installer" /\ ~dry
        /\ index \in DOMAIN Items /\ Steady /\ UNCHANGED <<kills, cwd, failed>>
        /\ (Fault \/ NoFault) /\ at = "idle"
    BY DEF DirMade, IInv, Control
  <1>1. CASE fs' = fs
    <2>1. Report("ok") \/ Report("error")
      BY DEF DirMade
    <2>2. Fault \/ NoFault
      BY DEF DirMade
    <2>3. Item.op \notin Copies
      BY <1>0 DEF Copies
    <2> QED BY <1>0, <1>1, <2>1, <2>2, <2>3, QuietReport
  <1>2. CASE /\ fs[Item.dir] # Absent /\ NoFault /\ Report("ok")
             /\ fs' = [fs EXCEPT ![Item.dir].owner = Owner(Item)]
    <2>0. /\ Item.dir \in Paths /\ Item.dir \in Targets /\ Owner(Item) \in Uids
          /\ fs[Item.dir].kind # "symlink" /\ fs[Item.dir] \in Nodes
      BY <1>0, ItemFacts, ItemsAre DEF Item, IInv, RealDirs, CopyInv, CopyTypeOK
    <2> DEFINE x == [fs[Item.dir] EXCEPT !.owner = Owner(Item)]
    <2>1. x \in Nodes /\ x.kind # "symlink"
      BY <1>2, <2>0, OwnerSet
    <2>2. fs' = [fs EXCEPT ![Item.dir] = x]
      BY <1>2
    <2> HIDE DEF x
    <2>3. /\ faults' \in 0 .. MaxFaults /\ faults' >= faults /\ faults' \in Nat
          /\ kills' \in 0 .. MaxKills /\ at = "idle" /\ at' = "idle" /\ cwd' \in Paths
          /\ cwd' = cwd /\ program' = program
      BY <1>0, <1>2, FaultCounts DEF IInv, CopyInv, CopyTypeOK, Control, Steady,
        DriverTypes, Report, SameRun
    <2>4. CopyInv'
      BY <1>0, <2>0, <2>1, <2>2, <2>3, DriverWrites DEF IInv
    <2>5. DriverTypes' /\ Control' /\ CopyMade'
      BY <1>0, <1>2, <2>3, Reported
    <2>6. RealDirs'
      BY <2>0, <2>1, <2>2, ItemsAre DEF IInv, RealDirs, CopyInv, CopyTypeOK
    <2>7. Checked'
      BY <1>0, <2>3 DEF Checked
    <2>8. CopiesMade'
      <3>1. ASSUME NEW n \in DOMAIN Items, Items[n].op \in Copies,
                   (n = index /\ "ok" # "error") \/ Landed(JobFrom(Home, Items[n]))
            PROVE  Landed(JobFrom(Home, Items[n]))'
        <4> DEFINE j == JobFrom(Home, Items[n])
        <4>1. j \in Jobs /\ j.src = In[Home][Source(Items[n])] /\ j.dst = Place(Items[n])
          BY <3>1, ItemFacts, NamesAssumption DEF JobFrom
        <4>2. Item.dir # j.src /\ Item.dir # j.dst
          BY <1>0, <3>1, <4>1, PlacesAssumption DEF Item
        <4>3. n # index
          BY <1>0, <3>1 DEF Item, Copies
        <4> HIDE DEF j
        <4>4. Landed(j)
          BY <3>1, <4>3 DEF j
        <4>5. Landed(j)'
          BY <2>0, <2>2, <4>1, <4>2, <4>4, LandedStays DEF IInv
        <4> QED BY <4>5 DEF j
      <3> QED BY <1>0, <1>2, <2>3, <2>5, <3>1, ReportedCopies
    <2> QED BY <2>4, <2>5, <2>6, <2>7, <2>8 DEF IInv
  <1> QED BY <1>1, <1>2 DEF DirMade

LEMMA LinkItemInv == ASSUME IInv, LinkItem PROVE IInv'
  <1>0. /\ index \in DOMAIN Items /\ Item.op \in Links /\ program = "installer"
        /\ phase = "item" /\ Steady /\ UNCHANGED <<kills, failed>>
    BY DEF LinkItem, Serves, InRange
  <1>1. PICK broken, stuck \in BOOLEAN :
          /\ faults' = faults + Cost(broken) + Cost(stuck) /\ faults' <= MaxFaults
          /\ \/ fs' = fs
             \/ /\ fs[Place(Item)] = Absent
                /\ fs' = [fs EXCEPT ![Place(Item)] = Symlink(In[Item.dir][Source(Item)])]
          /\ cwd' = IF stuck THEN Item.dir ELSE cwd
          /\ Report("ok") \/ Report("error")
    BY DEF LinkItem
  <1>2. /\ faults' \in 0 .. MaxFaults /\ faults' >= faults /\ faults' \in Nat
    BY <1>1, CopyBounds DEF Cost, IInv, CopyInv, CopyTypeOK
  <1>3. /\ Place(Item) \in Targets /\ Place(Item) \in Paths /\ Item.dir \in Paths
        /\ In[Item.dir][Source(Item)] \in Paths /\ Item.dir # Home
    BY <1>0, ItemFacts, ItemsAre, PlacesAssumption DEF Item, Links
  <1> DEFINE x == Symlink(In[Item.dir][Source(Item)])
  <1>4. x \in Nodes
    BY <1>3 DEF Nodes
  <1>5. fs' = fs \/ (fs[Place(Item)] = Absent /\ fs' = [fs EXCEPT ![Place(Item)] = x])
    BY <1>1
  <1> HIDE DEF x
  <1>6. /\ cwd' \in Paths /\ (cwd' = Home => cwd = Home) /\ at = "idle" /\ at' = "idle"
        /\ kills' \in 0 .. MaxKills /\ program' = program
    BY <1>0, <1>1, <1>3 DEF IInv, DriverTypes, Control, Steady, CopyInv, CopyTypeOK,
      Report, SameRun
  <1>7. CopyInv'
    BY <1>0, <1>2, <1>3, <1>4, <1>5, <1>6, DriverWrites DEF IInv
  <1>8. DriverTypes' /\ Control' /\ CopyMade'
    BY <1>0, <1>1, <1>2, <1>6, Reported
  <1>9. RealDirs'
    <2> SUFFICES ASSUME NEW n \in DOMAIN Items, Items[n].op = "mkdir"
                 PROVE  fs'[Items[n].dir].kind # "symlink"
      BY DEF RealDirs
    <2>1. Items[n].dir # Place(Item)
      BY <1>0, PlacesAssumption DEF Item
    <2>2. fs'[Items[n].dir] = fs[Items[n].dir]
      BY <1>3, <1>5, <2>1, ItemsAre DEF IInv, CopyInv, CopyTypeOK
    <2> QED BY <2>2 DEF IInv, RealDirs
  <1>10. Checked'
    BY <1>0, <1>6 DEF Checked
  <1>11. CopiesMade'
    <2>1. ASSUME NEW n \in DOMAIN Items, Items[n].op \in Copies,
                 n = index \/ Landed(JobFrom(Home, Items[n]))
          PROVE  Landed(JobFrom(Home, Items[n]))'
      <3>1. n # index
        BY <1>0, <2>1 DEF Item, Copies, Links
      <3>2. JobFrom(Home, Items[n]) \in Jobs
        BY <2>1, ItemFacts, NamesAssumption
      <3> QED BY <1>3, <1>5, <2>1, <3>1, <3>2, SameFiles, LandedStays DEF IInv
    <2> QED BY <1>0, <1>1, <1>6, <1>8, <2>1, ReportedCopies
  <1> QED BY <1>7, <1>8, <1>9, <1>10, <1>11 DEF IInv

LEMMA RemoveItemInv == ASSUME IInv, RemoveItem PROVE IInv'
  <1>0. /\ index \in DOMAIN Items /\ program = "deinstaller" /\ phase = "item"
        /\ Steady /\ UNCHANGED <<kills, cwd, failed>> /\ (Report("ok") \/ Report("error"))
        /\ program' = program /\ (Fault \/ NoFault)
        /\ fs' = fs \/ fs' = [fs EXCEPT ![Place(Item)] = Absent]
    BY DEF RemoveItem, InRange, Report, SameRun
  <1>1. /\ faults' \in 0 .. MaxFaults /\ faults' >= faults /\ faults' \in Nat
        /\ kills' \in 0 .. MaxKills /\ at = "idle" /\ at' = "idle" /\ cwd' \in Paths
    BY <1>0, FaultCounts DEF IInv, CopyInv, CopyTypeOK, Control, Steady, DriverTypes
  <1>2. Place(Item) \in Targets /\ Place(Item) \in Paths
    BY <1>0, ItemFacts DEF Item
  <1>3. CopyInv'
    BY <1>0, <1>1, <1>2, AbsentIsNone, DriverWrites DEF IInv
  <1>4. DriverTypes' /\ Control' /\ CopyMade'
    BY <1>0, <1>1, Reported
  <1>5. RealDirs'
    BY <1>0, <1>2, AbsentIsNone, ItemsAre DEF IInv, RealDirs, CopyInv, CopyTypeOK
  <1>6. Checked' /\ CopiesMade'
    BY <1>0 DEF Checked, CopiesMade, Running
  <1> QED BY <1>3, <1>4, <1>5, <1>6 DEF IInv

\* The program is gone.
LEMMA GoneInv ==
  ASSUME IInv, at = "idle", phase' = "done", exit' = None, fs' = fs,
         UNCHANGED <<root, job, at, streams, status, left, faults>>, SameRun,
         kills' \in 0 .. MaxKills, UNCHANGED <<index, depth, cwd, reported, failed>>
  PROVE  IInv'
  <1>1. DriverTypes' /\ Control'
    BY DEF SameRun, IInv, DriverTypes, Control
  <1>2. Checked' /\ CopiesMade'
    BY ItemsAssumption DEF Checked, CopiesMade, Running
  <1>3. faults' \in 0 .. MaxFaults
    BY DEF IInv, CopyInv, CopyTypeOK
  <1> QED BY <1>1, <1>2, <1>3, QuietInv

LEMMA DieInv == ASSUME IInv, Die PROVE IInv'
  BY GoneInv DEF Die, cvars, IInv, CopyInv, CopyTypeOK

LEMMA KillProgramInv == ASSUME IInv, KillProgram PROVE IInv'
  <1>1. CASE phase = "copy" /\ Kill /\ UNCHANGED dvars
    BY <1>1, CopyingInv
  <1>2. CASE /\ phase \in {"init", "item", "mkdir"} /\ kills < MaxKills
             /\ kills' = kills + 1 /\ phase' = "done" /\ exit' = None
             /\ Steady /\ SameRun
             /\ UNCHANGED <<fs, faults, index, depth, cwd, reported, failed>>
    <2>1. kills' \in 0 .. MaxKills
      BY <1>2, CopyBounds DEF IInv, CopyInv, CopyTypeOK
    <2> QED BY <1>2, <2>1, GoneInv DEF Steady, IInv, Control
  <1> QED BY <1>1, <1>2 DEF KillProgram

LEMMA IdleInv == ASSUME IInv, UNCHANGED vars PROVE IInv'
  <1>1. UNCHANGED cvars /\ UNCHANGED <<program, dry, phase, index, depth, cwd>>
        /\ UNCHANGED <<reported, failed, exit, begun, runs>> /\ fs' = fs
    BY DEF vars, dvars, cvars
  <1>2. CopyInv'
    BY <1>1, TypeStep, StagesStep, LeftoversStep DEF IInv, CopyInv
  <1>3. DriverTypes' /\ Control'
    BY <1>1 DEF IInv, DriverTypes, Control, cvars, Item, JobOf
  <1>4. RealDirs' /\ CopyMade'
    BY <1>1, SameFiles DEF IInv, CopyMade, cvars
  <1>5. Checked'
    BY <1>1, SameFiles DEF IInv, Checked, NeedsLookup
  <1>6. CopiesMade'
    BY <1>1, SameFiles DEF IInv, CopiesMade, Running
  <1> QED BY <1>2, <1>3, <1>4, <1>5, <1>6 DEF IInv

----------------------------------------------------------------------------
THEOREM Invariance == InstallSpec => []IInv
  <1>1. IInv /\ [InstallNext]_vars => IInv'
    <2> SUFFICES ASSUME IInv, [InstallNext]_vars PROVE IInv'
      OBVIOUS
    <2>1. CASE Copying
      BY <2>1, CopyingInv DEF Copying
    <2>2. CASE InitFails \/ InitSucceeds \/ Finish
      BY <2>2, InitFailsInv, InitSucceedsInv, FinishInv
    <2>3. CASE ResolveFails \/ DryStep \/ LinkDirFails \/ CheckItem
      BY <2>3, ReportsInv
    <2>4. CASE CopyItem \/ CopyReturns \/ RMkdir
      BY <2>4, CopyItemInv, CopyReturnsInv, RMkdirInv
    <2>5. CASE MakeDir \/ DirMade \/ LinkItem
      BY <2>5, MakeDirInv, DirMadeInv, LinkItemInv
    <2>6. CASE RemoveItem \/ Die \/ KillProgram
      BY <2>6, RemoveItemInv, DieInv, KillProgramInv
    <2>7. CASE UNCHANGED vars
      BY <2>7, IdleInv
    <2>8. ASSUME NEW p \in {"installer", "instchk", "deinstaller"}, NEW d \in BOOLEAN,
                 Start(p, d)
          PROVE  IInv'
      BY <2>8, StartInv
    <2> QED BY <2>1, <2>2, <2>3, <2>4, <2>5, <2>6, <2>7, <2>8
            DEF InstallNext, InstallStep
  <1> QED BY <1>1, InitInv, PTL DEF InstallSpec

\* Every variable keeps its type: no path gets an owner or a mode without being
\* a file or a directory, and the index stays in its range (deinstaller.c:55).
THEOREM TypeCorrect == InstallSpec => []InstallTypeOK
  <1>1. IInv => InstallTypeOK
    <2> SUFFICES ASSUME IInv PROVE InstallTypeOK
      OBVIOUS
    <2>1. failed \in 0 .. Len(Items)
      BY ItemsAre DEF IInv, DriverTypes
    <2> QED BY <2>1 DEF IInv, CopyInv, DriverTypes, InstallTypeOK
  <1> QED BY Invariance, <1>1, PTL

\* When instchk (instchk.c:69) says that nothing failed, every item is there with
\* the size, mode and owner of the list, but for those it could not look up.
THEOREM CheckSoundHolds == InstallSpec => []CheckSound
  <1>1. IInv => CheckSound
    <2> SUFFICES ASSUME IInv, Completed("instchk"), exit = 0, NEW n \in DOMAIN Items
                 PROVE  Holds(Items[n]) \/ NeedsLookup(Items[n])
      BY DEF CheckSound
    <2>1. index = Len(Items) + 1 /\ n < index
      BY ItemsAre DEF Completed, IInv, DriverTypes, Control
    <2> QED BY <2>1 DEF Completed, IInv, Checked
  <1> QED BY Invariance, <1>1, PTL

\* After a complete run of the installer (installer.c:55) every file of the list
\* that was not reported is a complete copy of its source, whatever failed.
THEOREM CopiedOrReportedHolds == InstallSpec => []CopiedOrReported
  <1>1. IInv => CopiedOrReported
    <2> SUFFICES ASSUME IInv, Completed("installer"), ~dry, cwd = Home,
                        NEW n \in DOMAIN Items, Items[n].op \in Copies,
                        Place(Items[n]) \in Short, n \notin reported
                 PROVE  Copied(Items[n])
      BY DEF CopiedOrReported
    <2>1. index = Len(Items) + 1 /\ n < index
      BY ItemsAre DEF Completed, IInv, DriverTypes, Control
    <2>2. Landed(JobFrom(Home, Items[n]))
      BY <2>1 DEF Completed, IInv, CopiesMade, Running
    <2> QED BY <2>2 DEF Landed, JobFrom, Copied
  <1> QED BY Invariance, <1>1, PTL


----------------------------------------------------------------------------
(* Orderly lists                                                           *)

AllOps == Copies \union Links \union {"mkdir"}

\* What is where.
Kinds ==
  /\ \A p \in DirPaths : fs[p].kind \in {"none", "dir"}
  /\ \A p \in PlacesOf(Copies \union Links) : fs[p].kind # "dir"
  /\ \A n \in DOMAIN Items :
       /\ Items[n].op \in Copies => fs[In[Home][Source(Items[n])]].kind = "file"
       /\ Items[n].op = "mkdir" => fs[DirOf[Chain[Items[n].dir][1]]].kind = "dir"

\* What is in a directory is a temporary file, or comes later in the list.
Contained ==
  \A n \in DOMAIN Items : Items[n].op = "mkdir" =>
    \A p \in Paths \ {Items[n].dir} :
      DirOf[p] = Items[n].dir /\ fs[p] # Absent =>
        p \in Temps \/ \E m \in DOMAIN Items : m > n /\ Place(Items[m]) = p

\* The owner cannot write a temporary file only if his file is like that.
Unread ==
  \A n \in DOMAIN Items : Items[n].op \in Copies /\ Place(Items[n]) \in Short =>
    LET q == TmpOf[Place(Items[n])]
    IN fs[q] # Absent => fs[q].mode \in Writable \union {Items[n].mode}

\* No temporary file outlives its call.
Begun == phase # "done" \/ exit # None
Temporary ==
  Begun /\ Undisturbed =>
    \A q \in Temps : fs[q] # Absent => q \in begun.temps \/ (phase = "copy" /\ q = DstTmp)

\* What the deinstaller has removed.
Gone ==
  /\ program = "deinstaller" /\ ~dry /\ Undisturbed /\ begun.temps = {}
  /\ phase = "item" \/ exit # None
  => /\ index <= Len(Items)
     /\ \A n \in DOMAIN Items : n > index => fs[Place(Items[n])] = Absent

\* A temporary file without write permission keeps the copy from being made.
Blocked(i) == ~root /\ i.mode \notin Writable /\ TmpOf[Place(i)] \in begun.temps
Mine(i) == root \/ Owner(i) = Self

\* A call that nothing disturbs fails for no other reason, and cleans up.
Calling ==
  phase = "copy" /\ Undisturbed /\ job.dst \in Short =>
    /\ at = "err" \/ (at = "idle" /\ status = "error") => ~Mine(Item) \/ Blocked(Item)
    /\ at = "idle" /\ status # "killed" => fs[DstTmp] = Absent
    /\ at \in {"open_src", "open_tmp"} /\ fs[DstTmp] # Absent => DstTmp \in begun.temps

\* How far the path has been made.
Paved ==
  phase = "mkdir" /\ Undisturbed =>
    /\ depth # 0
    /\ \A k \in DOMAIN Chain[Item.dir] : k < depth => fs[Chain[Item.dir][k]].kind = "dir"

\* What the installer has done.
Served(n) ==
  LET i == Items[n]
  IN /\ i.op = "mkdir" => fs[i.dir].kind = "dir"
     /\ i.op \in Links => fs[Place(i)] # Absent
     /\ i.op \in Copies /\ Place(i) \in Short =>
          /\ \/ fs[TmpOf[Place(i)]] = Absent
             \/ phase = "copy" /\ TmpOf[Place(i)] = DstTmp
          /\ Mine(i) => n \notin reported \/ Blocked(i)
Repaired ==
  Running /\ Undisturbed =>
    /\ cwd = Home /\ \A n \in reported : n < index
    /\ \A n \in DOMAIN Items : n < index => Served(n)

ListInv == Kinds /\ Unread /\ Temporary /\ Calling /\ Paved /\ Repaired
RemovalInv == Contained /\ Gone

----------------------------------------------------------------------------
LEMMA PlaceListed ==
  ASSUME NEW n \in DOMAIN Items, NEW ops, Items[n].op \in ops
  PROVE  Place(Items[n]) \in PlacesOf(ops)
  BY DEF PlacesOf

LEMMA ChainListed ==
  ASSUME NEW n \in DOMAIN Items, Items[n].op = "mkdir",
         NEW k \in DOMAIN Chain[Items[n].dir]
  PROVE  Chain[Items[n].dir][k] \in DirPaths
  BY DEF DirPaths

\* What the list names are no temporary names, and of one kind.
LEMMA Apart ==
  ASSUME Orderly
  PROVE  /\ DirPaths \subseteq Targets /\ PlacesOf(AllOps) \subseteq Targets
         /\ Targets \subseteq Paths \ Temps
         /\ \A n \in DOMAIN Items : Items[n].op = "mkdir" =>
              Items[n].dir \in DirPaths /\ Items[n].dir = Place(Items[n])
         /\ DirPaths \intersect PlacesOf(Copies \union Links) = {}
         /\ PlacesOf(Copies) \intersect PlacesOf(Links) = {}
         /\ PlacesOf(Copies) \union PlacesOf(Links) = PlacesOf(Copies \union Links)
         /\ PlacesOf(Copies \union Links) \subseteq PlacesOf(AllOps)
  <1>1. DirPaths \subseteq Targets
    BY ListAssumption DEF DirPaths
  <1>2. PlacesOf(AllOps) \subseteq Targets
    BY ListAssumption DEF PlacesOf
  <1>3. Targets \subseteq Paths \ Temps
    BY PathAssumption DEF Temps, Short
  <1>4. ASSUME NEW n \in DOMAIN Items, Items[n].op = "mkdir"
        PROVE  Items[n].dir \in DirPaths /\ Items[n].dir = Place(Items[n])
    <2> DEFINE c == Chain[Items[n].dir]
    <2>1. c # <<>> /\ c[Len(c)] = Items[n].dir
      BY <1>4 DEF Orderly, OrderlyDirectory
    <2>2. c \in Seq(Targets)
      BY ItemFacts
    <2>3. Len(c) \in DOMAIN c
      <3> HIDE DEF c
      <3> QED BY <2>1, <2>2
    <2> QED BY <1>4, <2>1, <2>3, ChainListed, ItemFacts
  <1>5. \A n \in DOMAIN Items : Items[n].op \in Copies \union Links =>
          Place(Items[n]) \notin DirPaths
    BY DEF Orderly, OrderlyFile, Copies, Links
  <1>6. DirPaths \intersect PlacesOf(Copies \union Links) = {}
    BY <1>5 DEF PlacesOf
  <1>7. \A n \in DOMAIN Items : Items[n].op \in Copies =>
          Place(Items[n]) \notin PlacesOf(Links)
    BY DEF Orderly, OrderlyFile, Copies
  <1>8. PlacesOf(Copies) \intersect PlacesOf(Links) = {}
    BY <1>7 DEF PlacesOf
  <1>9. /\ PlacesOf(Copies) \union PlacesOf(Links) = PlacesOf(Copies \union Links)
        /\ PlacesOf(Copies \union Links) \subseteq PlacesOf(AllOps)
    BY DEF PlacesOf, AllOps
  <1> QED BY <1>1, <1>2, <1>3, <1>4, <1>6, <1>8, <1>9

\* What a copy writes becomes a file, or nothing.
LEMMA CopyKinds ==
  ASSUME CopyInv, CopyStep \/ Kill, NEW p \in Paths, fs'[p] # fs[p]
  PROVE  p \in {DstTmp, job.dst} /\ fs'[p].kind \in {"none", "file"}
  <1> USE DEF CopyInv
  <1>0. fs \in [Paths -> Nodes] /\ DstTmp \in Paths /\ job.dst \in Paths /\ job.mode \in Modes
        /\ job.uid \in Uids /\ job.src \in Paths
    BY TmpNames DEF CopyTypeOK, DstTmp
  <1>1. p \in {DstTmp, job.dst}
    BY CopyWrites
  <1>2. CASE Rename
    <2>1. fs[DstTmp].kind = "file"
      BY <1>2 DEF Rename, Stages, Working, Filled, Moded, Owned
    <2> QED BY <1>0, <1>1, <1>2, <2>1, AbsentIsNone DEF Rename
  <1>3. CASE OpenTmp
    BY <1>0, <1>3 DEF OpenTmp, File, Node
  <1>4. CASE Flush \/ SetMode \/ SetOwner
    <2>1. fs[DstTmp].kind = "file" /\ fs[DstTmp] \in Nodes
      BY <1>0, <1>4 DEF Flush, SetMode, SetOwner, Stages, Working, Filled, Moded, Owned
    <2>2. /\ [fs[DstTmp] EXCEPT !.data = fs[job.src].data].kind = "file"
          /\ [fs[DstTmp] EXCEPT !.mode = job.mode].kind = "file"
          /\ [fs[DstTmp] EXCEPT !.owner = job.uid].kind = "file"
      BY <2>1, FileFields DEF File, Node
    <2>3. \/ fs' = fs
          \/ fs' = [fs EXCEPT ![DstTmp] = [fs[DstTmp] EXCEPT !.data = fs[job.src].data]]
          \/ fs' = [fs EXCEPT ![DstTmp] = [fs[DstTmp] EXCEPT !.mode = job.mode]]
          \/ fs' = [fs EXCEPT ![DstTmp] = [fs[DstTmp] EXCEPT !.owner = job.uid]]
      BY <1>4 DEF Flush, SetMode, SetOwner
    <2> QED BY <1>0, <1>1, <2>2, <2>3
  <1>5. CASE CleanUp
    BY <1>0, <1>1, <1>5, AbsentIsNone DEF CleanUp
  <1>6. CASE ~(Rename \/ OpenTmp \/ Flush \/ SetMode \/ SetOwner \/ CleanUp)
    BY <1>6 DEF CopyStep, OpenSrc, OpenSrcFails, OpenTmpFails, Copy, SetOwnerFails,
      CloseDst, CloseSrc, RenameFails, WriteFails, Abort, Kill
  <1> QED BY <1>1, <1>2, <1>3, <1>4, <1>5, <1>6

\* The call under way is that of a copy of the list.
LEMMA CallListed ==
  ASSUME IInv, phase = "copy"
  PROVE  /\ index \in DOMAIN Items /\ Item.op \in Copies /\ job \in Jobs
         /\ job.dst = Place(Item) /\ job.dst \in PlacesOf(Copies)
         /\ job.uid = Owner(Item) /\ job.mode = Item.mode
         /\ program = "installer" /\ ~dry /\ exit = None
         /\ job.dst \in Short => DstTmp \in Temps
         /\ job.dst \notin Short => DstTmp = job.dst /\ DstTmp \notin Temps
  <1>1. /\ index \in DOMAIN Items /\ Item.op \in Copies /\ job = JobOf(Item)
        /\ program = "installer" /\ ~dry /\ exit = None
    BY DEF IInv, Control
  <1>2. job.dst = Place(Item) /\ job.uid = Owner(Item) /\ job.mode = Item.mode
    BY <1>1 DEF JobOf, JobFrom
  <1>3. job.dst \in PlacesOf(Copies)
    BY <1>1, <1>2, PlaceListed DEF Item
  <1>4. job \in Jobs
    BY DEF IInv, CopyInv, CopyTypeOK
  <1> QED BY <1>1, <1>2, <1>3, <1>4, TmpNames DEF DstTmp

\* Whatever a step changes in the file system, by the program that does it.
PathMade(p) ==
  /\ program = "installer" /\ phase = "mkdir" /\ p \in DirPaths
  /\ fs[p] = Absent /\ fs'[p].kind = "dir"
PathGiven(p) ==
  /\ program = "installer" /\ phase = "mkdir" /\ p \in DirPaths
  /\ p = Item.dir /\ fs[p] # Absent /\ fs'[p].kind = fs[p].kind
PathLinked(p) ==
  /\ program = "installer" /\ phase = "item" /\ p \in PlacesOf(Links)
  /\ p = Place(Item) /\ fs[p] = Absent /\ fs'[p].kind = "symlink"
PathCopied(p) ==
  /\ phase = "copy" /\ p \in {DstTmp, job.dst} /\ fs'[p].kind \in {"none", "file"}
PathRemoved(p) ==
  /\ program = "deinstaller" /\ RemoveItem /\ p = Place(Item) /\ fs'[p] = Absent

LEMMA PathChange ==
  ASSUME Orderly, IInv, [InstallNext]_vars, NEW p \in Paths, fs'[p] # fs[p]
  PROVE  PathMade(p) \/ PathGiven(p) \/ PathLinked(p) \/ PathCopied(p) \/ PathRemoved(p)
  <1>0. fs \in [Paths -> Nodes] /\ ~(fs' = fs)
    BY DEF IInv, CopyInv, CopyTypeOK
  <1>1. CASE Copying \/ (phase = "copy" /\ Kill /\ UNCHANGED dvars)
    BY <1>1, CopyKinds DEF Copying, IInv, PathCopied
  <1>2. CASE MakeDir
    <2> DEFINE d == Chain[Item.dir][depth]
    <2>1. /\ phase = "mkdir" /\ program = "installer" /\ Item.op = "mkdir"
          /\ index \in DOMAIN Items /\ depth \in DOMAIN Chain[Item.dir]
      BY <1>2 DEF MakeDir, Making, IInv, Control
    <2>2. d \in DirPaths
      BY <2>1, ChainListed DEF Item
    <2>3. fs[d] = Absent /\ fs' = [fs EXCEPT ![d] = Directory(Masked[Item.mode], Self)]
      BY <1>0, <1>2 DEF MakeDir, Makeable
    <2> HIDE DEF d
    <2> QED BY <1>0, <2>1, <2>2, <2>3 DEF PathMade, Directory, Node
  <1>3. CASE DirMade
    <2>1. /\ phase = "mkdir" /\ program = "installer" /\ Item.op = "mkdir"
          /\ index \in DOMAIN Items
      BY <1>3 DEF DirMade, IInv, Control
    <2>2. /\ fs[Item.dir] # Absent
          /\ fs' = [fs EXCEPT ![Item.dir].owner = Owner(Item)]
      BY <1>0, <1>3 DEF DirMade
    <2>3. p = Item.dir /\ Item.dir \in DirPaths
      BY <1>0, <2>1, <2>2, Apart DEF Item
    <2>4. fs'[p] = [fs[p] EXCEPT !.owner = Owner(Item)]
      BY <1>0, <2>2, <2>3
    <2>5. fs'[p].kind = fs[p].kind
      BY <1>0, <2>4 DEF Nodes, Files, Absent, File, Directory, Symlink, Node
    <2> QED BY <2>1, <2>2, <2>3, <2>5 DEF PathGiven
  <1>4. CASE LinkItem
    <2>1. phase = "item" /\ program = "installer" /\ Item.op \in Links /\ index \in DOMAIN Items
      BY <1>4 DEF LinkItem, Serves, InRange
    <2>2. /\ fs[Place(Item)] = Absent
          /\ fs' = [fs EXCEPT ![Place(Item)] = Symlink(In[Item.dir][Source(Item)])]
      BY <1>0, <1>4 DEF LinkItem
    <2>3. p = Place(Item) /\ Place(Item) \in PlacesOf(Links)
      BY <1>0, <2>1, <2>2, PlaceListed DEF Item
    <2> QED BY <1>0, <2>1, <2>2, <2>3 DEF PathLinked, Symlink, Node
  <1>5. CASE RemoveItem
    <2>1. fs' = [fs EXCEPT ![Place(Item)] = Absent]
      BY <1>0, <1>5 DEF RemoveItem
    <2> QED BY <1>0, <1>5, <2>1 DEF PathRemoved, RemoveItem
  <1>6. ASSUME NEW q, NEW d, Start(q, d) PROVE fs' = fs
    BY <1>6 DEF Start, cvars
  <1>7. CASE \/ InitFails \/ InitSucceeds \/ ResolveFails \/ Finish \/ DryStep
             \/ CopyItem \/ CopyReturns \/ RMkdir \/ LinkDirFails \/ CheckItem \/ Die
    BY <1>0, <1>7 DEF InitFails, InitSucceeds, ResolveFails, Finish, DryStep, CopyItem,
      Call, CopyReturns, RMkdir, LinkDirFails, CheckItem, Die, cvars
  <1>8. CASE KillProgram
    BY <1>0, <1>1, <1>8 DEF KillProgram
  <1>9. CASE UNCHANGED vars
    BY <1>0, <1>9 DEF vars, cvars
  <1> QED BY <1>0, <1>1, <1>2, <1>3, <1>4, <1>5, <1>6, <1>7, <1>8, <1>9
          DEF InstallNext, InstallStep

LEMMA KindsStep ==
  ASSUME Orderly, IInv, Kinds, [InstallNext]_vars
  PROVE  Kinds'
  <1>0. fs \in [Paths -> Nodes]
    BY DEF IInv, CopyInv, CopyTypeOK
  <1> USE Apart DEF PathMade, PathGiven, PathLinked, PathCopied, PathRemoved
  <1>1. ASSUME NEW p \in DirPaths PROVE fs'[p].kind \in {"none", "dir"}
    <2>1. p \in Paths /\ fs[p].kind \in {"none", "dir"}
      BY DEF Kinds
    <2>2. p \notin Temps /\ p \notin PlacesOf(Copies) /\ p \notin PlacesOf(Links)
      OBVIOUS
    <2> QED BY <2>1, <2>2, PathChange, CallListed, AbsentIsNone
  <1>2. ASSUME NEW p \in PlacesOf(Copies \union Links) PROVE fs'[p].kind # "dir"
    <2>1. p \in Paths /\ p \notin DirPaths /\ fs[p].kind # "dir"
      BY DEF Kinds
    <2> QED BY <2>1, PathChange, AbsentIsNone
  <1>3. ASSUME NEW n \in DOMAIN Items, Items[n].op \in Copies
        PROVE  fs'[In[Home][Source(Items[n])]].kind = "file"
    <2> DEFINE s == In[Home][Source(Items[n])]
    <2>1. s \notin DirPaths \union PlacesOf(Copies \union Links)
      BY <1>3 DEF Orderly, OrderlyFile, Copies
    <2>2. s \in Paths /\ s \notin Temps
      <3>1. JobFrom(Home, Items[n]) \in Jobs
        BY <1>3, ItemFacts, NamesAssumption
      <3>2. s \in Short
        BY <3>1, TmpNames DEF JobFrom
      <3> QED BY <3>2 DEF Short
    <2>3. fs[s].kind = "file"
      BY <1>3 DEF Kinds
    <2>4. RemoveItem => Place(Item) \in PlacesOf(Copies \union Links) \/ Place(Item) \in DirPaths
      <3> SUFFICES ASSUME RemoveItem
                   PROVE  Place(Item) \in PlacesOf(Copies \union Links) \/ Place(Item) \in DirPaths
        OBVIOUS
      <3>1. index \in DOMAIN Items
        BY DEF RemoveItem, InRange
      <3> QED BY <3>1, ItemsAre, PlaceListed DEF Item
    <2> HIDE DEF s
    <2>5. ~PathMade(s) /\ ~PathGiven(s) /\ ~PathLinked(s)
      BY <2>1
    <2>6. ~PathRemoved(s)
      BY <2>1, <2>4
    <2>7. ~PathCopied(s)
      BY <2>1, <2>2, CallListed
    <2>8. fs'[s] = fs[s]
      BY <2>2, <2>5, <2>6, <2>7, PathChange
    <2> QED BY <2>3, <2>8 DEF s
  <1>4. ASSUME NEW n \in DOMAIN Items, Items[n].op = "mkdir"
        PROVE  fs'[DirOf[Chain[Items[n].dir][1]]].kind = "dir"
    <2> DEFINE q == DirOf[Chain[Items[n].dir][1]]
    <2>1. q \in Targets /\ q \notin PlacesOf(AllOps)
      BY <1>4 DEF Orderly, OrderlyDirectory, AllOps
    <2>2. fs[q].kind = "dir"
      BY <1>4 DEF Kinds
    <2>3. RemoveItem => Place(Item) \in PlacesOf(AllOps)
      <3> SUFFICES ASSUME RemoveItem PROVE Place(Item) \in PlacesOf(AllOps)
        OBVIOUS
      <3>1. index \in DOMAIN Items
        BY DEF RemoveItem, InRange
      <3> QED BY <3>1, ItemsAre, PlaceListed DEF Item, AllOps
    <2> HIDE DEF q
    <2>4. q \in Paths /\ q \notin Temps
      BY <2>1
    <2> QED BY <2>1, <2>2, <2>3, <2>4, PathChange, CallListed DEF q
  <1> QED BY <1>1, <1>2, <1>3, <1>4 DEF Kinds

LEMMA ContainedStep ==
  ASSUME Orderly, Private, IInv, Contained, [InstallNext]_vars
  PROVE  Contained'
  <1> SUFFICES ASSUME NEW n \in DOMAIN Items, Items[n].op = "mkdir",
                      NEW p \in Paths \ {Items[n].dir}, DirOf[p] = Items[n].dir,
                      fs'[p] # Absent
               PROVE  p \in Temps \/ \E m \in DOMAIN Items : m > n /\ Place(Items[m]) = p
    BY DEF Contained
  <1>1. p \in DirPaths \union PlacesOf(Copies \union Links) =>
          \E m \in DOMAIN Items : m > n /\ Place(Items[m]) = p
    BY DEF Private
  <1>2. CASE fs'[p] = fs[p]
    BY <1>2 DEF Contained
  <1>3. CASE fs'[p] # fs[p]
    <2>1. ~PathRemoved(p)
      BY DEF PathRemoved
    <2>2. PathMade(p) \/ PathGiven(p) => p \in DirPaths
      BY DEF PathMade, PathGiven
    <2>3. PathLinked(p) => p \in PlacesOf(Copies \union Links)
      BY Apart DEF PathLinked
    <2>4. PathCopied(p) => p \in Temps \union PlacesOf(Copies \union Links)
      BY Apart, CallListed DEF PathCopied
    <2> QED BY <1>1, <1>3, <2>1, <2>2, <2>3, <2>4, PathChange
  <1> QED BY <1>2, <1>3

\* A temporary file has the mode of a new one, of the one that was found, or the
\* one that is asked for.
LEMMA TemporaryMode ==
  ASSUME CopyInv, CopyStep \/ Kill, job.dst \in Short, fs'[DstTmp] # Absent
  PROVE  \/ fs'[DstTmp].mode \in {Created, job.mode}
         \/ fs[DstTmp] # Absent /\ fs'[DstTmp].mode = fs[DstTmp].mode
  <1> USE DEF CopyInv
  <1>0. fs \in [Paths -> Nodes] /\ DstTmp \in Paths /\ job.dst \in Paths
        /\ DstTmp # job.dst
    BY TmpNames DEF CopyTypeOK, DstTmp
  <1>1. CASE OpenTmp
    <2>1. fs'[DstTmp] = IF fs[DstTmp].kind = "file"
                        THEN File(Partial, fs[DstTmp].mode, fs[DstTmp].owner)
                        ELSE File(Partial, Created, Self)
      BY <1>0, <1>1 DEF OpenTmp
    <2> QED BY <2>1 DEF File, Node, Absent
  <1>2. CASE Flush \/ SetMode \/ SetOwner
    <2>1. fs[DstTmp].kind = "file" /\ fs[DstTmp] \in Nodes
      BY <1>0, <1>2 DEF Flush, SetMode, SetOwner, Stages, Working, Filled, Moded, Owned
    <2>2. /\ [fs[DstTmp] EXCEPT !.data = fs[job.src].data].mode = fs[DstTmp].mode
          /\ [fs[DstTmp] EXCEPT !.mode = job.mode].mode = job.mode
          /\ [fs[DstTmp] EXCEPT !.owner = job.uid].mode = fs[DstTmp].mode
      BY <2>1, FileFields DEF File, Node
    <2>3. \/ fs' = fs
          \/ fs' = [fs EXCEPT ![DstTmp] = [fs[DstTmp] EXCEPT !.data = fs[job.src].data]]
          \/ fs' = [fs EXCEPT ![DstTmp] = [fs[DstTmp] EXCEPT !.mode = job.mode]]
          \/ fs' = [fs EXCEPT ![DstTmp] = [fs[DstTmp] EXCEPT !.owner = job.uid]]
      BY <1>2 DEF Flush, SetMode, SetOwner
    <2>4. fs[DstTmp] # Absent
      BY <2>1 DEF Absent, Node
    <2> QED BY <1>0, <2>2, <2>3, <2>4
  <1>3. CASE Rename
    BY <1>0, <1>3 DEF Rename
  <1>4. CASE ~(Rename \/ OpenTmp \/ Flush \/ SetMode \/ SetOwner)
    <2>1. fs' = fs \/ fs' = [fs EXCEPT ![DstTmp] = Absent]
      BY <1>4 DEF CopyStep, OpenSrc, OpenSrcFails, OpenTmpFails, Copy, SetOwnerFails,
        CloseDst, CloseSrc, RenameFails, WriteFails, CleanUp, Abort, Kill
    <2> QED BY <1>0, <2>1
  <1> QED BY <1>1, <1>2, <1>3, <1>4

\* In the middle of a call, its steps alone, a kill, or the driver that goes on.
LEMMA CopyMoves ==
  ASSUME phase = "copy", InstallStep \/ KillProgram
  PROVE  ((CopyStep \/ Kill) /\ UNCHANGED dvars) \/ CopyReturns \/ Die
  BY DEF InstallStep, KillProgram, Copying, InitFails, InitSucceeds, ResolveFails,
    InRange, Finish, DryStep, CopyItem, RMkdir, Serves, MakeDir, Making, DirMade,
    LinkDirFails, LinkItem, CheckItem, RemoveItem

\* Of two copies with one temporary name.
LEMMA SameTemporary ==
  ASSUME Orderly, NEW m \in DOMAIN Items, NEW n \in DOMAIN Items,
         Items[m].op \in Copies, Items[n].op \in Copies,
         TmpOf[Place(Items[m])] = TmpOf[Place(Items[n])]
  PROVE  /\ Place(Items[m]) = Place(Items[n]) /\ Items[m].mode = Items[n].mode
         /\ Owner(Items[m]) = Owner(Items[n])
  <1>1. Place(Items[m]) = Place(Items[n])
    BY DEF Orderly, OrderlyFile, Copies
  <1>2. JobFrom(Home, Items[m]) = JobFrom(Home, Items[n])
    BY <1>1, PlacesAssumption
  <1> QED BY <1>1, <1>2 DEF JobFrom

LEMMA TemporaryPath ==
  ASSUME Orderly, IInv, [InstallNext]_vars, NEW q \in Temps, fs'[q] # fs[q]
  PROVE  /\ phase = "copy" /\ q = DstTmp /\ job.dst \in Short
         /\ (CopyStep \/ Kill) /\ UNCHANGED dvars
  <1>1. q \in Paths /\ q \notin DirPaths /\ q \notin PlacesOf(AllOps)
    <2>1. q \in Paths
      BY PathAssumption DEF Temps, Short
    <2> QED BY <2>1, Apart
  <1>2. ~PathMade(q) /\ ~PathGiven(q) /\ ~PathLinked(q)
    BY <1>1, Apart DEF PathMade, PathGiven, PathLinked
  <1>3. ~PathRemoved(q)
    <2> SUFFICES ASSUME RemoveItem PROVE Place(Item) # q
      BY DEF PathRemoved
    <2>1. index \in DOMAIN Items
      BY DEF RemoveItem, InRange
    <2> QED BY <1>1, <2>1, ItemsAre, PlaceListed DEF Item, AllOps
  <1>4. PathCopied(q)
    BY <1>1, <1>2, <1>3, PathChange
  <1>5. phase = "copy" /\ q = DstTmp /\ job.dst \in Short
    BY <1>1, <1>4, Apart, CallListed DEF PathCopied
  <1>6. InstallStep \/ KillProgram
    <2>1. \A x, d : ~Start(x, d)
      BY <1>5 DEF Start
    <2>2. ~(UNCHANGED vars)
      BY DEF vars, cvars
    <2> QED BY <2>1, <2>2 DEF InstallNext
  <1>7. (CopyStep \/ Kill) /\ UNCHANGED dvars
    <2>1. ~CopyReturns /\ ~Die
      BY DEF CopyReturns, Die, cvars
    <2> QED BY <1>5, <1>6, <2>1, CopyMoves
  <1> QED BY <1>5, <1>7

LEMMA UnreadStep ==
  ASSUME Orderly, IInv, Unread, [InstallNext]_vars
  PROVE  Unread'
  <1> SUFFICES ASSUME NEW n \in DOMAIN Items, Items[n].op \in Copies,
                      Place(Items[n]) \in Short, fs'[TmpOf[Place(Items[n])]] # Absent
               PROVE  fs'[TmpOf[Place(Items[n])]].mode \in Writable \union {Items[n].mode}
    BY DEF Unread
  <1> DEFINE q == TmpOf[Place(Items[n])]
  <1>1. q \in Temps
    BY DEF Temps
  <1>2. fs[q] # Absent => fs[q].mode \in Writable \union {Items[n].mode}
    BY DEF Unread
  <1>3. CASE fs'[q] = fs[q]
    BY <1>2, <1>3
  <1>4. CASE fs'[q] # fs[q]
    <2>1. /\ phase = "copy" /\ q = DstTmp /\ job.dst \in Short /\ (CopyStep \/ Kill)
      BY <1>1, <1>4, TemporaryPath
    <2>2. /\ index \in DOMAIN Items /\ Items[index].op \in Copies
          /\ job.dst = Place(Items[index]) /\ job.mode = Items[index].mode
      BY <2>1, CallListed DEF Item
    <2>3. job.mode = Items[n].mode
      BY <2>1, <2>2, SameTemporary DEF DstTmp
    <2>4. \/ fs'[q].mode \in {Created, job.mode}
          \/ fs[q] # Absent /\ fs'[q].mode = fs[q].mode
      BY <2>1, TemporaryMode DEF IInv
    <2> QED BY <1>2, <2>3, <2>4, FileAssumption
  <1> QED BY <1>3, <1>4

\* Within a run.
LEMMA Onward ==
  ASSUME IInv, InstallStep \/ KillProgram
  PROVE  /\ UNCHANGED <<program, dry, begun, root>> /\ phase # "done"
         /\ faults' \in Nat /\ faults' >= faults
         /\ Undisturbed' => Undisturbed /\ faults' = faults
  <1>1. UNCHANGED <<program, dry, begun, root>> /\ phase # "done"
    BY DEF InstallStep, KillProgram, Copying, InitFails, InitSucceeds, ResolveFails,
      InRange, Finish, DryStep, CopyItem, CopyReturns, Call, RMkdir, Serves, MakeDir,
      Making, DirMade, LinkDirFails, LinkItem, CheckItem, RemoveItem, Die, Steady,
      SameRun, Report, dvars, cvars, CopyStep, OpenSrc, OpenSrcFails, OpenTmp,
      OpenTmpFails, Copy, Flush, SetMode, SetOwner, SetOwnerFails, CloseDst, CloseSrc,
      Rename, RenameFails, WriteFails, CleanUp, Abort, Kill, Goto, Return
  <1>2. faults \in Nat /\ begun.faults \in Nat /\ begun.faults <= faults
    BY CopyBounds DEF IInv, DriverTypes, CopyInv, CopyTypeOK
  <1>3. faults' \in Nat /\ faults' >= faults
    <2>1. CASE LinkItem
      BY <1>2, <2>1 DEF LinkItem, Cost
    <2>2. CASE Copying \/ (phase = "copy" /\ Kill)
      BY <1>2, <2>2, CopyWrites, CopyBounds DEF Copying, IInv
    <2>3. CASE ~LinkItem /\ ~Copying /\ ~(phase = "copy" /\ Kill)
      <3>1. Fault \/ NoFault
        BY <2>3 DEF InstallStep, KillProgram, InitFails, InitSucceeds, ResolveFails,
          Finish, DryStep, CopyItem, CopyReturns, Call, RMkdir, MakeDir, DirMade,
          LinkDirFails, CheckItem, RemoveItem, Die, Steady, cvars, NoFault
      <3> QED BY <1>2, <3>1 DEF Fault, NoFault
    <2> QED BY <2>1, <2>2, <2>3
  <1>4. Undisturbed' => Undisturbed /\ faults' = faults
    BY <1>1, <1>2, <1>3 DEF Undisturbed
  <1> QED BY <1>1, <1>3, <1>4

----------------------------------------------------------------------------
LEMMA InitListInv == ASSUME Orderly, InstallInit PROVE ListInv
  <1>1. fs \in Trees /\ phase = "done" /\ exit = None /\ program = "installer"
    BY DEF InstallInit, CopyInit
  <1>2. Kinds
    <2>1. ASSUME NEW p \in DirPaths PROVE fs[p].kind \in {"none", "dir"}
      <3>1. PICK n \in DOMAIN Items :
              Items[n].op = "mkdir" /\ \E k \in DOMAIN Chain[Items[n].dir] : p = Chain[Items[n].dir][k]
        BY DEF DirPaths
      <3>2. OrderlyDirectory(n)
        BY <3>1 DEF Orderly
      <3> QED BY <1>1, <3>1, <3>2 DEF OrderlyDirectory
    <2>2. \A n \in DOMAIN Items : Items[n].op \in Copies \union Links =>
            fs[Place(Items[n])].kind # "dir"
      BY <1>1 DEF Orderly, OrderlyFile, Copies, Links
    <2>3. \A n \in DOMAIN Items : Items[n].op \in Copies =>
            fs[In[Home][Source(Items[n])]].kind = "file"
      BY <1>1 DEF Orderly, OrderlyFile, Copies
    <2>4. \A n \in DOMAIN Items : Items[n].op = "mkdir" =>
            fs[DirOf[Chain[Items[n].dir][1]]].kind = "dir"
      BY <1>1 DEF Orderly, OrderlyDirectory
    <2> QED BY <2>1, <2>2, <2>3, <2>4 DEF Kinds, PlacesOf
  <1>4. Unread
    <2>1. \A p \in Temps : fs[p] = Absent
      BY <1>1, TreesAssumption
    <2> QED BY <2>1 DEF Unread, Temps
  <1>5. Temporary /\ Calling /\ Paved /\ Repaired
    BY <1>1 DEF Temporary, Begun, Calling, Paved, Repaired, Running
  <1> QED BY <1>2, <1>4, <1>5 DEF ListInv

LEMMA InitRemovalInv == ASSUME Private, InstallInit PROVE RemovalInv
  <1>1. fs \in Trees /\ program = "installer"
    BY DEF InstallInit, CopyInit
  <1> QED BY <1>1 DEF RemovalInv, Contained, Private, Gone

\* A step of a run, the start of one, or none.
LEMMA Moves ==
  ASSUME [InstallNext]_vars
  PROVE  \/ InstallStep \/ KillProgram
         \/ \E p \in {"installer", "instchk", "deinstaller"}, d \in BOOLEAN : Start(p, d)
         \/ UNCHANGED vars
  BY DEF InstallNext

LEMMA TemporaryStep ==
  ASSUME Orderly, IInv, Temporary, Calling, [InstallNext]_vars
  PROVE  Temporary'
  <1>1. CASE \E p \in {"installer", "instchk", "deinstaller"}, d \in BOOLEAN : Start(p, d)
    <2>1. fs' = fs /\ begun'.temps = {q \in Temps : fs[q] # Absent}
      BY <1>1 DEF Start, cvars
    <2> QED BY <2>1 DEF Temporary
  <1>2. CASE UNCHANGED vars
    <2>1. DstTmp' = DstTmp
      BY <1>2 DEF vars, cvars, DstTmp
    <2> QED BY <1>2, <2>1 DEF vars, cvars, dvars, Temporary, Begun, Undisturbed
  <1>3. CASE InstallStep \/ KillProgram
    <2> SUFFICES ASSUME Begun', Undisturbed', NEW q \in Temps, fs'[q] # Absent
                 PROVE  q \in begun'.temps \/ (phase' = "copy" /\ q = DstTmp')
      BY DEF Temporary
    <2>1. Undisturbed /\ begun' = begun /\ phase # "done"
      BY <1>3, Onward
    <2>2. ASSUME (CopyStep \/ Kill) /\ UNCHANGED dvars, phase = "copy", q = DstTmp
          PROVE  phase' = "copy" /\ q = DstTmp'
      BY <2>2, CopyWrites DEF IInv, dvars, DstTmp
    <2>3. CASE fs'[q] # fs[q]
      BY <2>2, <2>3, TemporaryPath
    <2>4. CASE fs'[q] = fs[q] /\ phase = "copy" /\ q = DstTmp
      <3>1. ~Die
        BY DEF Die, Begun
      <3>2. job.dst \in Short
        BY <2>4, TmpNames DEF IInv, CopyInv, CopyTypeOK, DstTmp
      <3>3. ~CopyReturns
        BY <2>1, <2>4, <3>2 DEF CopyReturns, Calling
      <3> QED BY <1>3, <2>2, <2>4, <3>1, <3>3, CopyMoves
    <2>5. CASE fs'[q] = fs[q] /\ ~(phase = "copy" /\ q = DstTmp)
      BY <2>1, <2>5 DEF Temporary, Begun
    <2> QED BY <2>3, <2>4, <2>5
  <1> QED BY <1>1, <1>2, <1>3, Moves

\* What the deinstaller cannot remove is not there.
LEMMA NothingLeft ==
  ASSUME Orderly, IInv, Kinds, Contained, Temporary, Gone, InRange,
         program = "deinstaller", ~dry, Undisturbed, begun.temps = {}, ~Removable(Item)
  PROVE  fs[Place(Item)] = Absent
  <1>0. fs \in [Paths -> Nodes] /\ index \in DOMAIN Items /\ phase = "item"
    BY DEF IInv, CopyInv, CopyTypeOK, InRange
  <1>1. Place(Item) \in Paths /\ (Item.op = "mkdir" => Place(Item) = Item.dir)
        /\ Item.op \in Copies \union Links \union {"mkdir"}
    BY <1>0, ItemFacts, ItemsAre DEF Item
  <1>2. \A n \in DOMAIN Items : n > index => fs[Place(Items[n])] = Absent
    BY <1>0 DEF Gone
  <1>3. CASE Item.op = "mkdir"
    <2>1. fs[Item.dir].kind \in {"none", "dir"}
      BY <1>0, <1>3, Apart DEF Kinds, Item
    <2>2. Empty(Item.dir)
      <3> SUFFICES ASSUME NEW p \in Paths \ {Item.dir}, DirOf[p] = Item.dir, fs[p] # Absent
                   PROVE  FALSE
        BY DEF Empty
      <3>1. p \in Temps \/ \E m \in DOMAIN Items : m > index /\ Place(Items[m]) = p
        BY <1>0, <1>3 DEF Contained, Item
      <3>2. p \notin Temps
        BY <1>0 DEF Temporary, Begun
      <3> QED BY <1>2, <3>1, <3>2
    <2>3. fs[Item.dir].kind = "none"
      BY <1>3, <2>1, <2>2 DEF Removable
    <2> QED BY <1>0, <1>1, <1>3, <2>3, AbsentIsNone
  <1>4. CASE Item.op \in Copies \union Links
    <2>1. fs[Place(Item)].kind # "dir"
      BY <1>0, <1>4, PlaceListed DEF Kinds, Item
    <2>2. fs[Place(Item)].kind \notin {"file", "symlink"}
      BY <1>4 DEF Removable, Copies, Links
    <2>3. fs[Place(Item)].kind \in {"none", "file", "dir", "symlink"}
      BY <1>0, <1>1 DEF Nodes, Files, Absent, File, Directory, Symlink, Node
    <2> QED BY <1>0, <1>1, <2>1, <2>2, <2>3, AbsentIsNone
  <1> QED BY <1>1, <1>3, <1>4

LEMMA GoneStep ==
  ASSUME Orderly, IInv, Kinds, Contained, Temporary, Gone, [InstallNext]_vars
  PROVE  Gone'
  <1>1. CASE \E p \in {"installer", "instchk", "deinstaller"}, d \in BOOLEAN : Start(p, d)
    BY <1>1 DEF Start, Gone
  <1>2. CASE UNCHANGED vars
    BY <1>2 DEF vars, cvars, dvars, Gone, Undisturbed
  <1>3. CASE InstallStep \/ KillProgram
    <2> SUFFICES ASSUME program' = "deinstaller", ~dry', Undisturbed', begun'.temps = {},
                        phase' = "item" \/ exit' # None
                 PROVE  /\ index' <= Len(Items)
                        /\ \A n \in DOMAIN Items : n > index' => fs'[Place(Items[n])] = Absent
      BY DEF Gone
    <2>1. /\ program = "deinstaller" /\ ~dry /\ Undisturbed /\ begun.temps = {}
          /\ phase # "done" /\ faults' = faults /\ faults \in Nat
      BY <1>3, Onward, CopyBounds DEF IInv, CopyInv, CopyTypeOK
    <2>2. phase \in {"init", "item"}
      BY <2>1 DEF IInv, DriverTypes, Control
    <2>3. phase = "item" =>
            /\ index <= Len(Items)
            /\ \A n \in DOMAIN Items : n > index => fs[Place(Items[n])] = Absent
      BY <2>1 DEF Gone
    <2>4. ~Fault
      BY <2>1 DEF Fault
    <2>5. CASE InitSucceeds
      BY <2>1, <2>5, ItemsAre DEF InitSucceeds
    <2>6. CASE Finish
      BY <2>3, <2>6 DEF Finish, cvars
    <2>7. CASE RemoveItem
      <3>0. /\ fs \in [Paths -> Nodes] /\ index \in DOMAIN Items /\ InRange /\ phase = "item"
            /\ Place(Item) \in Paths /\ \A n \in DOMAIN Items : Place(Items[n]) \in Paths
        BY <2>7, ItemFacts DEF RemoveItem, InRange, IInv, CopyInv, CopyTypeOK, Item
      <3>1. index' = index - 1
        BY <2>1, <2>7 DEF RemoveItem, Report, Following
      <3>2. \A n \in DOMAIN Items : n > index' => n > index \/ n = index
        BY <3>0, <3>1, ItemsAre
      <3>5. index' <= Len(Items)
        BY <2>3, <3>0, <3>1, ItemsAre
      <3>3. CASE Removable(Item) /\ fs' = [fs EXCEPT ![Place(Item)] = Absent]
        BY <2>3, <3>0, <3>2, <3>3, <3>5 DEF Item
      <3>4. CASE ~Removable(Item) /\ fs' = fs
        BY <2>1, <2>3, <3>0, <3>2, <3>4, <3>5, NothingLeft DEF Item
      <3> QED BY <2>4, <2>7, <3>3, <3>4 DEF RemoveItem
    <2>8. CASE KillProgram
      BY <2>2, <2>8 DEF KillProgram
    <2>9. ~(InitFails \/ ResolveFails \/ DryStep \/ CopyItem \/ Copying \/ CopyReturns
            \/ RMkdir \/ MakeDir \/ DirMade \/ LinkDirFails \/ LinkItem \/ CheckItem \/ Die)
      BY <2>1, <2>2, <2>4 DEF InitFails, ResolveFails, DryStep, Serves, CopyItem, Copying,
        CopyReturns, RMkdir, MakeDir, Making, DirMade, LinkDirFails, LinkItem, CheckItem, Die
    <2> QED BY <1>3, <2>5, <2>6, <2>7, <2>8, <2>9 DEF InstallStep
  <1> QED BY <1>1, <1>2, <1>3, Moves

LEMMA PavedStep ==
  ASSUME Orderly, IInv, Kinds, Paved, [InstallNext]_vars
  PROVE  Paved'
  <1>0. fs \in [Paths -> Nodes] /\ depth \in Nat
    BY DEF IInv, DriverTypes, CopyInv, CopyTypeOK
  <1>1. CASE UNCHANGED vars
    BY <1>1 DEF vars, cvars, dvars, Paved, Undisturbed, Item
  <1>2. CASE RMkdir
    <2>1. depth' = 1
      BY <1>2 DEF RMkdir
    <2>2. index' = index /\ index \in DOMAIN Items
      BY <1>2 DEF RMkdir, Serves, InRange
    <2>3. Chain[Item.dir] \in Seq(Targets)
      BY <2>2, ItemFacts DEF Item
    <2>4. \A k \in DOMAIN Chain[Item.dir] : ~(k < 1)
      <3> DEFINE c == Chain[Item.dir]
      <3> HIDE DEF c
      <3>1. c \in Seq(Targets) => \A k \in DOMAIN c : ~(k < 1)
        OBVIOUS
      <3> QED BY <2>3, <3>1 DEF c
    <2> QED BY <2>1, <2>2, <2>4 DEF Paved, Item
  <1>3. CASE MakeDir
    <2> SUFFICES ASSUME Undisturbed'
                 PROVE  /\ depth' # 0
                        /\ \A k \in DOMAIN Chain[Item'.dir] :
                             k < depth' => fs'[Chain[Item'.dir][k]].kind = "dir"
      BY DEF Paved
    <2> DEFINE c == Chain[Item.dir]
    <2>1. /\ phase = "mkdir" /\ depth \in DOMAIN c /\ Item.op = "mkdir"
          /\ index \in DOMAIN Items /\ Item' = Item /\ depth' = depth + 1
      BY <1>3 DEF MakeDir, Making, IInv, Control, Item
    <2>2. Undisturbed /\ faults' = faults /\ faults \in Nat
      BY <1>3, Onward, CopyBounds DEF InstallStep, IInv, CopyInv, CopyTypeOK
    <2>3. ~Fault
      BY <2>2 DEF Fault
    <2>4. \A k \in DOMAIN c : k < depth => fs[c[k]].kind = "dir"
      BY <2>1, <2>2 DEF Paved
    <2>5. /\ \A k \in 2 .. Len(c) : DirOf[c[k]] = c[k - 1]
          /\ fs[DirOf[c[1]]].kind = "dir"
          /\ \A k \in DOMAIN c : fs[c[k]].kind \in {"none", "dir"} /\ c[k] \in Paths
      <3>1. \A k \in DOMAIN c : c[k] \in DirPaths
        BY <2>1, ChainListed DEF Item
      <3>2. /\ \A k \in 2 .. Len(c) : DirOf[c[k]] = c[k - 1]
            /\ fs[DirOf[c[1]]].kind = "dir"
        BY <2>1 DEF Orderly, OrderlyDirectory, Item, Kinds
      <3> QED BY <3>1, <3>2, Apart DEF Kinds
    <2>6. c \in Seq(Targets)
      BY <2>1, ItemFacts DEF Item
    <2>7. \/ Makeable(c[depth]) /\ fs' = [fs EXCEPT ![c[depth]] = Directory(Masked[Item.mode], Self)]
          \/ ~Makeable(c[depth]) /\ fs' = fs
      BY <1>3, <2>3 DEF MakeDir
    <2> HIDE DEF c
    <2>8. DOMAIN c = 1 .. Len(c) /\ Len(c) \in Nat
      BY <2>6
    <2>9. fs[DirOf[c[depth]]].kind = "dir"
      <3>1. CASE depth = 1
        BY <2>5, <3>1
      <3>2. CASE depth # 1
        <4>1. depth \in 2 .. Len(c) /\ depth - 1 \in DOMAIN c /\ depth - 1 < depth
          BY <1>0, <2>1, <2>8, <3>2
        <4> QED BY <2>4, <2>5, <4>1
      <3> QED BY <3>1, <3>2
    <2>10. fs'[c[depth]].kind = "dir"
      <3>1. Directory(Masked[Item.mode], Self).kind = "dir"
        BY DEF Directory, Node
      <3>2. fs[c[depth]].kind = "none" => fs[c[depth]] = Absent
        BY <1>0, <2>1, <2>5, AbsentIsNone
      <3> QED BY <1>0, <2>1, <2>5, <2>7, <2>9, <3>1, <3>2 DEF Makeable
    <2>11. ASSUME NEW k \in DOMAIN c, k < depth PROVE fs'[c[k]].kind = "dir"
      <3>1. fs[c[k]].kind = "dir"
        BY <2>4, <2>11
      <3>2. Makeable(c[depth]) => c[k] # c[depth]
        BY <3>1, AbsentIsNone DEF Makeable
      <3> QED BY <1>0, <2>5, <2>7, <3>1, <3>2
    <2>12. ASSUME NEW k \in DOMAIN c, k < depth' PROVE fs'[c[k]].kind = "dir"
      BY <1>0, <2>1, <2>8, <2>10, <2>11, <2>12
    <2>13. depth' # 0
      BY <1>0, <2>1
    <2> QED BY <2>1, <2>12, <2>13 DEF c
  <1>4. CASE ~RMkdir /\ ~MakeDir /\ ~(UNCHANGED vars)
    <2>1. phase' # "mkdir"
      BY <1>4 DEF InstallNext, InstallStep, KillProgram, Copying, InitFails, InitSucceeds,
        ResolveFails, InRange, Finish, DryStep, CopyItem, CopyReturns, Serves, DirMade,
        LinkDirFails, LinkItem, CheckItem, RemoveItem, Die, Start, Report, dvars
    <2> QED BY <2>1 DEF Paved
  <1> QED BY <1>1, <1>2, <1>3, <1>4

\* The directory of a copy or link that the installer comes to is there.
LEMMA DirThere ==
  ASSUME Orderly, IInv, Repaired, Running, Undisturbed, index \in DOMAIN Items,
         Item.op \in Copies \union Links
  PROVE  /\ fs[Item.dir].kind = "dir" /\ cwd = Home
         /\ Item.op \in Copies => DirOf[TmpOf[Place(Item)]] = Item.dir
  <1>1. PICK m \in DOMAIN Items : m < index /\ Items[m].op = "mkdir" /\ Items[m].dir = Item.dir
    BY DEF Orderly, OrderlyFile, Item, Copies, Links
  <1>2. Served(m) /\ cwd = Home
    BY <1>1 DEF Repaired
  <1>3. Item.op \in Copies => DirOf[TmpOf[Place(Item)]] = Item.dir
    BY DEF Orderly, OrderlyFile, Item, Copies
  <1> QED BY <1>1, <1>2, <1>3 DEF Served

\* The temporary file cannot be opened only if the call is blocked.
LEMMA CannotOpen ==
  ASSUME Orderly, IInv, Unread, Calling, Repaired, phase = "copy", Undisturbed,
         job.dst \in Short, at = "open_tmp", ~CanOpenTmp
  PROVE  Blocked(Item)
  <1>1. /\ index \in DOMAIN Items /\ Item.op \in Copies /\ job.dst = Place(Item)
        /\ job \in Jobs /\ Running
    BY CallListed DEF IInv, CopyInv, CopyTypeOK, Control, Running
  <1>2. fs[DirOf[DstTmp]].kind = "dir"
    BY <1>1, DirThere DEF DstTmp
  <1>3. DstTmp \in Temps /\ fs[DstTmp] # Absent
    <2>1. DstTmp \in Temps
      BY DEF DstTmp, Temps
    <2>2. fs[DstTmp].kind # "none"
      BY <1>2 DEF CanOpenTmp
    <2> QED BY <2>1, <2>2, AbsentIsNone
  <1>4. fs[DstTmp].kind = "file"
    BY <1>3 DEF IInv, CopyInv, Leftovers
  <1>5. ~root /\ fs[DstTmp].mode \notin Writable
    BY <1>2, <1>4 DEF CanOpenTmp
  <1>6. fs[DstTmp].mode \in Writable \union {Item.mode}
    BY <1>1, <1>3 DEF Unread, DstTmp, Item
  <1>7. DstTmp \in begun.temps
    BY <1>3 DEF Calling
  <1> QED BY <1>1, <1>5, <1>6, <1>7 DEF Blocked, DstTmp

LEMMA CallingStep ==
  ASSUME Orderly, IInv, Kinds, Unread, Temporary, Calling, Repaired, [InstallNext]_vars
  PROVE  Calling'
  <1>1. CASE UNCHANGED vars
    <2>1. DstTmp' = DstTmp /\ Item' = Item
      BY <1>1 DEF vars, cvars, dvars, DstTmp, Item
    <2> QED BY <1>1, <2>1 DEF vars, cvars, dvars, Calling, Undisturbed, Mine, Blocked
  <1>2. CASE CopyItem
    <2> SUFFICES ASSUME Undisturbed', job'.dst \in Short, fs'[DstTmp'] # Absent
                 PROVE  DstTmp' \in begun'.temps
      BY <1>2 DEF Calling, CopyItem, Call
    <2>1. Undisturbed /\ begun' = begun /\ fs' = fs /\ phase = "item"
      BY <1>2, Onward DEF InstallStep, CopyItem, Serves, InRange, Call
    <2>2. DstTmp' \in Temps
      BY DEF Temps, DstTmp
    <2> QED BY <2>1, <2>2 DEF Temporary, Begun
  <1>3. CASE phase = "copy" /\ (CopyStep \/ Kill) /\ UNCHANGED dvars
    <2> SUFFICES ASSUME Undisturbed', job'.dst \in Short
                 PROVE  /\ at' = "err" \/ (at' = "idle" /\ status' = "error")
                              => ~Mine(Item)' \/ Blocked(Item)'
                        /\ at' = "idle" /\ status' # "killed" => fs'[DstTmp'] = Absent
                        /\ at' \in {"open_src", "open_tmp"} /\ fs'[DstTmp'] # Absent
                              => DstTmp' \in begun'.temps
      BY DEF Calling
    <2>1. job' = job /\ DstTmp' = DstTmp /\ Item' = Item /\ begun' = begun
      BY <1>3, CopyWrites DEF IInv, dvars, Item, DstTmp
    <2>2. InstallStep \/ KillProgram
      BY <1>3 DEF InstallStep, Copying, KillProgram
    <2>3. Undisturbed /\ faults' = faults /\ faults \in Nat /\ root' = root
      BY <2>2, Onward, CopyBounds DEF IInv, CopyInv, CopyTypeOK
    <2>4. Mine(Item)' = Mine(Item) /\ Blocked(Item)' = Blocked(Item)
      BY <2>1, <2>3 DEF Mine, Blocked
    <2>5. ~Fault
      BY <2>3 DEF Fault
    <2>6. /\ index \in DOMAIN Items /\ Item.op \in Copies /\ job.dst = Place(Item)
          /\ job.uid = Owner(Item) /\ job = JobOf(Item) /\ Running
          /\ job.dst \in PlacesOf(Copies)
      BY <1>3, CallListed DEF IInv, Control, Running
    <2>7. /\ fs \in [Paths -> Nodes] /\ DstTmp \in Paths /\ job.dst \in Paths
          /\ DstTmp # job.dst /\ DstTmp \in Temps
      BY <2>1, TmpNames DEF IInv, CopyInv, CopyTypeOK, DstTmp
    <2>8. /\ at = "err" => ~Mine(Item) \/ Blocked(Item)
          /\ at \in {"open_src", "open_tmp"} /\ fs[DstTmp] # Absent => DstTmp \in begun.temps
      BY <1>3, <2>1, <2>3 DEF Calling
    <2>9. CASE OpenSrc
      BY <2>1, <2>8, <2>9 DEF OpenSrc, Goto
    <2>10. ~OpenSrcFails
      <3>1. cwd = Home
        BY <2>3, <2>6 DEF Repaired
      <3>2. fs[job.src].kind = "file"
        BY <2>6, <3>1 DEF Kinds, JobOf, JobFrom, Item
      <3> QED BY <2>5, <3>2 DEF OpenSrcFails
    <2>11. CASE OpenTmp \/ Copy \/ Flush \/ SetMode \/ SetOwner \/ CloseDst \/ CloseSrc
      BY <2>5, <2>11 DEF OpenTmp, Copy, Flush, SetMode, SetOwner, CloseDst, CloseSrc, Goto
    <2>12. CASE OpenTmpFails
      <3>1. at = "open_tmp" /\ ~CanOpenTmp /\ at' = "err"
        BY <2>5, <2>12 DEF OpenTmpFails, Goto
      <3>2. Blocked(Item)
        BY <1>3, <2>1, <2>3, <3>1, CannotOpen
      <3> QED BY <2>4, <3>1, <3>2
    <2>13. CASE SetOwnerFails
      <3>1. at' = "err" /\ job.uid # Self /\ ~root
        BY <2>5, <2>13 DEF SetOwnerFails, Goto, Foreign
      <3>2. ~Mine(Item)
        BY <2>6, <3>1 DEF Mine
      <3> QED BY <2>4, <3>1, <3>2
    <2>14. CASE Rename
      <3>1. at' = "idle" /\ status' = "ok"
        BY <2>14 DEF Rename, Return, Goto
      <3>2. fs'[DstTmp] = Absent
        BY <2>7, <2>14 DEF Rename
      <3> QED BY <2>1, <3>1, <3>2
    <2>15. ~RenameFails /\ ~WriteFails
      BY <2>5, <2>6, Apart DEF RenameFails, WriteFails, Kinds
    <2>16. CASE CleanUp
      <3>1. at = "err" /\ at' = "idle"
        BY <2>16 DEF CleanUp, Return, Goto
      <3>2. fs[DstTmp].kind \in {"none", "file"}
        BY <2>7, AbsentIsNone DEF IInv, CopyInv, Leftovers
      <3>3. fs'[DstTmp] = Absent
        BY <2>5, <2>7, <2>16, <3>2 DEF CleanUp
      <3> QED BY <2>1, <2>4, <2>8, <3>1, <3>3
    <2>17. CASE Abort \/ Kill
      BY <2>17 DEF Abort, Kill, Return, Goto
    <2> QED BY <1>3, <2>9, <2>10, <2>11, <2>12, <2>13, <2>14, <2>15, <2>16, <2>17 DEF CopyStep
  <1>4. CASE ~(UNCHANGED vars) /\ ~CopyItem /\ ~(phase = "copy" /\ (CopyStep \/ Kill) /\ UNCHANGED dvars)
    <2>1. phase' # "copy"
      BY <1>4 DEF InstallNext, InstallStep, KillProgram, Copying, InitFails, InitSucceeds,
        ResolveFails, InRange, Finish, DryStep, CopyReturns, Serves, RMkdir, MakeDir, Making,
        DirMade, LinkDirFails, LinkItem, CheckItem, RemoveItem, Die, Start, Report, dvars
    <2> QED BY <2>1 DEF Calling
  <1> QED BY <1>1, <1>2, <1>3, <1>4

\* The steps of the installer in a run that nothing disturbs.
LEMMA InstallerMoves ==
  ASSUME IInv, InstallStep \/ KillProgram, Running', Undisturbed'
  PROVE  /\ program = "installer" /\ ~dry /\ Undisturbed /\ ~Fault /\ UNCHANGED <<begun, root>>
         /\ phase = "init" \/ Running
         /\ \/ InitSucceeds \/ Finish \/ CopyItem \/ CopyReturns \/ RMkdir \/ MakeDir
            \/ DirMade \/ LinkDirFails \/ LinkItem
            \/ phase = "copy" /\ (CopyStep \/ Kill) /\ UNCHANGED dvars
  <1>1. /\ program = "installer" /\ ~dry /\ Undisturbed /\ phase # "done"
        /\ faults' = faults /\ faults \in Nat /\ UNCHANGED <<begun, root>>
    BY Onward, CopyBounds DEF Running, IInv, CopyInv, CopyTypeOK
  <1>2. ~Fault
    BY <1>1 DEF Fault
  <1>3. phase = "init" \/ Running
    BY <1>1 DEF Running, IInv, DriverTypes
  <1>4. ~(InitFails \/ ResolveFails \/ DryStep \/ CheckItem \/ RemoveItem)
    BY <1>1, <1>2 DEF InitFails, ResolveFails, DryStep, CheckItem, RemoveItem
  <1>5. ~Die
    BY DEF Die, Running
  <1>6. KillProgram => phase = "copy" /\ Kill /\ UNCHANGED dvars
    BY DEF KillProgram, Running
  <1> QED BY <1>1, <1>2, <1>3, <1>4, <1>5, <1>6 DEF InstallStep, Copying

\* What the installer has served stays so.
LEMMA ServedStays ==
  ASSUME Orderly, IInv, Calling, InstallStep \/ KillProgram, Running', Undisturbed',
         NEW n \in DOMAIN Items, Served(n), n \notin reported => n \notin reported'
  PROVE  Served(n)'
  <1> DEFINE i == Items[n]
  <1>0. /\ fs \in [Paths -> Nodes] /\ [InstallNext]_vars /\ ~RemoveItem
        /\ UNCHANGED <<begun, root>> /\ Undisturbed
    BY InstallerMoves DEF IInv, CopyInv, CopyTypeOK, InstallNext, RemoveItem
  <1>1. ASSUME i.op = "mkdir" PROVE fs'[i.dir].kind = "dir"
    <2>1. fs[i.dir].kind = "dir" /\ i.dir \in DirPaths
      BY <1>1, Apart DEF Served
    <2>2. i.dir \in Paths /\ i.dir \notin Temps /\ i.dir \notin PlacesOf(Copies)
          /\ i.dir \notin PlacesOf(Links)
      BY <2>1, Apart
    <2> HIDE DEF i
    <2>3. ~PathCopied(i.dir)
      BY <2>2, CallListed DEF PathCopied
    <2>4. fs[i.dir] # Absent
      BY <2>1, AbsentIsNone
    <2> QED BY <1>0, <2>1, <2>2, <2>3, <2>4, PathChange
            DEF PathMade, PathGiven, PathLinked, PathRemoved
  <1>2. ASSUME i.op \in Links PROVE fs'[Place(i)] # Absent
    <2>1. fs[Place(i)] # Absent /\ Place(i) \in PlacesOf(Links)
      BY <1>2, PlaceListed DEF Served
    <2> HIDE DEF i
    <2>2. Place(i) \in Paths /\ Place(i) \notin Temps /\ Place(i) \notin PlacesOf(Copies)
          /\ Place(i) \notin DirPaths
      BY <2>1, Apart
    <2>3. ~PathCopied(Place(i))
      BY <2>2, CallListed DEF PathCopied
    <2> QED BY <1>0, <2>1, <2>2, <2>3, PathChange
            DEF PathMade, PathGiven, PathLinked, PathRemoved
  <1>3. ASSUME i.op \in Copies, Place(i) \in Short
        PROVE  \/ fs'[TmpOf[Place(i)]] = Absent
               \/ phase' = "copy" /\ TmpOf[Place(i)] = DstTmp'
    <2> DEFINE q == TmpOf[Place(i)]
    <2>1. q \in Temps
      BY <1>3 DEF Temps
    <2>2. fs[q] = Absent \/ (phase = "copy" /\ q = DstTmp)
      BY <1>3 DEF Served
    <2> HIDE DEF q
    <2>3. ASSUME (CopyStep \/ Kill) /\ UNCHANGED dvars, phase = "copy", q = DstTmp
          PROVE  phase' = "copy" /\ q = DstTmp'
      BY <2>3, CopyWrites DEF IInv, dvars, DstTmp
    <2>4. CASE fs'[q] # fs[q]
      BY <1>0, <2>1, <2>3, <2>4, TemporaryPath DEF q
    <2>5. CASE fs'[q] = fs[q] /\ phase = "copy" /\ q = DstTmp
      <3>1. job.dst \in Short
        BY <2>1, <2>5, TmpNames DEF IInv, CopyInv, CopyTypeOK, DstTmp
      <3>2. CopyReturns => fs[q] = Absent
        BY <1>0, <2>5, <3>1 DEF CopyReturns, Calling
      <3>3. ~Die
        BY DEF Die, Running
      <3> QED BY <2>3, <2>5, <3>2, <3>3, CopyMoves DEF q
    <2> QED BY <2>2, <2>4, <2>5 DEF q
  <1>4. i.op \in Copies /\ Place(i) \in Short /\ Mine(i)' => n \notin reported' \/ Blocked(i)'
    BY <1>0 DEF Served, Mine, Blocked
  <1> QED BY <1>1, <1>2, <1>3, <1>4 DEF Served

\* What the installer turns to next is served when it does.
LEMMA ServedNow ==
  ASSUME Orderly, IInv, Kinds, Calling, Paved, Repaired, Running', Undisturbed',
         CopyReturns \/ DirMade \/ LinkItem, NEW n \in DOMAIN Items, n = index
  PROVE  Served(n)' /\ index' = index + 1 /\ cwd' = cwd
  <1>0. /\ fs \in [Paths -> Nodes] /\ program = "installer" /\ ~dry /\ Undisturbed /\ ~Fault
        /\ UNCHANGED <<begun, root>> /\ Running
    <2>1. InstallStep
      BY DEF InstallStep
    <2> QED BY <2>1, InstallerMoves DEF IInv, CopyInv, CopyTypeOK, CopyReturns, DirMade,
              LinkItem, Serves, InRange
  <1>1. index' = index + 1
    BY <1>0 DEF CopyReturns, DirMade, LinkItem, Report, Following
  <1>2. CASE CopyReturns
    <2>1. /\ phase = "copy" /\ at = "idle" /\ status # "killed" /\ fs' = fs /\ cwd' = cwd
          /\ reported' = IF status = "error" THEN reported \union {n} ELSE reported
      BY <1>2 DEF CopyReturns, Report, cvars
    <2>2. Item.op \in Copies /\ job.dst = Place(Item)
      BY <2>1, CallListed
    <2>3. ASSUME Place(Item) \in Short
          PROVE  /\ fs'[TmpOf[Place(Item)]] = Absent
                 /\ Mine(Item) => n \notin reported' \/ Blocked(Item)
      <3>1. fs[DstTmp] = Absent /\ (status = "error" => ~Mine(Item) \/ Blocked(Item))
        BY <1>0, <2>1, <2>2, <2>3 DEF Calling
      <3>2. n \notin reported
        BY <1>0, ItemsAre DEF Repaired
      <3> QED BY <2>1, <2>2, <3>1, <3>2 DEF DstTmp
    <2>4. Item.op # "mkdir" /\ Item.op \notin Links
      BY <2>2 DEF Copies, Links
    <2> QED BY <1>0, <1>1, <2>1, <2>3, <2>4 DEF Served, Item, Mine, Blocked
  <1>3. CASE DirMade
    <2>1. phase = "mkdir" /\ ~Making /\ Item.op = "mkdir" /\ cwd' = cwd
      BY <1>3 DEF DirMade, IInv, Control
    <2>2. fs[Item.dir].kind = "dir"
      <3> DEFINE c == Chain[Item.dir]
      <3>1. /\ c # <<>> /\ c[Len(c)] = Item.dir
        BY <2>1 DEF Orderly, OrderlyDirectory, Item
      <3>2. c \in Seq(Targets)
        BY ItemFacts DEF Item
      <3>3. depth \in Nat /\ depth # 0 /\ depth \notin DOMAIN c
            /\ \A k \in DOMAIN c : k < depth => fs[c[k]].kind = "dir"
        BY <1>0, <2>1 DEF Paved, Making, IInv, DriverTypes
      <3> HIDE DEF c
      <3>4. Len(c) \in DOMAIN c /\ Len(c) < depth
        BY <3>1, <3>2, <3>3
      <3> QED BY <3>1, <3>3, <3>4
    <2>3. fs'[Item.dir].kind = "dir"
      <3>1. CASE fs' = fs
        BY <2>2, <3>1
      <3>2. CASE fs' = [fs EXCEPT ![Item.dir].owner = Owner(Item)]
        <4>1. Item.dir \in Paths /\ fs[Item.dir] \in Nodes
          BY <1>0, ItemsAre DEF Item
        <4>2. fs'[Item.dir] = [fs[Item.dir] EXCEPT !.owner = Owner(Item)]
          BY <1>0, <3>2, <4>1
        <4> QED BY <2>2, <4>1, <4>2 DEF Nodes, Files, Absent, File, Directory, Symlink, Node
      <3> QED BY <1>3, <3>1, <3>2 DEF DirMade
    <2>4. Item.op \notin Copies \union Links
      BY <2>1 DEF Copies, Links
    <2> QED BY <1>1, <2>1, <2>3, <2>4 DEF Served, Item
  <1>4. CASE LinkItem
    <2>1. Item.op \in Links
      BY <1>4 DEF LinkItem, Serves
    <2>2. PICK broken \in BOOLEAN, stuck \in BOOLEAN :
            /\ faults' = faults + Cost(broken) + Cost(stuck)
            /\ fs' = IF ~dry /\ ~broken /\ fs[Place(Item)] = Absent
                     THEN [fs EXCEPT ![Place(Item)] = Symlink(In[Item.dir][Source(Item)])]
                     ELSE fs
            /\ cwd' = IF stuck THEN Item.dir ELSE cwd
      BY <1>4 DEF LinkItem
    <2>3. ~broken /\ ~stuck
      <3>1. faults' = faults /\ faults \in Nat
        BY <1>4, Onward, CopyBounds DEF InstallStep, IInv, CopyInv, CopyTypeOK
      <3> QED BY <2>2, <3>1 DEF Cost
    <2>4. fs'[Place(Item)] # Absent
      <3>1. Place(Item) \in Paths
        BY ItemFacts DEF Item
      <3> QED BY <1>0, <2>2, <2>3, <3>1 DEF Symlink, Absent, Node
    <2>5. Item.op # "mkdir" /\ Item.op \notin Copies
      BY <2>1 DEF Copies, Links
    <2> QED BY <1>1, <2>2, <2>3, <2>4, <2>5 DEF Served, Item
  <1> QED BY <1>1, <1>2, <1>3, <1>4

LEMMA RepairedStep ==
  ASSUME Orderly, IInv, Kinds, Calling, Paved, Repaired, [InstallNext]_vars
  PROVE  Repaired'
  <1>1. CASE UNCHANGED vars
    <2>1. DstTmp' = DstTmp
      BY <1>1 DEF vars, cvars, DstTmp
    <2> QED BY <1>1, <2>1 DEF vars, cvars, dvars, Repaired, Running, Undisturbed, Served,
              Mine, Blocked
  <1>2. CASE \E p \in {"installer", "instchk", "deinstaller"}, d \in BOOLEAN : Start(p, d)
    BY <1>2 DEF Start, Repaired, Running
  <1>3. CASE InstallStep \/ KillProgram
    <2> SUFFICES ASSUME Running', Undisturbed'
                 PROVE  /\ cwd' = Home /\ \A n \in reported' : n < index'
                        /\ \A n \in DOMAIN Items : n < index' => Served(n)'
      BY DEF Repaired
    <2>0. /\ ~Fault /\ Undisturbed /\ (phase = "init" \/ Running)
          /\ program = "installer" /\ ~dry
      BY <1>3, InstallerMoves
    <2>1. CASE phase = "init"
      <3>1. InitSucceeds
        BY <1>3, <2>1, InstallerMoves DEF Finish, CopyItem, CopyReturns, RMkdir, MakeDir, Making,
          DirMade, LinkDirFails, LinkItem, Serves, InRange
      <3>2. cwd' = Home /\ reported' = {} /\ index' = 1
        BY <2>0, <2>1, <3>1 DEF InitSucceeds, IInv, Control
      <3> QED BY <3>2, ItemsAre
    <2>2. CASE phase # "init"
      <3>1. /\ cwd = Home /\ \A n \in reported : n < index
            /\ \A n \in DOMAIN Items : n < index => Served(n)
        BY <2>0, <2>2 DEF Repaired
      <3>2. reported \subseteq DOMAIN Items /\ index \in Nat /\ DOMAIN Items \subseteq Nat
        BY ItemsAre DEF IInv, DriverTypes
      <3>3. ASSUME UNCHANGED <<cwd, reported, index>>
            PROVE  /\ cwd' = Home /\ \A n \in reported' : n < index'
                   /\ \A n \in DOMAIN Items : n < index' => Served(n)'
        BY <1>3, <3>1, <3>3, ServedStays
      <3>4. CASE Finish \/ CopyItem \/ RMkdir \/ MakeDir
                 \/ (phase = "copy" /\ (CopyStep \/ Kill) /\ UNCHANGED dvars)
        <4>1. UNCHANGED <<cwd, reported, index>>
          BY <3>4 DEF Finish, CopyItem, RMkdir, MakeDir, dvars
        <4> QED BY <3>3, <4>1
      <3>5. CASE CopyReturns \/ DirMade \/ LinkItem
        <4>1. PICK i \in DOMAIN Items : i = index
          BY <3>5 DEF CopyReturns, DirMade, LinkItem, Serves, InRange, IInv, Control
        <4>2. Served(i)' /\ index' = index + 1 /\ cwd' = cwd
          BY <3>5, <4>1, ServedNow
        <4>3. reported' \subseteq reported \union {i}
          BY <3>5, <4>1 DEF CopyReturns, DirMade, LinkItem, Report
        <4>4. ASSUME NEW n \in DOMAIN Items, n < index PROVE Served(n)'
          <5>1. n # i
            BY <3>2, <4>1, <4>4
          <5> QED BY <1>3, <3>1, <4>3, <4>4, <5>1, ServedStays
        <4>5. \A n \in DOMAIN Items : n < index' => n < index \/ n = i
          BY <3>2, <4>1, <4>2
        <4>6. \A n \in reported' : n < index'
          BY <3>1, <3>2, <4>1, <4>2, <4>3
        <4> QED BY <3>1, <4>2, <4>4, <4>5, <4>6
      <3>6. ~LinkDirFails
        <4> SUFFICES ASSUME LinkDirFails PROVE FALSE
          OBVIOUS
        <4>1. index \in DOMAIN Items /\ Item.op \in Links /\ fs[Item.dir].kind # "dir"
          BY <2>0 DEF LinkDirFails, Serves, InRange
        <4> QED BY <2>0, <2>2, <4>1, DirThere
      <3>7. ~InitSucceeds
        BY <2>2 DEF InitSucceeds
      <3> QED BY <1>3, <3>4, <3>5, <3>6, <3>7, InstallerMoves
    <2> QED BY <2>1, <2>2
  <1> QED BY <1>1, <1>2, <1>3, Moves

\* What the list orders, in every state of every run.
THEOREM ListInvariance == ASSUME Orderly PROVE InstallSpec => []ListInv
  <1>1. InstallInit => ListInv
    BY InitListInv
  <1>2. IInv /\ ListInv /\ [InstallNext]_vars => ListInv'
    BY KindsStep, UnreadStep, TemporaryStep, CallingStep, PavedStep, RepairedStep DEF ListInv
  <1> QED BY Invariance, <1>1, <1>2, PTL DEF InstallSpec

\* The installer repairs what kills and failures of earlier runs left (installer.c:55).
THEOREM RecoversHolds == ASSUME Orderly PROVE InstallSpec => []Recovers
  <1>1. IInv /\ ListInv => Recovers
    <2> SUFFICES ASSUME IInv, ListInv, Completed("installer"), ~dry, Undisturbed,
                        NEW n \in DOMAIN Items
                 PROVE  LET i == Items[n] IN
                        /\ i.op = "mkdir" => fs[i.dir].kind = "dir"
                        /\ i.op \in Links => fs[Place(i)] # Absent
                        /\ i.op \in Copies /\ Place(i) \in Short => fs[TmpOf[Place(i)]] = Absent
                        /\ i.op \in Copies /\ Place(i) \in Short /\ (root \/ Owner(i) = Self) =>
                             \/ Copied(i) /\ n \notin reported
                             \/ ~root /\ i.mode \notin Writable /\ TmpOf[Place(i)] \in begun.temps
      BY DEF Recovers
    <2>1. Running /\ phase = "done"
      BY DEF Completed, Running
    <2>2. n < index
      BY ItemsAre DEF Completed, IInv, DriverTypes, Control
    <2>3. Served(n) /\ cwd = Home
      BY <2>1, <2>2 DEF ListInv, Repaired
    <2>4. Items[n].op \in Copies /\ Place(Items[n]) \in Short /\ n \notin reported =>
            Copied(Items[n])
      BY <2>1, <2>2, <2>3 DEF IInv, CopiesMade, Landed, JobFrom, Copied
    <2> QED BY <2>1, <2>3, <2>4 DEF Served, Mine, Blocked
  <1> QED BY Invariance, ListInvariance, <1>1, PTL

\* A run of the deinstaller that nothing disturbs leaves nothing of the list
\* (deinstaller.c:55).
THEOREM DeinstallsAllHolds == ASSUME Orderly, Private PROVE InstallSpec => []DeinstallsAll
  <1>1. InstallInit => RemovalInv
    BY InitRemovalInv
  <1>2. IInv /\ ListInv /\ RemovalInv /\ [InstallNext]_vars => RemovalInv'
    BY ContainedStep, GoneStep DEF ListInv, RemovalInv
  <1>3. IInv /\ RemovalInv => DeinstallsAll
    <2> SUFFICES ASSUME IInv, RemovalInv, Completed("deinstaller"), ~dry, Undisturbed,
                        begun.temps = {}, NEW n \in DOMAIN Items
                 PROVE  fs[Place(Items[n])] = Absent
      BY DEF DeinstallsAll
    <2>1. index = 0
      BY ItemsAre DEF Completed, IInv, DriverTypes, RemovalInv, Gone
    <2> QED BY <2>1, ItemsAre DEF Completed, RemovalInv, Gone
  <1> QED BY Invariance, ListInvariance, <1>1, <1>2, <1>3, PTL DEF InstallSpec

----------------------------------------------------------------------------
(* How long a run takes.                                                   *)

\* What is left of a run: the items to come; for one that is a copy or a
\* directory, that it has not begun; then the calls or the directories to make.
ItemsLeft ==
  CASE phase = "done" -> 0
    [] phase = "init" -> Len(Items) + 3
    [] phase \notin {"done", "init"} ->
         IF program = "deinstaller" THEN index + 1 ELSE Len(Items) + 2 - index
NotBegun == IF phase \in {"mkdir", "copy"} THEN 0 ELSE 1
StepsLeft ==
  CASE phase = "copy" -> CallsLeft(at)
    [] phase = "mkdir" /\ Making -> Len(Chain[Item.dir]) + 1 - depth
    [] OTHER -> 0
Left == <<ItemsLeft, <<NotBegun, StepsLeft>>>>

Less == {x \in Nat \X Nat : x[1] < x[2]}
LessLeft == LexPairOrdering(Less, LexPairOrdering(Less, Less, Nat, Nat), Nat, Nat \X Nat)

\* There is no endless descent.
LEMMA LessLeftIsWellFounded == IsWellFoundedOn(LessLeft, Nat \X (Nat \X Nat))
  <1>1. IsWellFoundedOn(Less, Nat)
    BY NatLessThanWellFounded DEF OpToRel, Less
  <1>2. IsWellFoundedOn(LexPairOrdering(Less, Less, Nat, Nat), Nat \X Nat)
    BY <1>1, WFLexPairOrdering
  <1> QED BY <1>1, <1>2, WFLexPairOrdering DEF LessLeft

LEMMA LessLeftIs ==
  ASSUME NEW a \in Nat, NEW b \in Nat, NEW c \in Nat,
         NEW d \in Nat, NEW e \in Nat, NEW f \in Nat,
         a < d \/ (a = d /\ (b < e \/ (b = e /\ c < f)))
  PROVE  <<<<a, <<b, c>>>>, <<d, <<e, f>>>>>> \in LessLeft
  BY DEF LessLeft, Less, LexPairOrdering

Counts == ItemsLeft \in Nat /\ NotBegun \in Nat /\ StepsLeft \in Nat

LEMMA CountsAreNat == IInv => Counts
  <1> SUFFICES ASSUME IInv PROVE Counts
    OBVIOUS
  <1>1. /\ index \in 0 .. Len(Items) + 1 /\ Len(Items) \in Nat /\ depth \in Nat
        /\ phase \in {"done", "init", "item", "mkdir", "copy"}
    BY ItemsAre DEF IInv, DriverTypes
  <1>2. ItemsLeft \in Nat
    BY <1>1 DEF ItemsLeft
  <1>3. CallsLeft(at) \in Nat
    BY CallsLeftType
  <1>4. phase = "mkdir" /\ Making => Len(Chain[Item.dir]) + 1 - depth \in Nat
    <2> SUFFICES ASSUME phase = "mkdir", Making
                 PROVE  Len(Chain[Item.dir]) + 1 - depth \in Nat
      OBVIOUS
    <2>1. Chain[Item.dir] \in Seq(Targets)
      BY ItemFacts DEF IInv, Control, Item
    <2>2. depth \in 1 .. Len(Chain[Item.dir]) /\ Len(Chain[Item.dir]) \in Nat
      BY <2>1 DEF Making
    <2> QED BY <2>2
  <1>5. StepsLeft \in Nat
    BY <1>3, <1>4 DEF StepsLeft
  <1> QED BY <1>2, <1>5 DEF Counts, NotBegun

\* A report ends an item: the next one comes, in either direction.
LEMMA ReportAdvances ==
  ASSUME IInv, phase \in {"item", "mkdir", "copy"}, index \in DOMAIN Items,
         NEW s, Report(s)
  PROVE  ItemsLeft' < ItemsLeft
  <1>1. /\ index \in 1 .. Len(Items) /\ Len(Items) \in Nat
        /\ phase' = "item" /\ program' = program
        /\ index' = IF program = "deinstaller" THEN index - 1 ELSE index + 1
    BY ItemsAre DEF Report, Following, SameRun
  <1> QED BY <1>1 DEF ItemsLeft

\* Some of it is left no more.
Lessens ==
  \/ ItemsLeft' < ItemsLeft
  \/ ItemsLeft' = ItemsLeft /\ NotBegun' < NotBegun
  \/ ItemsLeft' = ItemsLeft /\ NotBegun' = NotBegun /\ StepsLeft' < StepsLeft

LEMMA StepLessens ==
  ASSUME IInv, InstallStep \/ KillProgram
  PROVE  Lessens
  <1>0. /\ index \in 0 .. Len(Items) + 1 /\ Len(Items) \in Nat /\ depth \in Nat
        /\ Len(Items) # 0 /\ DOMAIN Items = 1 .. Len(Items)
        /\ phase \in {"done", "init", "item", "mkdir", "copy"}
        /\ phase \in {"mkdir", "copy"} => index \in DOMAIN Items
    BY ItemsAre DEF IInv, DriverTypes, Control
  <1>1. CASE ResolveFails \/ DryStep \/ LinkDirFails \/ CheckItem \/ RemoveItem
    <2>1. phase = "item" /\ index \in DOMAIN Items /\ \E s : Report(s)
      BY <1>1 DEF ResolveFails, DryStep, LinkDirFails, CheckItem, RemoveItem, Serves,
        InRange
    <2> QED BY <2>1, ReportAdvances DEF Lessens
  <1>2. CASE LinkItem
    <2>1. phase = "item" /\ index \in DOMAIN Items /\ \E s : Report(s)
      BY <1>2 DEF LinkItem, Serves, InRange
    <2> QED BY <2>1, ReportAdvances DEF Lessens
  <1>3. CASE CopyReturns
    BY <1>0, <1>3, ReportAdvances DEF CopyReturns, Lessens
  <1>4. CASE DirMade
    <2>1. phase = "mkdir" /\ \E s : Report(s)
      BY <1>4 DEF DirMade
    <2> QED BY <1>0, <2>1, ReportAdvances DEF Lessens
  <1>5. CASE InitSucceeds
    <2>1. /\ phase = "init" /\ phase' = "item" /\ program' = program
          /\ index' \in {1, Len(Items)} /\ (program # "deinstaller" => index' = 1)
      BY <1>5 DEF InitSucceeds, SameRun
    <2> QED BY <1>0, <2>1 DEF Lessens, ItemsLeft
  <1>6. CASE phase # "done" /\ phase' = "done"
    <2>1. ItemsLeft' = 0 /\ ItemsLeft > 0
      BY <1>0, <1>6 DEF ItemsLeft
    <2> QED BY <2>1 DEF Lessens
  <1>7. CASE InitFails \/ Finish \/ Die
    BY <1>6, <1>7 DEF InitFails, Finish, Die
  <1>8. CASE CopyItem \/ RMkdir
    <2>1. /\ phase = "item" /\ phase' \in {"copy", "mkdir"}
          /\ UNCHANGED <<program, index>>
      BY <1>8 DEF CopyItem, RMkdir, Serves, InRange, SameRun
    <2> QED BY <2>1 DEF Lessens, ItemsLeft, NotBegun
  <1>9. CASE MakeDir
    <2>1. /\ phase = "mkdir" /\ Making /\ depth' = depth + 1
          /\ UNCHANGED <<phase, program, index>>
      BY <1>9 DEF MakeDir, SameRun, Making
    <2>2. Chain[Item.dir] \in Seq(Targets) /\ Item' = Item
      BY <1>0, <2>1, ItemFacts DEF Item
    <2>3. depth \in 1 .. Len(Chain[Item.dir]) /\ Len(Chain[Item.dir]) \in Nat
      BY <2>1, <2>2 DEF Making
    <2>4. StepsLeft = Len(Chain[Item.dir]) + 1 - depth
      BY <2>1 DEF StepsLeft
    <2>5. StepsLeft' = IF Making' THEN Len(Chain[Item.dir]) + 1 - (depth + 1) ELSE 0
      BY <2>1, <2>2 DEF StepsLeft
    <2>6. StepsLeft' < StepsLeft
      <3> DEFINE n == Len(Chain[Item.dir])
      <3>1. n \in Nat /\ depth \in 1 .. n
        BY <2>3
      <3> HIDE DEF n
      <3>2. n + 1 - (depth + 1) < n + 1 - depth /\ 0 < n + 1 - depth
        BY <3>1
      <3>3. StepsLeft = n + 1 - depth /\ StepsLeft' \in {n + 1 - (depth + 1), 0}
        BY <2>4, <2>5 DEF n
      <3> QED BY <3>2, <3>3
    <2> QED BY <2>1, <2>6 DEF Lessens, ItemsLeft, NotBegun
  <1>10. CASE phase = "copy" /\ (CopyStep \/ Kill) /\ UNCHANGED dvars
    <2>1. UNCHANGED <<phase, program, index>>
      BY <1>10 DEF dvars
    <2>2. CallsLeft(at') < CallsLeft(at)
      BY <1>10, CopyStepShortens
    <2> QED BY <1>10, <2>1, <2>2 DEF Lessens, ItemsLeft, NotBegun, StepsLeft
  <1>11. CASE Copying \/ KillProgram
    BY <1>6, <1>10, <1>11 DEF Copying, KillProgram
  <1> QED BY <1>1, <1>2, <1>3, <1>4, <1>5, <1>7, <1>8, <1>9, <1>11 DEF InstallStep

RunsOn == IF phase = "done" THEN \E p \in {"installer", "instchk", "deinstaller"},
                                   d \in BOOLEAN : Start(p, d)
          ELSE <<Left', Left>> \in LessLeft

\* Every step of a run leaves less of it, whichever program it is, in either
\* direction of the list, whatever fails, and also for the unsigned index of the
\* deinstaller (deinstaller.c:55): no run goes on for ever, and between runs
\* nothing happens but that one starts (RunEnds is this together with fairness).
THEOREM RunsBounded == InstallSpec => []Counts /\ [][RunsOn]_vars
  <1>1. IInv /\ Counts /\ Counts' /\ [InstallNext]_vars => [RunsOn]_vars
    <2> SUFFICES ASSUME IInv, Counts, Counts', InstallNext PROVE RunsOn
      OBVIOUS
    <2>1. CASE InstallStep \/ KillProgram
      <3>1. phase # "done"
        BY <2>1, Onward
      <3>2. Lessens
        BY <2>1, StepLessens
      <3> HIDE DEF Lessens
      <3>3. <<Left', Left>> \in LessLeft
        BY <3>2, LessLeftIs DEF Left, Lessens, Counts
      <3> QED BY <3>1, <3>3 DEF RunsOn
    <2>2. CASE \E p \in {"installer", "instchk", "deinstaller"}, d \in BOOLEAN : Start(p, d)
      BY <2>2 DEF RunsOn, Start
    <2> QED BY <2>1, <2>2 DEF InstallNext
  <1> QED BY <1>1, CountsAreNat, Invariance, PTL DEF InstallSpec
============================================================================
