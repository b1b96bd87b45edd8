----------------------------- MODULE Installer -----------------------------
(***************************************************************************)
(* The programs installer, deinstaller and instchk, run one after another: *)
(* each walks the list of items (insthier.c) and serves every item through *)
(* install-core.c, copies by the steps of FileCopy.  Calls fail and the    *)
(* programs are killed.                                                    *)
(***************************************************************************)
EXTENDS FileCopy, Sequences

CONSTANTS Names,    \* what insthier calls sources and destinations
          LibName,  \* name |-> the name a ".vlb" file holds, or the name itself
          Suffixed, \* name |-> with the suffix of dynamic libraries
          Home,     \* the directory the programs start in
          In,       \* directory |-> name |-> the path it means there
          Chain,    \* directory |-> those above it and itself, outermost first
          Masked,   \* mode |-> what the umask leaves of it
          SizeOf,   \* what a file or directory holds |-> st_size
          Items,    \* insthier
          MaxRuns   \* bound: program runs

Copies == {"copy", "copy_exec"}
Links == {"symlink", "liblink"}

ASSUME ItemsAssumption ==
  /\ Items \in Seq([op : Copies \union Links \union {"mkdir"},
                    src : Names \union {None}, dst : Names \union {None},
                    dir : Paths, owner : Uids \union {None}, mode : Modes])
  /\ Items # <<>> /\ None \notin Names /\ None \notin Uids /\ None \notin {0, 1}
  /\ \A d \in {Items[n].dir : n \in DOMAIN Items} : Chain[d] \in Seq(Paths)
ASSUME NamesAssumption ==
  /\ LibName \in [Names -> Names] /\ Suffixed \in [Names -> Names]
  /\ In \in [Paths -> [Names -> Paths]] /\ Home \in Paths
  /\ Masked \in [Modes -> Modes]
  /\ SizeOf \in [Contents \union {Partial, None} -> Nat]
ASSUME RunsBound == MaxRuns \in Nat

VARIABLES program, dry,  \* the run: the present one, or the last
          phase,         \* "done" between runs
          index,         \* the item, from 1 (0 in C)
          depth,         \* install_rmkdir: how far along the path
          cwd,           \* the working directory
          reported,      \* the items whose status was an error
          failed,        \* install_failed
          exit,          \* the exit status, None for a killed program
          begun,         \* history: faults and temporary files at the start
          runs

dvars == <<program, dry, phase, index, depth, cwd, reported, failed, exit, begun, runs>>
vars == <<cvars, dvars>>

\* What a step that is not FileCopy's leaves alone.
Steady == UNCHANGED <<root, job, at, streams, status, left>>
SameRun == UNCHANGED <<program, dry, begun, runs>>

InstallInit ==
  /\ CopyInit /\ job = CHOOSE j \in Jobs : TRUE  \* no call yet
  /\ program = "installer" /\ dry = FALSE /\ phase = "done" /\ index = 1
  /\ depth = 1 /\ cwd = Home /\ reported = {} /\ failed = 0 /\ exit = None
  /\ begun = [faults |-> 0, temps |-> {}] /\ runs = 0

----------------------------------------------------------------------------
(* Items.  Their translations read ".vlb" files, add suffixes and          *)
(* join names to the fake root and the directory.                          *)

Source(i) == IF i.op = "symlink" THEN i.src ELSE LibName[i.src]

Target(i) ==
  IF i.op \in Copies THEN LibName[IF i.dst = None THEN i.src ELSE i.dst]
  ELSE IF i.op = "liblink" THEN Suffixed[i.dst] ELSE i.dst

Place(i) == IF i.op = "mkdir" THEN i.dir ELSE In[i.dir][Target(i)]

\* install_uidgid_lookup
Owner(i) == IF i.owner = None THEN Self ELSE i.owner

JobFrom(d, i) == [src |-> In[d][Source(i)], dst |-> Place(i),
                  uid |-> Owner(i), mode |-> i.mode]
JobOf(i) == JobFrom(cwd, i)

\* What the list names: nothing but a copy or a link has a source, no name is a
\* temporary one, and whatever directory a failure leaves the program in, a
\* copy is a call that FileCopy knows.
ASSUME ListAssumption ==
  \A n \in DOMAIN Items :
    LET i == Items[n] IN
      /\ i.op # "mkdir" => i.src \in Names
      /\ i.op \in Links => i.dst \in Names
      /\ Place(i) \in Targets
      /\ \A k \in DOMAIN Chain[i.dir] : Chain[i.dir][k] \in Targets
      /\ i.op \in Copies => \A d \in Paths : JobFrom(d, i) \in Jobs

\* The places of the list are apart: those of the copies from the directories
\* of the list, from the other copies' sources, and from each other unless the
\* two ask for the same file; those of the links from the directories of the
\* list, where no link is found either; and no link goes where the programs start.
ASSUME PlacesAssumption ==
  \A m, n \in DOMAIN Items :
    /\ {Items[m].op, Items[n].op} \subseteq Copies /\ m # n =>
         /\ Place(Items[m]) # In[Home][Source(Items[n])]
         /\ Place(Items[m]) = Place(Items[n]) =>
              JobFrom(Home, Items[m]) = JobFrom(Home, Items[n])
    /\ Items[m].op = "mkdir" =>
         /\ Items[n].op \in Copies =>
              Items[m].dir \notin {Place(Items[n]), In[Home][Source(Items[n])]}
         /\ Items[n].op \in Links => Items[m].dir # Place(Items[n])
         /\ \A t \in Trees : t[Items[m].dir].kind # "symlink"
    /\ Items[m].op \in Links => Items[m].dir # Home

\* The places of the list, and every directory that is made for it.
PlacesOf(ops) == {Place(Items[n]) : n \in {m \in DOMAIN Items : Items[m].op \in ops}}
DirPaths ==
  UNION {{Chain[Items[n].dir][k] : k \in DOMAIN Chain[Items[n].dir]} :
           n \in {m \in DOMAIN Items : Items[m].op = "mkdir"}}

\* A directory is made from one that is there and stays, step by step; nothing is
\* in its way.
OrderlyDirectory(n) ==
  LET d == Items[n].dir
      c == Chain[d]
  IN /\ c # <<>> /\ c[Len(c)] = d
     /\ \A k \in 2 .. Len(c) : DirOf[c[k]] = c[k - 1]
     /\ \A t \in Trees : t[DirOf[c[1]]].kind = "dir"
     /\ DirOf[c[1]] \in Targets \ PlacesOf(Copies \union Links \union {"mkdir"})
     /\ \A t \in Trees, k \in DOMAIN c : t[c[k]].kind \in {"none", "dir"}

\* A file or a link goes to a directory that comes earlier in the list, where no
\* directory has its place.  A copy has its source there and its temporary name
\* beside it.
OrderlyFile(n) ==
  LET i == Items[n]
      s == In[Home][Source(i)]
  IN /\ \E m \in DOMAIN Items : m < n /\ Items[m].op = "mkdir" /\ Items[m].dir = i.dir
     /\ DirOf[Place(i)] = i.dir /\ Place(i) \notin DirPaths
     /\ \A t \in Trees : t[Place(i)].kind # "dir"
     /\ i.op \in Copies =>
          /\ \A t \in Trees : t[s].kind = "file"
          /\ s \notin DirPaths \union PlacesOf(Copies \union Links)
          /\ Place(i) \notin PlacesOf(Links)
          /\ DirOf[TmpOf[Place(i)]] = i.dir
          /\ \A m \in DOMAIN Items :
               Items[m].op \in Copies /\ TmpOf[Place(Items[m])] = TmpOf[Place(i)] =>
                 Place(Items[m]) = Place(i)

\* An orderly list, and file systems it can be installed to.
Orderly ==
  \A n \in DOMAIN Items :
    IF Items[n].op = "mkdir" THEN OrderlyDirectory(n) ELSE OrderlyFile(n)

\* Nothing but later items is ever put in a directory of the list, or found there.
Private ==
  \A n \in DOMAIN Items :
    Items[n].op = "mkdir" =>
      \A p \in Paths \ {Items[n].dir} :
        /\ DirOf[p] = Items[n].dir
        /\ \/ p \in DirPaths \union PlacesOf(Copies \union Links)
           \/ \E t \in Trees : t[p] # Absent
        => \E m \in DOMAIN Items : m > n /\ Place(Items[m]) = p

\* Serving an item starts with reading a ".vlb" file, or with the user database.
Virtual == {n \in Names : LibName[n] # n}
NeedsLookup(i) ==
  \/ i.op \in Copies /\ {i.src, i.dst} \intersect Virtual # {}
  \/ i.op = "liblink" /\ i.src \in Virtual
  \/ /\ i.owner # None
     /\ program = "instchk" \/ (program = "installer" /\ i.op \notin Links)

Item == Items[index]
InRange == phase = "item" /\ index \in DOMAIN Items

\* Program p serves an item of one of the kinds ops.
Serves(p, ops) == InRange /\ program = p /\ Item.op \in ops

\* Seeded fault: "index >= 0" ends the loop of the deinstaller.
FollowingWraps ==
  IF program = "deinstaller" THEN (IF index = 1 THEN Len(Items) ELSE index - 1)
  ELSE index + 1

\* Seeded fault: the loop ends before the first item.
FollowingStopsEarly ==
  IF program = "deinstaller" THEN (IF index = 2 THEN 0 ELSE index - 1) ELSE index + 1

\* The deinstaller goes through the list backwards.
Following == IF program = "deinstaller" THEN index - 1 ELSE index + 1

\* The driver prints an error and goes on.
Report(s) ==
  /\ reported' = IF s = "error" THEN reported \union {index} ELSE reported
  /\ index' = Following /\ phase' = "item"
  /\ SameRun /\ UNCHANGED <<depth, exit>>

----------------------------------------------------------------------------
(* The drivers.                                                            *)

Start(p, d) ==
  /\ phase = "done" /\ runs < MaxRuns /\ runs' = runs + 1
  /\ program' = p /\ dry' = d /\ phase' = "init" /\ exit' = None
  /\ cwd' = Home /\ reported' = {} /\ failed' = 0
  /\ begun' = [faults |-> faults, temps |-> {q \in Temps : fs[q] # Absent}]
  /\ index' = 1
  /\ UNCHANGED <<cvars, depth>>

\* The fake root is no directory, or conf-sosuffix cannot be read.
InitFails ==
  /\ phase = "init" /\ Fault
  /\ phase' = "done" /\ exit' = 1
  /\ Steady /\ SameRun /\ UNCHANGED <<fs, kills, index, depth, cwd, reported, failed>>

InitSucceeds ==
  /\ phase = "init" /\ NoFault
  /\ phase' = "item"
  /\ index' = IF program = "deinstaller" THEN Len(Items) ELSE 1
  /\ Steady /\ SameRun /\ UNCHANGED <<fs, kills, depth, cwd, reported, failed, exit>>

ResolveFails ==
  /\ InRange /\ NeedsLookup(Item) /\ Fault
  /\ Report("error")
  /\ Steady /\ UNCHANGED <<fs, kills, cwd, failed>>

\* Only instchk's exit status depends on the items.
Finish ==
  /\ phase = "item" /\ index \notin DOMAIN Items
  /\ phase' = "done"
  /\ exit' = IF program = "instchk" /\ failed # 0 THEN 1 ELSE 0
  /\ SameRun /\ UNCHANGED <<cvars, index, depth, cwd, reported, failed>>

\* A dry run does nothing for an item but look it up; links are below.
DryStep ==
  /\ Serves("installer", Copies \union {"mkdir"}) \/ (InRange /\ program = "deinstaller")
  /\ dry /\ NoFault /\ Report("ok")
  /\ Steady /\ UNCHANGED <<fs, kills, cwd, failed>>

----------------------------------------------------------------------------
(* installer                                                               *)

CopyItem ==
  /\ Serves("installer", Copies) /\ ~dry
  /\ Call(JobOf(Item))
  /\ phase' = "copy"
  /\ SameRun /\ UNCHANGED <<index, depth, cwd, reported, failed, exit>>

\* Seeded fault: the status of the copy is overwritten.
CopyReturnsOk ==
  /\ phase = "copy" /\ at = "idle" /\ status # "killed"
  /\ Report("ok")
  /\ UNCHANGED <<cvars, cwd, failed>>

CopyReturns ==
  /\ phase = "copy" /\ at = "idle" /\ status # "killed"
  /\ Report(status)
  /\ UNCHANGED <<cvars, cwd, failed>>

\* install_rmkdir makes every directory of the path.
RMkdir ==
  /\ Serves("installer", {"mkdir"}) /\ ~dry
  /\ phase' = "mkdir" /\ depth' = 1
  /\ SameRun /\ UNCHANGED <<cvars, index, cwd, reported, failed, exit>>

Making == phase = "mkdir" /\ depth \in DOMAIN Chain[Item.dir]

\* What step d of the path becomes.
Makeable(d) == fs[d] = Absent /\ fs[DirOf[d]].kind = "dir"

\* The test for -1 never sees a failure: iposix_mkdir returns 0 for one.
MakeDir ==
  /\ Making
  /\ LET d == Chain[Item.dir][depth]
     IN \/ /\ Makeable(d) /\ NoFault
           /\ fs' = [fs EXCEPT ![d] = Directory(Masked[Item.mode], Self)]
        \/ /\ (~Makeable(d) /\ NoFault) \/ Fault
           /\ UNCHANGED fs
  /\ depth' = depth + 1
  /\ Steady /\ SameRun
  /\ UNCHANGED <<kills, phase, index, cwd, reported, failed, exit>>

\* install_rmkdir has returned 1: the owner is set if it must be.
DirMade ==
  /\ phase = "mkdir" /\ ~Making
  /\ LET foreign == Owner(Item) # Self
         owns == root /\ fs[Item.dir] # Absent
     IN \/ /\ ~foreign /\ NoFault /\ Report("ok") /\ UNCHANGED fs
        \/ /\ foreign /\ owns /\ NoFault /\ Report("ok")
           /\ fs' = [fs EXCEPT ![Item.dir].owner = Owner(Item)]
        \/ /\ foreign /\ Report("error") /\ UNCHANGED fs
           /\ (~owns /\ NoFault) \/ (root /\ Fault)
  /\ Steady /\ UNCHANGED <<kills, cwd, failed>>

\* getcwd or chdir to the directory fails.
LinkDirFails ==
  /\ Serves("installer", Links)
  /\ Fault \/ (fs[Item.dir].kind # "dir" /\ NoFault)
  /\ Report("error")
  /\ Steady /\ UNCHANGED <<fs, kills, cwd, failed>>

Cost(failure) == IF failure THEN 1 ELSE 0

\* In the directory, symlink; then back.  If that fails the program stays there.
LinkItem ==
  /\ Serves("installer", Links) /\ fs[Item.dir].kind = "dir"
  /\ \E broken, stuck \in BOOLEAN :
       LET links == ~dry /\ ~broken /\ fs[Place(Item)] = Absent
       IN /\ dry => ~broken
          /\ faults' = faults + Cost(broken) + Cost(stuck) /\ faults' <= MaxFaults
          /\ fs' = IF links THEN [fs EXCEPT ![Place(Item)] = Symlink(In[Item.dir][Source(Item)])]
                   ELSE fs
          /\ cwd' = IF stuck THEN Item.dir ELSE cwd
          /\ Report(IF stuck \/ ~(dry \/ links) THEN "error" ELSE "ok")
  /\ Steady /\ UNCHANGED <<kills, failed>>

----------------------------------------------------------------------------
(* instchk                                                                 *)

\* stat follows a link.
Seen(p) == IF fs[p].kind = "symlink" THEN fs[fs[p].data] ELSE fs[p]

\* install_file_check: the file exists, and has the size of the source, the
\* mode and the owner.  On POSIX its type is not looked at.
Holds(i) ==
  /\ Seen(Place(i)) # Absent
  /\ i.op \in Copies =>
       /\ Seen(In[Home][Source(i)]) # Absent
       /\ SizeOf[Seen(In[Home][Source(i)]).data] = SizeOf[Seen(Place(i)).data]
  /\ Seen(Place(i)).mode = i.mode
  /\ Seen(Place(i)).owner = Owner(i)

\* Seeded fault: a directory's failure is not counted.
CheckItemUncounted ==
  /\ InRange /\ program = "instchk"
  /\ \/ Holds(Item) /\ NoFault /\ Report("ok") /\ UNCHANGED failed
     \/ /\ (~Holds(Item) /\ NoFault) \/ Fault
        /\ Report("error")
        /\ failed' = IF Item.op = "mkdir" THEN failed ELSE failed + 1
  /\ Steady /\ UNCHANGED <<fs, kills, cwd>>

CheckItem ==
  /\ InRange /\ program = "instchk"
  /\ \/ Holds(Item) /\ NoFault /\ Report("ok") /\ UNCHANGED failed
     \/ /\ (~Holds(Item) /\ NoFault) \/ Fault
        /\ Report("error") /\ failed' = failed + 1
  /\ Steady /\ UNCHANGED <<fs, kills, cwd>>

----------------------------------------------------------------------------
(* deinstaller                                                             *)

Empty(d) == \A p \in Paths \ {d} : DirOf[p] = d => fs[p] = Absent

\* unlink, or rmdir for a directory.
Removable(i) ==
  IF i.op = "mkdir" THEN fs[i.dir].kind = "dir" /\ Empty(i.dir)
  ELSE fs[Place(i)].kind \in {"file", "symlink"}

RemoveItem ==
  /\ InRange /\ program = "deinstaller" /\ ~dry
  /\ \/ /\ Removable(Item) /\ NoFault
        /\ fs' = [fs EXCEPT ![Place(Item)] = Absent] /\ Report("ok")
     \/ /\ (~Removable(Item) /\ NoFault) \/ Fault
        /\ UNCHANGED fs /\ Report("error")
  /\ Steady /\ UNCHANGED <<kills, cwd, failed>>

----------------------------------------------------------------------------
Copying == phase = "copy" /\ CopyStep /\ UNCHANGED dvars

\* The program is gone when the copy it makes has been killed.
Die ==
  /\ phase = "copy" /\ at = "idle" /\ status = "killed"
  /\ phase' = "done" /\ exit' = None
  /\ SameRun /\ UNCHANGED <<cvars, index, depth, cwd, reported, failed>>

KillProgram ==
  \/ phase = "copy" /\ Kill /\ UNCHANGED dvars
  \/ /\ phase \in {"init", "item", "mkdir"} /\ kills < MaxKills /\ kills' = kills + 1
     /\ phase' = "done" /\ exit' = None
     /\ Steady /\ SameRun
     /\ UNCHANGED <<fs, faults, index, depth, cwd, reported, failed>>

InstallStep ==
  \/ InitFails \/ InitSucceeds \/ ResolveFails \/ Finish \/ DryStep
  \/ CopyItem \/ Copying \/ CopyReturns \/ RMkdir \/ MakeDir \/ DirMade
  \/ LinkDirFails \/ LinkItem \/ CheckItem \/ RemoveItem \/ Die

InstallNext ==
  \/ InstallStep \/ KillProgram
  \/ \E p \in {"installer", "instchk", "deinstaller"}, d \in BOOLEAN :
       (p = "instchk" => ~d) /\ Start(p, d)

InstallSpec == InstallInit /\ [][InstallNext]_vars

\* A program that is not killed goes on.
FairInstallSpec == InstallSpec /\ WF_vars(InstallStep)
----------------------------------------------------------------------------
(* Properties.                                                             *)

\* Every variable keeps its type: no path gets an owner or a mode without being
\* a file or a directory (install-core.c:787), and the index, which runs down to
\* 0 and is unsigned in C, stays in its range (deinstaller.c:55).
InstallTypeOK ==
  /\ CopyTypeOK
  /\ program \in {"installer", "instchk", "deinstaller"} /\ dry \in BOOLEAN
  /\ phase \in {"done", "init", "item", "mkdir", "copy"}
  /\ index \in 0 .. Len(Items) + 1 /\ depth \in Nat /\ cwd \in Paths
  /\ reported \subseteq DOMAIN Items /\ failed \in 0 .. Len(Items)
  /\ exit \in {0, 1, None} /\ runs \in 0 .. MaxRuns
  /\ begun.faults \in 0 .. faults /\ begun.temps \subseteq Temps

\* The program went through the whole list.
Completed(p) == phase = "done" /\ program = p /\ exit # None /\ index \notin DOMAIN Items

\* No call failed during the run.
Undisturbed == faults = begun.faults

\* When instchk (instchk.c:69) says that nothing failed, every item is there
\* with the size, mode and owner of the list, but for those it could not look up.
CheckSound ==
  Completed("instchk") /\ exit = 0 =>
    \A n \in DOMAIN Items : Holds(Items[n]) \/ NeedsLookup(Items[n])

\* The file a copy should leave.
Copied(i) ==
  fs[Place(i)] = File(fs[In[Home][Source(i)]].data, i.mode, Owner(i))

\* After a complete run of the installer (installer.c:55) every file of the list
\* is a complete copy of its source or was reported, whatever failed for it or
\* for the items before and after it, unless its name is so long that it has no
\* temporary one, or the way back from a link's directory failed
\* (install-core.c:731): later sources are then looked for in that directory.
CopiedOrReported ==
  Completed("installer") /\ ~dry /\ cwd = Home =>
    \A n \in DOMAIN Items :
      Items[n].op \in Copies /\ Place(Items[n]) \in Short /\ n \notin reported =>
        Copied(Items[n])

\* The installer repairs what kills and failures of earlier runs left: after an
\* undisturbed run every file and directory is there, and no temporary file is.
\* The one exception is a file whose temporary file was left without write
\* permission (install-core.c:224): the run only removes that.  A file whose name
\* is too long to have a temporary one keeps its owner, as above.
Recovers ==
  Completed("installer") /\ ~dry /\ Undisturbed =>
    \A n \in DOMAIN Items :
      LET i == Items[n] IN
      /\ i.op = "mkdir" => fs[i.dir].kind = "dir"
      /\ i.op \in Links => fs[Place(i)] # Absent
      /\ i.op \in Copies /\ Place(i) \in Short => fs[TmpOf[Place(i)]] = Absent
      /\ i.op \in Copies /\ Place(i) \in Short /\ (root \/ Owner(i) = Self) =>
           \/ Copied(i) /\ n \notin reported
           \/ ~root /\ i.mode \notin Writable /\ TmpOf[Place(i)] \in begun.temps

\* The deinstaller (deinstaller.c:55) goes backwards, so that directories are
\* empty when their turn comes: an undisturbed run leaves nothing of the list,
\* unless a temporary file keeps a directory.
DeinstallsAll ==
  Completed("deinstaller") /\ ~dry /\ Undisturbed /\ begun.temps = {} =>
    \A n \in DOMAIN Items : fs[Place(Items[n])] = Absent

\* Every run ends, also the deinstaller's, whose index is unsigned
\* (deinstaller.c:55, 71).
RunEnds == (phase # "done") ~> (phase = "done")

\* install-core.c:776 and 779 say of inst_mkdir "Create directory if not
\* performing dry run" and, of a failure, "could not create directory".
DirectoriesMade ==
  Completed("installer") /\ ~dry =>
    \A n \in DOMAIN Items :
      Items[n].op = "mkdir" /\ n \notin reported => fs[Items[n].dir].kind = "dir"

\* install-core.c:385 says that the type of a file is not checked only if
\* symlinks are wanted and the platform does not support them.
TypesChecked ==
  Completed("instchk") =>
    \A n \in DOMAIN Items :
      Items[n].op = "mkdir" /\ n \notin reported => Seen(Items[n].dir).kind = "dir"
============================================================================
