---------------------------- MODULE InstallSids ----------------------------
(***************************************************************************)
(* The identities of the installer on Win32 (install-win32.c, and the      *)
(* functions of install-core.c that handle user_id_t and group_id_t): a    *)
(* user or group is a security identifier in a block of its own, which     *)
(* each function allocates, hands on and frees, or forgets.  FileCopy and  *)
(* Installer show the rest of what these functions do.                     *)
(***************************************************************************)
EXTENDS Integers, FiniteSets

CONSTANTS Accounts,   \* the users and groups, by name and by identifier
          Administrator,
          PrimaryGroup, \* of the process
          None,       \* no name, NULL, and what a free block holds
          Garbage,    \* what a block holds that was never filled
          Blocks,     \* bound: the blocks of the heap, numbers
          MaxItems,   \* bound: items served
          MaxFaults   \* bound: calls that fail

ASSUME AccountsAssumption ==
  /\ PrimaryGroup \in Accounts /\ Administrator \in Accounts
  /\ None \notin Accounts /\ Garbage \notin Accounts /\ None # Garbage
ASSUME BlocksAssumption == Blocks \subseteq Nat /\ None \notin Blocks
ASSUME SidBounds == MaxItems \in Nat /\ MaxFaults \in Nat

VARIABLES user,    \* the user of the process
          pc,      \* the next call
          item,    \* op, owner, group and dry run of the present item
          heap,    \* block |-> the identifier it holds
          ptr,     \* the variables that hold identifiers
          owner,   \* the owner of the file the item creates
          found,   \* whose temporary file the copy found, or None
          status,  \* how the item ended
          token,   \* history: how gid_current read the process's token
          links,   \* history: items that were links
          items, faults

vars == <<user, pc, item, heap, ptr, owner, found, status, token, links, items,
          faults>>

\* administrator_id; uid, gid and process_uid; and uid_got and gid_got, which
\* iwin32_file_link calls uid and gid.
Fields == {"administrator", "uid", "gid", "process", "uid_got", "gid_got"}

Ops == {"copy", "mkdir", "check", "link"}
\* Only inst_copy and inst_mkdir look at the dry run here: in one, a link is not
\* made, and instchk has none.
ItemSet == {i \in [op : Ops, owner : Accounts \union {None},
                   group : Accounts \union {None}, dry : BOOLEAN] :
              i.dry => i.op \in {"copy", "mkdir"}}

Points == {"init", "idle", "uid", "gid", "gid_failed", "ready", "copy_uid",
           "copy_open", "copy_owner", "mkdir_uid", "mkdir_owner", "get_owner",
           "get_group", "compare", "release", "exit", "aborted", "corrupt"}

Init ==
  /\ user \in Accounts
  /\ pc = "init" /\ item \in {i \in ItemSet : i.op = "copy" /\ i.owner = None
                                              /\ i.group = None /\ ~i.dry}
  /\ heap = [b \in Blocks |-> None] /\ ptr = [f \in Fields |-> None]
  /\ owner = user /\ found = None /\ status = "ok" /\ token = "fine"
  /\ links = 0 /\ items = 0 /\ faults = 0

Live == {b \in Blocks : heap[b] # None}
Fresh == CHOOSE b \in Blocks \ Live : TRUE

Works == UNCHANGED faults
Fails == faults < MaxFaults /\ faults' = faults + 1
Goto(from, to) == pc = from /\ pc' = to
Return(s) == pc' = "idle" /\ status' = s

\* What a call leaves alone that only handles identifiers.
Quiet == UNCHANGED <<user, item, owner, found, links, items>>

\* malloc, and what the system writes to the block.
Take(field, id) ==
  /\ Live # Blocks
  /\ heap' = [heap EXCEPT ![Fresh] = id]
  /\ ptr' = [ptr EXCEPT ![field] = Fresh]

\* malloc fails; or what should fill the block, which is then forgotten.
FailsHolding ==
  /\ Fails
  /\ \/ UNCHANGED heap
     \/ Live # Blocks /\ heap' = [heap EXCEPT ![Fresh] = Garbage]

GetSidFails == FailsHolding /\ UNCHANGED ptr

Dangling(f) == ptr[f] # None /\ ptr[f] \notin Live

\* uid_free and gid_free of some variables.
FreedHeap(fields) ==
  [b \in Blocks |-> IF \E f \in fields : ptr[f] = b THEN None ELSE heap[b]]

\* The callers' variables are gone, freed or not.
Forget == ptr' = [f \in Fields |-> IF f = "administrator" THEN ptr[f] ELSE None]

----------------------------------------------------------------------------
(* The assertions on identifiers: of install_uidgid_lookup and             *)
(* install_file_copy, and of the functions of install-win32.c they and     *)
(* their callers hand identifiers to.                                      *)

Target == IF item.op = "link" THEN "uid_got" ELSE "uid"

\* What is dereferenced next: what was looked up, also by uid_format and
\* gid_format; the user of the process; what uid_compare, gid_compare and
\* can_set_ownership are given.
MustHold ==
  CASE pc = "ready" -> {"uid", "gid"}
    [] pc = "copy_open" -> {"process"}
    [] pc = "copy_owner" -> {"process", "administrator", Target}
    [] pc = "mkdir_owner" /\ ~item.dry -> {"process", "administrator", "uid"}
    [] pc = "compare" -> {"uid", "gid", "uid_got", "gid_got"}
    [] OTHER -> {}

\* What is filled next: uid_lookup, uid_current, gid_lookup and gid_current
\* want it empty, and so does install_uidgid_lookup.
MustLack ==
  CASE pc = "init" -> {"administrator"}
    [] pc = "uid" -> {"uid", "gid"}
    [] pc = "gid" -> {"gid"}
    [] pc \in {"copy_uid", "mkdir_uid"} -> {"process"}
    [] OTHER -> {}

Asserted == /\ \A f \in MustHold : ptr[f] # None
            /\ \A f \in MustLack : ptr[f] = None

AssertionFails ==
  /\ ~Asserted /\ pc' = "aborted"
  /\ Quiet /\ UNCHANGED <<heap, ptr, status, token, faults>>

----------------------------------------------------------------------------
\* iwin32_init: without the Administrator the programs stop.
FetchAdministrator ==
  /\ Asserted
  /\ \/ Works /\ Take("administrator", Administrator) /\ Goto("init", "idle")
     \/ GetSidFails /\ Goto("init", "exit")
  /\ Quiet /\ UNCHANGED <<status, token>>

\* An item; of a link the owner and group of the source are copied.
Serve(i) ==
  /\ items < MaxItems /\ items' = items + 1
  /\ Goto("idle", IF i.op = "link" THEN "get_owner" ELSE "uid")
  /\ item' = i /\ owner' = user /\ found' = None
  /\ links' = IF i.op = "link" THEN links + 1 ELSE links
  /\ UNCHANGED <<user, heap, ptr, status, token, faults>>

----------------------------------------------------------------------------
(* install_uidgid_lookup                                                   *)

Wanted == IF item.owner = None THEN user ELSE item.owner

\* uid_lookup, or uid_current: GetUserName, whose failure leaves no block.
LookupUid ==
  /\ Asserted
  /\ \/ Works /\ Take("uid", Wanted) /\ Goto("uid", "gid") /\ UNCHANGED status
     \/ GetSidFails /\ pc = "uid" /\ Return("error")
  /\ Quiet /\ UNCHANGED token

\* The token cannot be opened, or memory is short: 0.  The second
\* GetTokenInformation fails: 1, and no identifier, which the assertions that
\* follow find.  CopySid fails: 0, and gid->value still refers to a block that
\* is free.
GidCurrent ==
  /\ item.group = None /\ Asserted
  /\ \/ Works /\ Take("gid", PrimaryGroup) /\ Goto("gid", "ready") /\ UNCHANGED token
     \/ Fails /\ UNCHANGED <<heap, ptr, token>> /\ Goto("gid", "gid_failed")
     \/ Fails /\ token' = "unread" /\ UNCHANGED <<heap, ptr>> /\ Goto("gid", "ready")
     \/ Fails /\ token' = "uncopied" /\ UNCHANGED heap /\ Live # Blocks
        /\ ptr' = [ptr EXCEPT !["gid"] = Fresh] /\ Goto("gid", "gid_failed")
  /\ Quiet /\ UNCHANGED status

GidLookup ==
  /\ item.group # None /\ Asserted
  /\ \/ Works /\ Take("gid", item.group) /\ Goto("gid", "ready")
     \/ GetSidFails /\ Goto("gid", "gid_failed")
  /\ Quiet /\ UNCHANGED <<status, token>>

\* gid_free, and nobody frees uid.  What happens after a block is freed twice
\* is undefined, and not modelled.
GidFailed ==
  /\ pc = "gid_failed" /\ pc' = IF Dangling("gid") THEN "corrupt" ELSE "idle"
  /\ status' = "error"
  /\ heap' = FreedHeap({"gid"}) /\ Forget
  /\ Quiet /\ UNCHANGED <<token, faults>>

\* The callers' part.
FirstCall == [copy |-> "copy_uid", mkdir |-> "mkdir_uid", check |-> "get_owner"]

Dispatch ==
  /\ Asserted
  /\ Goto("ready", IF item.op = "copy" /\ item.dry THEN "release"
                   ELSE FirstCall[item.op])
  /\ status' = "ok"
  /\ Quiet /\ UNCHANGED <<heap, ptr, token, faults>>

\* install_file_check returns before it asks for an owner.
CheckFailsEarly ==
  /\ Fails /\ item.op = "check" /\ Goto("ready", "release") /\ status' = "error"
  /\ Asserted
  /\ Quiet /\ UNCHANGED <<heap, ptr, token>>

----------------------------------------------------------------------------
(* install_file_copy, for inst_copy and for iwin32_file_link               *)

Same(f, g) == heap[ptr[f]] = heap[ptr[g]]
CanSetOwner == Same("process", "administrator")

\* inst_copy frees what it looked up; iwin32_file_link just returns.
CopyReturns(s) ==
  /\ status' = s
  /\ IF item.op = "link"
       THEN pc' = "idle" /\ Forget
       ELSE pc' = "release" /\ ptr' = [ptr EXCEPT !["process"] = None]

\* Seeded fault: the result of uid_current is not looked at.
CopyUidUnchecked ==
  /\ pc = "copy_uid" /\ Asserted /\ pc' = "copy_open"
  /\ \/ Works /\ Take("process", user)
     \/ FailsHolding /\ UNCHANGED ptr
  /\ Quiet /\ UNCHANGED <<status, token>>

CopyUid ==
  /\ pc = "copy_uid" /\ Asserted
  /\ \/ Works /\ Take("process", user) /\ pc' = "copy_open" /\ UNCHANGED status
     \/ FailsHolding /\ CopyReturns("error")
  /\ Quiet /\ UNCHANGED token

\* fopen makes the temporary file, or empties the one it finds, of which the
\* owner stays.  When the source cannot be opened nothing is freed.
CopyOpen ==
  /\ pc = "copy_open" /\ Asserted
  /\ \/ /\ Works /\ pc' = "copy_owner" /\ found' \in Accounts \union {None}
        /\ owner' = IF found' = None THEN user ELSE found'
        /\ UNCHANGED <<heap, ptr, status>>
     \/ Fails /\ UNCHANGED <<heap, owner, found>> /\ CopyReturns("error")
  /\ UNCHANGED <<user, item, token, links, items>>

\* Seeded fault: who may not set an owner leaves it.
CopyOwnerLenient ==
  /\ pc = "copy_owner" /\ Asserted /\ Works
  /\ heap' = FreedHeap({"process"}) /\ CopyReturns("ok")
  /\ owner' = IF CanSetOwner THEN heap[ptr[Target]] ELSE owner
  /\ UNCHANGED <<user, item, found, token, links, items>>

\* Writing, then the owner, if it is not the process; only the Administrator
\* may set it.  The group is never set.
CopyOwner ==
  /\ pc = "copy_owner" /\ heap' = FreedHeap({"process"})
  /\ \/ /\ Works /\ Asserted /\ Same("process", Target)
        /\ CopyReturns("ok") /\ UNCHANGED owner
     \/ /\ Works /\ Asserted /\ ~Same("process", Target) /\ CanSetOwner
        /\ CopyReturns("ok") /\ owner' = heap[ptr[Target]]
     \/ /\ Works /\ Asserted /\ ~Same("process", Target) /\ ~CanSetOwner
        /\ CopyReturns("error") /\ UNCHANGED owner
     \/ Fails /\ CopyReturns("error") /\ UNCHANGED owner
  /\ UNCHANGED <<user, item, found, token, links, items>>

----------------------------------------------------------------------------
(* inst_mkdir                                                              *)

MkdirUid ==
  /\ Asserted
  /\ \/ Works /\ Take("process", user) /\ Goto("mkdir_uid", "mkdir_owner")
        /\ UNCHANGED status
     \/ GetSidFails /\ Goto("mkdir_uid", "release") /\ status' = "error"
  /\ Quiet /\ UNCHANGED token

\* The directories are made, and the last one is given to its owner.
MkdirOwner ==
  /\ Goto("mkdir_owner", "release")
  /\ \/ /\ Works /\ Asserted /\ (item.dry \/ Same("process", "uid"))
        /\ status' = "ok" /\ UNCHANGED owner
     \/ /\ Works /\ Asserted /\ ~item.dry /\ ~Same("process", "uid")
        /\ IF CanSetOwner THEN status' = "ok" /\ owner' = heap[ptr["uid"]]
                          ELSE status' = "error" /\ UNCHANGED owner
     \/ Fails /\ ~item.dry /\ status' = "error" /\ UNCHANGED owner
  /\ UNCHANGED <<user, item, found, heap, ptr, token, links, items>>

----------------------------------------------------------------------------
(* iwin32_file_ownership_get, for install_file_check and iwin32_file_link  *)

\* The check frees what it got, the link nothing.
GetFails(field) ==
  /\ Fails /\ status' = "error"
  /\ pc' = IF item.op = "link" THEN "idle" ELSE "release"
  /\ \/ heap' = heap /\ IF item.op = "link" THEN Forget ELSE ptr' = ptr
     \/ /\ Live # Blocks /\ heap' = [heap EXCEPT ![Fresh] = Garbage]
        /\ IF item.op = "link" THEN Forget ELSE ptr' = [ptr EXCEPT ![field] = Fresh]

GetOwner(a) ==
  /\ pc = "get_owner"
  /\ \/ Works /\ Take("uid_got", a) /\ pc' = "get_group" /\ UNCHANGED status
     \/ GetFails("uid_got")
  /\ Quiet /\ UNCHANGED token

\* Seeded fault: the group is not copied to a block of its own.
GetGroupShared(a) ==
  /\ pc = "get_group" /\ a = heap[ptr["uid_got"]] /\ Works
  /\ ptr' = [ptr EXCEPT !["gid_got"] = ptr["uid_got"]]
  /\ pc' = IF item.op = "link" THEN "copy_uid" ELSE "compare"
  /\ Quiet /\ UNCHANGED <<heap, status, token>>

GetGroup(a) ==
  /\ pc = "get_group"
  /\ \/ Works /\ Take("gid_got", a) /\ UNCHANGED status
        /\ pc' = IF item.op = "link" THEN "copy_uid" ELSE "compare"
     \/ GetFails("gid_got")
  /\ Quiet /\ UNCHANGED token

Compare ==
  /\ Asserted /\ Goto("compare", "release")
  /\ status' = IF Same("uid", "uid_got") /\ Same("gid", "gid_got") THEN "ok" ELSE "error"
  /\ Quiet /\ UNCHANGED <<heap, ptr, token, faults>>

----------------------------------------------------------------------------
\* Seeded fault: of a check, what it got is not freed.
ReleaseWanted ==
  /\ Goto("release", "idle")
  /\ heap' = FreedHeap({"uid", "gid", "process"}) /\ Forget
  /\ Quiet /\ UNCHANGED <<status, token, faults>>

\* The callers free what they looked up, and what they got.
Release ==
  /\ Goto("release", IF \E f \in Fields : Dangling(f) THEN "corrupt" ELSE "idle")
  /\ heap' = FreedHeap(Fields \ {"administrator"}) /\ Forget
  /\ Quiet /\ UNCHANGED <<status, token, faults>>

Next ==
  \/ FetchAdministrator
  \/ \E i \in ItemSet : Serve(i)
  \/ LookupUid \/ GidCurrent \/ GidLookup \/ GidFailed
  \/ AssertionFails \/ Dispatch \/ CheckFailsEarly
  \/ CopyUid \/ CopyOpen \/ CopyOwner
  \/ MkdirUid \/ MkdirOwner
  \/ \E a \in Accounts : GetOwner(a) \/ GetGroup(a)
  \/ Compare \/ Release

Spec == Init /\ [][Next]_vars

----------------------------------------------------------------------------
\* Every variable has its type; status is never the fatal one it begins as.
SidTypeOK ==
  /\ pc \in Points /\ item \in ItemSet
  /\ heap \in [Blocks -> Accounts \union {None, Garbage}]
  /\ ptr \in [Fields -> Blocks \union {None}]
  /\ user \in Accounts /\ owner \in Accounts
  /\ found \in Accounts \union {None} /\ status \in {"ok", "error"}
  /\ token \in {"fine", "unread", "uncopied"}
  /\ links \in 0 .. items /\ items \in 0 .. MaxItems /\ faults \in 0 .. MaxFaults

\* No assertion on an identifier fails, neither those on what a function is
\* about to dereference nor those on what it is about to fill, whatever was
\* forgotten or lost before: but for "assert (platform->gid_valid (*gid))"
\* (install-core.c:313), of an item that names no group, after
\* iwin32_gid_current returned 1 without one (install-win32.c:170).
AssertsHold ==
  pc = "aborted" =>
    token = "unread" /\ item.group = None /\ ptr["gid"] = None /\ ptr["uid"] # None

\* A variable refers to a block that is allocated and that no other variable
\* refers to, whatever the calls between hand on, so that no block is freed
\* twice; the group that could not be copied is the exception.
PointersOwned ==
  /\ \A f \in Fields : ptr[f] # None =>
       /\ Dangling(f) => token = "uncopied" /\ pc = "gid_failed" /\ f = "gid"
       /\ \A g \in Fields : ptr[g] = ptr[f] => g = f
  /\ pc = "corrupt" => token = "uncopied"

\* What is lost between items is due to a link, which loses the owner and the
\* group of its source, or to a call that failed, of which each loses two
\* blocks at most: otherwise all is freed but the Administrator.
LeaksBounded ==
  pc = "idle" => Cardinality(Live) <= 1 + 2 * links + 2 * faults

\* A copy that is reported to have worked belongs to the owner of the item, or
\* to the user of the process when it names none.  The exception: a process that
\* is itself the owner wanted sets none (install-core.c:234), so a temporary
\* file of another account that it found is installed as that account's.
OwnerInstalled ==
  (pc = "idle" /\ items > 0 /\ item.op = "copy" /\ ~item.dry /\ status = "ok")
    => owner = Wanted \/ (Wanted = user /\ owner = found)
============================================================================
