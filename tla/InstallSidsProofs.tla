-------------------------- MODULE InstallSidsProofs --------------------------
(***************************************************************************)
(* Proofs about InstallSids, for any accounts, heap and number of items    *)
(* and failures.                                                           *)
(***************************************************************************)
EXTENDS InstallSids, FiniteSetTheorems, TLAPS

\* The points of install_file_copy.
Copying == {"copy_uid", "copy_open", "copy_owner"}

\* Every pointer is to a block of its own.
Owned ==
  \A f \in Fields : ptr[f] # None =>
    /\ heap[ptr[f]] = None =>
         token = "uncopied" /\ pc = "gid_failed" /\ f = "gid"
    /\ \A g \in Fields : ptr[g] = ptr[f] => g = f

\* The variable f holds the identifier a.
Has(f, a) == ptr[f] # None /\ heap[ptr[f]] = a

\* The item a point belongs to.
Serving ==
  /\ pc \in {"uid", "gid", "ready"} => item.op # "link"
  /\ pc \in Copying => item.op \in {"copy", "link"}
  /\ pc \in {"mkdir_uid", "mkdir_owner"} => item.op = "mkdir"
  /\ pc \in {"get_owner", "get_group"} => item.op \in {"check", "link"}
  /\ pc = "compare" => item.op = "check"

\* What the variables hold at each point.
Holding ==
  /\ (pc \in {"gid", "ready", "mkdir_uid", "mkdir_owner"}
      \/ (pc \in Copying /\ item.op = "copy")) => Has("uid", Wanted)
  /\ (pc = "get_group" \/ (pc \in Copying /\ item.op = "link")) =>
       \E a \in Accounts : Has("uid_got", a)
  /\ pc \in {"copy_open", "copy_owner"} => Has("process", user)

\* The owner of a copy, and what becomes of it.
Installing ==
  /\ pc = "copy_owner" => owner = IF found = None THEN user ELSE found
  /\ (pc \in {"init", "release", "idle"} /\ item.op = "copy" /\ ~item.dry
      /\ status = "ok") => owner = Wanted \/ (Wanted = user /\ owner = found)

\* How the program may stop, but for an assertion.
Stopping == pc = "corrupt" => token = "uncopied"

IInv == SidTypeOK /\ Owned /\ Serving /\ Holding /\ Installing /\ Stopping

----------------------------------------------------------------------------
(* The heap.                                                               *)

\* malloc returns a block that is free.
LEMMA FreshFree ==
  ASSUME Live # Blocks
  PROVE  Fresh \in Blocks /\ heap[Fresh] = None
  BY DEF Live, Fresh

\* A block of its own, for a variable.
LEMMA TakeOwned ==
  ASSUME SidTypeOK, Owned, pc # "gid_failed",
         NEW f \in Fields, NEW a \in Accounts \union {Garbage},
         Take(f, a)
  PROVE  /\ heap' \in [Blocks -> Accounts \union {None, Garbage}]
         /\ ptr' \in [Fields -> Blocks \union {None}]
         /\ Owned'
         /\ ptr'[f] # None /\ heap'[ptr'[f]] = a
         /\ \A g \in Fields \ {f} :
              /\ ptr'[g] = ptr[g]
              /\ ptr[g] # None => heap'[ptr[g]] = heap[ptr[g]]
  BY FreshFree, BlocksAssumption, AccountsAssumption DEF SidTypeOK, Owned, Take

\* A block that is lost at once.
LEMMA LoseOwned ==
  ASSUME SidTypeOK, Owned, pc # "gid_failed",
         \/ UNCHANGED heap
         \/ Live # Blocks /\ heap' = [heap EXCEPT ![Fresh] = Garbage]
  PROVE  /\ heap' \in [Blocks -> Accounts \union {None, Garbage}]
         /\ \A g \in Fields : ptr[g] # None =>
              heap[ptr[g]] # None /\ heap'[ptr[g]] = heap[ptr[g]]
  BY FreshFree, BlocksAssumption, AccountsAssumption DEF SidTypeOK, Owned

\* Freeing the blocks of some variables leaves those of the others.
LEMMA FreeOwned ==
  ASSUME SidTypeOK, Owned, NEW fields \in SUBSET Fields,
         heap' = FreedHeap(fields)
  PROVE  /\ heap' \in [Blocks -> Accounts \union {None, Garbage}]
         /\ \A g \in Fields \ fields : ptr[g] # None =>
              heap'[ptr[g]] = heap[ptr[g]]
  BY DEF SidTypeOK, Owned, FreedHeap

\* The callers' variables are forgotten.
LEMMA ForgetTypes ==
  ASSUME SidTypeOK, Forget
  PROVE  /\ ptr' \in [Fields -> Blocks \union {None}]
         /\ \A g \in Fields : ptr'[g] # None => g = "administrator" /\ ptr'[g] = ptr[g]
  BY DEF SidTypeOK, Forget

----------------------------------------------------------------------------
LEMMA InitIInv == Init => IInv
  <1> SUFFICES ASSUME Init PROVE IInv
    OBVIOUS
  <1>1. SidTypeOK
    BY AccountsAssumption, SidBounds DEF Init, SidTypeOK, Points
  <1> QED
    BY <1>1 DEF Init, IInv, Owned, Serving, Holding, Installing, Stopping,
                Has, Copying, Wanted, ItemSet, Fields

----------------------------------------------------------------------------
(* The steps.                                                              *)

LEMMA InitStep ==
  ASSUME IInv, FetchAdministrator PROVE IInv'
  <1> USE DEF IInv, FetchAdministrator, Quiet, Goto
  <1>1. CASE Works /\ Take("administrator", Administrator) /\ Goto("init", "idle")
    <2>1. /\ heap' \in [Blocks -> Accounts \union {None, Garbage}]
          /\ ptr' \in [Fields -> Blocks \union {None}]
          /\ Owned'
      BY <1>1, TakeOwned, AccountsAssumption DEF Fields
    <2> QED
      BY <1>1, <2>1
         DEF Works, SidTypeOK, Serving, Holding, Installing, Stopping,
             Copying, Points, Wanted
  <1>2. CASE GetSidFails /\ Goto("init", "exit")
    BY <1>2, LoseOwned, SidBounds
       DEF GetSidFails, FailsHolding, Fails, SidTypeOK, Owned, Serving,
           Holding, Installing, Stopping, Copying, Points
  <1> QED BY <1>1, <1>2

LEMMA ServeStep ==
  ASSUME IInv, NEW i \in ItemSet, Serve(i) PROVE IInv'
  BY SidBounds
     DEF IInv, Serve, Goto, SidTypeOK, Owned, Serving, Holding, Installing,
         Stopping, Copying, Points, ItemSet, Ops

LEMMA LookupUidStep ==
  ASSUME IInv, LookupUid PROVE IInv'
  <1> USE DEF IInv, LookupUid, Quiet, Goto
  <1>0. Wanted \in Accounts
    BY DEF Wanted, SidTypeOK, ItemSet
  <1>1. CASE Works /\ Take("uid", Wanted) /\ Goto("uid", "gid") /\ UNCHANGED status
    <2>1. /\ heap' \in [Blocks -> Accounts \union {None, Garbage}]
          /\ ptr' \in [Fields -> Blocks \union {None}]
          /\ Owned' /\ ptr'["uid"] # None /\ heap'[ptr'["uid"]] = Wanted
      BY <1>0, <1>1, TakeOwned DEF Fields
    <2> HIDE DEF LookupUid
    <2>2. Quiet /\ UNCHANGED token
      BY DEF LookupUid
    <2> QED
      BY <1>1, <2>1, <2>2
         DEF Works, SidTypeOK, Serving, Holding, Installing, Stopping,
             Copying, Points, Has, Wanted
  <1>2. CASE GetSidFails /\ pc = "uid" /\ Return("error")
    BY <1>2, LoseOwned, SidBounds
       DEF GetSidFails, FailsHolding, Fails, Return, SidTypeOK, Owned, Serving,
           Holding, Installing, Stopping, Copying, Points
  <1> QED BY <1>1, <1>2

LEMMA GidCurrentStep ==
  ASSUME IInv, GidCurrent PROVE IInv'
  <1> USE SidBounds DEF IInv, GidCurrent, Quiet, Goto
  <1>1. CASE Works /\ Take("gid", PrimaryGroup) /\ Goto("gid", "ready")
             /\ UNCHANGED token
    <2>1. /\ heap' \in [Blocks -> Accounts \union {None, Garbage}]
          /\ ptr' \in [Fields -> Blocks \union {None}]
          /\ Owned' /\ ptr'["gid"] # None
          /\ ptr'["uid"] = ptr["uid"]
          /\ ptr["uid"] # None => heap'[ptr["uid"]] = heap[ptr["uid"]]
      BY <1>1, TakeOwned, AccountsAssumption DEF Fields
    <2> QED
      BY <1>1, <2>1
         DEF Works, SidTypeOK, Serving, Holding, Installing, Stopping,
             Copying, Points, Has, Wanted
  <1>2. CASE Fails /\ UNCHANGED <<heap, ptr, token>> /\ Goto("gid", "gid_failed")
    BY <1>2
       DEF Fails, SidTypeOK, Owned, Serving, Holding, Installing, Stopping,
           Copying, Points
  <1>3. CASE Fails /\ token' = "unread" /\ UNCHANGED <<heap, ptr>>
             /\ Goto("gid", "ready")
    BY <1>3
       DEF Fails, SidTypeOK, Owned, Serving, Holding, Installing, Stopping,
           Copying, Points, Has, Wanted
  <1>4. CASE Fails /\ token' = "uncopied" /\ UNCHANGED heap /\ Live # Blocks
             /\ ptr' = [ptr EXCEPT !["gid"] = Fresh] /\ Goto("gid", "gid_failed")
    <2>1. Fresh \in Blocks /\ heap[Fresh] = None
      BY <1>4, FreshFree
    <2>2. SidTypeOK'
      BY <1>4, <2>1 DEF Fails, SidTypeOK, Points, Fields
    <2>3. Owned'
      BY <1>4, <2>1, BlocksAssumption DEF SidTypeOK, Owned, Fields
    <2> QED
      BY <1>4, <2>2, <2>3
         DEF Serving, Holding, Installing, Stopping, Copying
  <1> QED BY <1>1, <1>2, <1>3, <1>4

LEMMA GidLookupStep ==
  ASSUME IInv, GidLookup PROVE IInv'
  <1> USE SidBounds DEF IInv, GidLookup, Quiet, Goto
  <1>1. CASE Works /\ Take("gid", item.group) /\ Goto("gid", "ready")
    <2>1. item.group \in Accounts
      BY <1>1 DEF SidTypeOK, ItemSet
    <2>2. /\ heap' \in [Blocks -> Accounts \union {None, Garbage}]
          /\ ptr' \in [Fields -> Blocks \union {None}]
          /\ Owned' /\ ptr'["gid"] # None
          /\ ptr'["uid"] = ptr["uid"]
          /\ ptr["uid"] # None => heap'[ptr["uid"]] = heap[ptr["uid"]]
      BY <1>1, <2>1, TakeOwned DEF Fields
    <2> QED
      BY <1>1, <2>2
         DEF Works, SidTypeOK, Serving, Holding, Installing, Stopping,
             Copying, Points, Has, Wanted
  <1>2. CASE GetSidFails /\ Goto("gid", "gid_failed")
    BY <1>2, LoseOwned
       DEF GetSidFails, FailsHolding, Fails, SidTypeOK, Owned, Serving,
           Holding, Installing, Stopping, Copying, Points
  <1> QED BY <1>1, <1>2

LEMMA GidFailedStep ==
  ASSUME IInv, GidFailed PROVE IInv'
  <1> USE DEF IInv, GidFailed, Quiet
  <1>1. /\ heap' \in [Blocks -> Accounts \union {None, Garbage}]
        /\ \A g \in Fields \ {"gid"} : ptr[g] # None =>
             heap'[ptr[g]] = heap[ptr[g]]
    BY FreeOwned DEF Fields
  <1>2. /\ ptr' \in [Fields -> Blocks \union {None}]
        /\ \A g \in Fields : ptr'[g] # None =>
             g = "administrator" /\ ptr'[g] = ptr[g]
    BY ForgetTypes
  <1>3. Owned'
    BY <1>1, <1>2 DEF Owned, Fields
  <1>4. Dangling("gid") => token = "uncopied"
    BY DEF Dangling, Live, Owned, Fields, SidTypeOK
  <1> QED
    BY <1>1, <1>2, <1>3, <1>4
       DEF SidTypeOK, Serving, Holding, Installing, Stopping, Copying, Points

LEMMA AssertionStep ==
  ASSUME IInv, AssertionFails PROVE IInv'
  <1> USE DEF IInv, AssertionFails, Quiet
  <1>1. pc # "gid_failed"
    BY DEF Asserted, MustHold, MustLack
  <1> QED
    BY <1>1
       DEF SidTypeOK, Owned, Serving, Holding, Installing, Stopping, Copying,
           Points

LEMMA DispatchStep ==
  ASSUME IInv, Dispatch \/ CheckFailsEarly PROVE IInv'
  <1> USE SidBounds DEF IInv, Quiet, Goto
  <1>2. CASE Dispatch
    <2>1. item.op \in {"copy", "mkdir", "check"} /\ item.dry \in BOOLEAN
      BY <1>2 DEF Dispatch, Serving, SidTypeOK, ItemSet, Ops
    <2>2. CASE item.op = "copy" /\ item.dry
      BY <1>2, <2>2
         DEF Dispatch, SidTypeOK, Owned, Serving, Holding, Installing,
             Stopping, Copying, Points, Has, Wanted
    <2>3. CASE ~(item.op = "copy" /\ item.dry)
      <3>1. pc' = FirstCall[item.op]
        BY <1>2, <2>3 DEF Dispatch
      <3>2. pc' = CASE item.op = "copy" -> "copy_uid"
                    [] item.op = "mkdir" -> "mkdir_uid"
                    [] item.op = "check" -> "get_owner"
        BY <2>1, <3>1 DEF FirstCall
      <3> QED
        BY <1>2, <2>1, <3>2
           DEF Dispatch, SidTypeOK, Owned, Serving, Holding, Installing,
               Stopping, Copying, Points, Has, Wanted
    <2> QED BY <2>2, <2>3
  <1>3. CASE CheckFailsEarly
    BY <1>3
       DEF CheckFailsEarly, Fails, SidTypeOK, Owned, Serving, Holding,
           Installing, Stopping, Copying, Points
  <1> QED BY <1>2, <1>3

LEMMA CopyUidStep ==
  ASSUME IInv, CopyUid PROVE IInv'
  <1> USE SidBounds DEF IInv, CopyUid, Quiet
  <1>1. CASE Works /\ Take("process", user) /\ pc' = "copy_open"
             /\ UNCHANGED status
    <2>1. user \in Accounts
      BY DEF SidTypeOK
    <2>2. /\ heap' \in [Blocks -> Accounts \union {None, Garbage}]
          /\ ptr' \in [Fields -> Blocks \union {None}]
          /\ Owned' /\ ptr'["process"] # None /\ heap'[ptr'["process"]] = user
          /\ \A g \in Fields \ {"process"} :
              /\ ptr'[g] = ptr[g]
              /\ ptr[g] # None => heap'[ptr[g]] = heap[ptr[g]]
      BY <1>1, <2>1, TakeOwned DEF Fields
    <2> QED
      BY <1>1, <2>2
         DEF Works, SidTypeOK, Serving, Holding, Installing, Stopping,
             Copying, Points, Has, Wanted, Fields
  <1>2. CASE FailsHolding /\ CopyReturns("error")
    <2>1. /\ heap' \in [Blocks -> Accounts \union {None, Garbage}]
          /\ \A g \in Fields : ptr[g] # None =>
              heap[ptr[g]] # None /\ heap'[ptr[g]] = heap[ptr[g]]
      BY <1>2, LoseOwned DEF FailsHolding
    <2>2. /\ ptr' \in [Fields -> Blocks \union {None}]
          /\ \A g \in Fields : ptr'[g] # None => ptr'[g] = ptr[g]
      BY <1>2 DEF CopyReturns, Forget, SidTypeOK
    <2>3. Owned'
      BY <2>1, <2>2 DEF Owned
    <2> QED
      BY <1>2, <2>1, <2>2, <2>3
         DEF FailsHolding, Fails, CopyReturns, SidTypeOK, Serving, Holding,
             Installing, Stopping, Copying, Points
  <1> QED BY <1>1, <1>2

LEMMA CopyOpenStep ==
  ASSUME IInv, CopyOpen PROVE IInv'
  <1> USE SidBounds DEF IInv
  <1>0. pc = "copy_open" /\ UNCHANGED <<user, item, token, links, items>>
    BY DEF CopyOpen
  <1>1. CASE /\ Works /\ pc' = "copy_owner" /\ found' \in Accounts \union {None}
             /\ owner' = IF found' = None THEN user ELSE found'
             /\ UNCHANGED <<heap, ptr, status>>
    <2>1. SidTypeOK' /\ Owned'
      BY <1>0, <1>1 DEF Works, SidTypeOK, Points, Owned
    <2> QED
      BY <1>0, <1>1, <2>1
         DEF Serving, Holding, Installing, Stopping, Copying, Has, Wanted
  <1>2. CASE Fails /\ UNCHANGED <<heap, owner, found>> /\ CopyReturns("error")
    <2>1. /\ ptr' \in [Fields -> Blocks \union {None}]
          /\ \A g \in Fields : ptr'[g] # None => ptr'[g] = ptr[g]
      BY <1>2 DEF CopyReturns, Forget, SidTypeOK
    <2>2. Owned'
      BY <1>0, <1>2, <2>1 DEF Owned
    <2> QED
      BY <1>0, <1>2, <2>1, <2>2
         DEF Fails, CopyReturns, SidTypeOK, Serving, Holding, Installing,
             Stopping, Copying, Points
  <1> QED BY <1>1, <1>2 DEF CopyOpen

\* A copy is given to the owner wanted, who may be the user it belongs to.
LEMMA CopyOwnerStep ==
  ASSUME IInv, CopyOwner PROVE IInv'
  <1> USE SidBounds DEF IInv, CopyOwner
  <1>1. /\ heap' \in [Blocks -> Accounts \union {None, Garbage}]
        /\ \A g \in Fields \ {"process"} : ptr[g] # None =>
             heap'[ptr[g]] = heap[ptr[g]]
    BY FreeOwned DEF Fields
  <1>2. PICK s \in {"ok", "error"} : CopyReturns(s)
    OBVIOUS
  <1>3. /\ ptr' \in [Fields -> Blocks \union {None}]
        /\ \A g \in Fields : ptr'[g] # None =>
             g # "process" /\ ptr'[g] = ptr[g]
    BY <1>2 DEF CopyReturns, Forget, SidTypeOK, Fields
  <1>4. Owned'
    BY <1>1, <1>3 DEF Owned, Fields
  <1>5. heap[ptr["process"]] = user /\ owner = IF found = None THEN user ELSE found
    BY DEF Holding, Installing, Has
  <1>6. item.op = "copy" => heap[ptr["uid"]] = Wanted
    BY DEF Holding, Has, Copying
  <1>7. item.op \in {"copy", "link"}
    BY DEF Serving, Copying
  <1>8. heap[ptr[Target]] \in Accounts
    <2>1. Wanted \in Accounts
      BY DEF Wanted, SidTypeOK, ItemSet
    <2> QED BY <1>7, <2>1 DEF Holding, Has, Copying, Target
  <1>9. owner' \in Accounts /\ faults' \in 0 .. MaxFaults
    BY <1>8 DEF SidTypeOK, Works, Fails
  <1>10. (item.op = "copy" /\ status' = "ok") =>
           owner' = Wanted \/ (Wanted = user /\ owner' = found)
    BY <1>5, <1>6 DEF CopyReturns, Same, Target
  <1> HIDE DEF CopyOwner
  <1>11. UNCHANGED <<user, item, found, token, links, items>>
    BY DEF CopyOwner
  <1> QED
    BY <1>1, <1>2, <1>3, <1>4, <1>9, <1>10, <1>11
       DEF CopyReturns, SidTypeOK, Serving, Holding, Installing, Stopping,
           Copying, Points, Wanted

LEMMA MkdirStep ==
  ASSUME IInv, MkdirUid \/ MkdirOwner PROVE IInv'
  <1> USE SidBounds DEF IInv, Quiet, Goto
  <1>1. CASE MkdirUid /\ Works /\ Take("process", user)
             /\ Goto("mkdir_uid", "mkdir_owner") /\ UNCHANGED status
    <2>1. user \in Accounts
      BY DEF SidTypeOK
    <2>2. /\ heap' \in [Blocks -> Accounts \union {None, Garbage}]
          /\ ptr' \in [Fields -> Blocks \union {None}]
          /\ Owned'
          /\ \A g \in Fields \ {"process"} :
              /\ ptr'[g] = ptr[g]
              /\ ptr[g] # None => heap'[ptr[g]] = heap[ptr[g]]
      BY <1>1, <2>1, TakeOwned DEF Fields, MkdirUid
    <2>3. UNCHANGED <<token, user, item, owner, found, links, items>>
      BY <1>1 DEF MkdirUid
    <2> QED
      BY <1>1, <2>2, <2>3
         DEF Works, SidTypeOK, Serving, Holding, Installing, Stopping,
             Copying, Points, Has, Wanted, Fields
  <1>2. CASE MkdirUid /\ GetSidFails /\ Goto("mkdir_uid", "release")
             /\ status' = "error"
    <2>1. UNCHANGED <<token, user, item, owner, found, links, items>>
      BY <1>2 DEF MkdirUid
    <2> QED
      BY <1>2, <2>1, LoseOwned
         DEF GetSidFails, FailsHolding, Fails, SidTypeOK, Owned, Serving,
             Holding, Installing, Stopping, Copying, Points
  <1>3. CASE MkdirOwner
    <2>1. heap[ptr["uid"]] = Wanted /\ Wanted \in Accounts
      BY <1>3 DEF MkdirOwner, Holding, Has, Wanted, SidTypeOK, ItemSet
    <2>2. owner' \in Accounts /\ faults' \in 0 .. MaxFaults
          /\ status' \in {"ok", "error"}
      BY <1>3, <2>1 DEF MkdirOwner, SidTypeOK, Works, Fails
    <2>3. UNCHANGED <<user, item, found, heap, ptr, token, links, items>>
          /\ pc = "mkdir_owner" /\ pc' = "release" /\ item.op = "mkdir"
      BY <1>3 DEF MkdirOwner, Serving
    <2> QED
      BY <2>2, <2>3
         DEF SidTypeOK, Owned, Serving, Holding, Installing, Stopping,
             Copying, Points
  <1> QED BY <1>1, <1>2, <1>3 DEF MkdirUid

LEMMA GetFailsStep ==
  ASSUME IInv, NEW f \in {"uid_got", "gid_got"}, GetFails(f),
         pc \in {"get_owner", "get_group"}, Quiet, UNCHANGED token
  PROVE  IInv'
  <1> USE SidBounds DEF IInv, Quiet, GetFails
  <1>1. item.op \in {"check", "link"}
    BY DEF Serving
  <1>2. CASE heap' = heap /\ IF item.op = "link" THEN Forget ELSE ptr' = ptr
    <2>1. /\ ptr' \in [Fields -> Blocks \union {None}]
          /\ \A g \in Fields : ptr'[g] # None => ptr'[g] = ptr[g]
      BY <1>2 DEF Forget, SidTypeOK
    <2>2. Owned'
      BY <1>2, <2>1 DEF Owned
    <2> QED
      BY <1>1, <1>2, <2>1, <2>2
         DEF Fails, SidTypeOK, Serving, Holding, Installing, Stopping, Copying,
             Points
  <1>3. CASE /\ Live # Blocks /\ heap' = [heap EXCEPT ![Fresh] = Garbage]
             /\ IF item.op = "link" THEN Forget
                                    ELSE ptr' = [ptr EXCEPT ![f] = Fresh]
    <2>1. /\ heap' \in [Blocks -> Accounts \union {None, Garbage}]
          /\ ptr' \in [Fields -> Blocks \union {None}]
          /\ Owned'
      <3>1. CASE item.op = "link" /\ Forget
        <4>1. heap' \in [Blocks -> Accounts \union {None, Garbage}]
              /\ \A g \in Fields : ptr[g] # None =>
                   heap[ptr[g]] # None /\ heap'[ptr[g]] = heap[ptr[g]]
          BY <1>3, LoseOwned
        <4>2. /\ ptr' \in [Fields -> Blocks \union {None}]
              /\ \A g \in Fields : ptr'[g] # None => ptr'[g] = ptr[g]
          BY <3>1 DEF Forget, SidTypeOK
        <4> QED BY <4>1, <4>2 DEF Owned
      <3>2. CASE Take(f, Garbage)
        BY <3>2, TakeOwned DEF Fields
      <3> QED BY <1>3, <3>1, <3>2 DEF Take
    <2> QED
      BY <1>1, <2>1
         DEF Fails, SidTypeOK, Serving, Holding, Installing, Stopping, Copying,
             Points
  <1> QED BY <1>2, <1>3

LEMMA GetStep ==
  ASSUME IInv, NEW a \in Accounts, GetOwner(a) \/ GetGroup(a) PROVE IInv'
  <1> USE SidBounds DEF IInv, Quiet
  <1>1. CASE GetOwner(a) /\ Take("uid_got", a) /\ pc' = "get_group"
             /\ Works /\ UNCHANGED status
    <2>1. /\ heap' \in [Blocks -> Accounts \union {None, Garbage}]
          /\ ptr' \in [Fields -> Blocks \union {None}]
          /\ Owned' /\ ptr'["uid_got"] # None /\ heap'[ptr'["uid_got"]] = a
      BY <1>1, TakeOwned DEF Fields, GetOwner
    <2> QED
      BY <1>1, <2>1
         DEF GetOwner, Works, SidTypeOK, Serving, Holding, Installing,
             Stopping, Copying, Points, Has
  <1>2. CASE GetGroup(a) /\ Take("gid_got", a) /\ Works /\ UNCHANGED status
             /\ pc' = IF item.op = "link" THEN "copy_uid" ELSE "compare"
    <2>1. /\ heap' \in [Blocks -> Accounts \union {None, Garbage}]
          /\ ptr' \in [Fields -> Blocks \union {None}]
          /\ Owned' /\ ptr'["uid_got"] = ptr["uid_got"]
          /\ ptr["uid_got"] # None =>
               heap'[ptr["uid_got"]] = heap[ptr["uid_got"]]
      BY <1>2, TakeOwned DEF Fields, GetGroup
    <2>2. \E b \in Accounts : ptr["uid_got"] # None /\ heap[ptr["uid_got"]] = b
      BY <1>2 DEF GetGroup, Holding, Has
    <2> QED
      BY <1>2, <2>1, <2>2
         DEF GetGroup, Works, SidTypeOK, Serving, Holding, Installing,
             Stopping, Copying, Points, Has
  <1>3. CASE GetOwner(a) /\ GetFails("uid_got")
    BY <1>3, GetFailsStep DEF GetOwner
  <1>4. CASE GetGroup(a) /\ GetFails("gid_got")
    BY <1>4, GetFailsStep DEF GetGroup
  <1> QED BY <1>1, <1>2, <1>3, <1>4 DEF GetOwner, GetGroup

LEMMA CompareStep ==
  ASSUME IInv, Compare PROVE IInv'
  BY DEF IInv, Compare, Quiet, Goto, SidTypeOK, Owned, Serving, Holding,
         Installing, Stopping, Copying, Points

\* Nothing dangles when all is freed.
LEMMA ReleaseStep ==
  ASSUME IInv, Release PROVE IInv'
  <1> USE DEF IInv, Release, Quiet, Goto
  <1>1. /\ heap' \in [Blocks -> Accounts \union {None, Garbage}]
        /\ ptr["administrator"] # None =>
             heap'[ptr["administrator"]] = heap[ptr["administrator"]]
    BY FreeOwned DEF Fields
  <1>2. /\ ptr' \in [Fields -> Blocks \union {None}]
        /\ \A g \in Fields : ptr'[g] # None =>
             g = "administrator" /\ ptr'[g] = ptr[g]
    BY ForgetTypes
  <1>3. Owned'
    BY <1>1, <1>2 DEF Owned, Fields
  <1>4. ~ \E f \in Fields : Dangling(f)
    BY DEF Dangling, Live, Owned, SidTypeOK
  <1> QED
    BY <1>1, <1>2, <1>3, <1>4
       DEF SidTypeOK, Serving, Holding, Installing, Stopping, Copying, Points,
           Wanted

----------------------------------------------------------------------------
(* The theorems.                                                           *)

LEMMA NextStep == IInv /\ [Next]_vars => IInv'
  <1> SUFFICES ASSUME IInv, [Next]_vars PROVE IInv'
    OBVIOUS
  <1>1. CASE UNCHANGED vars
    BY <1>1 DEF vars, IInv, SidTypeOK, Owned, Serving, Holding, Installing,
                Stopping, Has, Wanted
  <1>2. CASE LookupUid \/ GidCurrent \/ GidLookup \/ GidFailed
    BY <1>2, LookupUidStep, GidCurrentStep, GidLookupStep, GidFailedStep
  <1>3. CASE AssertionFails \/ Dispatch \/ CheckFailsEarly
    BY <1>3, AssertionStep, DispatchStep
  <1>4. CASE CopyUid \/ CopyOpen \/ CopyOwner \/ MkdirUid \/ MkdirOwner
    BY <1>4, CopyUidStep, CopyOpenStep, CopyOwnerStep, MkdirStep
  <1>5. CASE Compare \/ Release \/ FetchAdministrator
    BY <1>5, CompareStep, ReleaseStep, InitStep
  <1> QED BY <1>1, <1>2, <1>3, <1>4, <1>5, GetStep, ServeStep DEF Next

\* The inductive invariant.
THEOREM Invariance == Spec => []IInv
  BY InitIInv, NextStep, PTL DEF Spec

\* Every variable has its type, for any accounts, heap, items and failures.
THEOREM TypeCorrect == Spec => []SidTypeOK
  <1>1. IInv => SidTypeOK BY DEF IInv
  <1> QED BY Invariance, <1>1, PTL

\* Every identifier has one owner, and is freed once: but for the group that
\* could not be copied.
THEOREM PointersOwnedHolds == Spec => []PointersOwned
  <1>1. ASSUME IInv PROVE PointersOwned
    BY <1>1 DEF IInv, SidTypeOK, Owned, Stopping, PointersOwned, Dangling, Live
  <1> QED BY Invariance, <1>1, PTL

\* A copy that is reported to have worked belongs to the owner it names, or to
\* that of the temporary file it found, if the process is the owner wanted.
THEOREM OwnerInstalledHolds == Spec => []OwnerInstalled
  <1>1. IInv => OwnerInstalled BY DEF IInv, Installing, OwnerInstalled
  <1> QED BY Invariance, <1>1, PTL

----------------------------------------------------------------------------
(* What is lost.                                                           *)

\* The variables that may refer to a block at each point.
Looked == {"administrator", "uid", "gid"}
Got == {"administrator", "uid_got", "gid_got"}
Scope ==
  CASE pc \in {"idle", "uid"} -> {"administrator"}
    [] pc = "init" -> {}
    [] pc = "gid" -> {"administrator", "uid"}
    [] pc \in {"gid_failed", "ready", "mkdir_uid"} -> Looked
    [] pc = "copy_uid" -> IF item.op = "link" THEN Got ELSE Looked
    [] pc \in {"copy_open", "copy_owner"} ->
         {"process"} \union IF item.op = "link" THEN Got ELSE Looked
    [] pc = "get_owner" -> IF item.op = "link" THEN {"administrator"} ELSE Looked
    [] pc = "get_group" ->
         {"uid_got"} \union IF item.op = "link" THEN {"administrator"} ELSE Looked
    [] OTHER -> Fields

Scoped == \A f \in Fields : ptr[f] # None => f \in Scope

\* The blocks that no variable refers to any more.
Lost == {b \in Live : \A f \in Fields : ptr[f] # b}

\* The points of a link, which has yet to lose its two blocks.
InLink == item.op = "link" /\ pc \in Copying \union {"get_owner", "get_group"}

\* How many blocks have been lost at most.
Allowance ==
  2 * links + 2 * faults
    - (IF InLink THEN 2 ELSE IF pc = "gid_failed" THEN 1 ELSE 0)

Leaking ==
  /\ IsFiniteSet(Lost)
  /\ pc \notin {"exit", "aborted", "corrupt"} => Cardinality(Lost) <= Allowance

\* Counting.
LEMMA AddOne ==
  ASSUME NEW A, IsFiniteSet(A), NEW B, NEW x, B \subseteq A \union {x}
  PROVE  IsFiniteSet(B) /\ Cardinality(B) <= Cardinality(A) + 1
  <1>1. /\ IsFiniteSet(A \union {x}) /\ Cardinality(A) \in Nat
        /\ Cardinality(A \union {x}) = Cardinality(A)
             \/ Cardinality(A \union {x}) = Cardinality(A) + 1
    BY FS_AddElement, FS_CardinalityType
  <1>2. IsFiniteSet(B) /\ Cardinality(B) <= Cardinality(A \union {x})
    BY <1>1, FS_Subset
  <1>3. Cardinality(B) \in Nat
    BY <1>2, FS_CardinalityType
  <1> QED BY <1>1, <1>2, <1>3

LEMMA AddSome ==
  ASSUME NEW A, IsFiniteSet(A), NEW B, NEW x, NEW y, NEW z
  PROVE  /\ B \subseteq A =>
              IsFiniteSet(B) /\ Cardinality(B) <= Cardinality(A)
         /\ B \subseteq A \union {x, y} =>
              IsFiniteSet(B) /\ Cardinality(B) <= Cardinality(A) + 2
         /\ B \subseteq A \union {x, y, z} =>
              IsFiniteSet(B) /\ Cardinality(B) <= Cardinality(A) + 3
  <1>1. ASSUME NEW C, NEW u, C \subseteq A \union {u}
        PROVE  IsFiniteSet(C) /\ Cardinality(C) <= Cardinality(A) + 1
               /\ Cardinality(C) \in Nat
    BY <1>1, AddOne, FS_CardinalityType
  <1>2. ASSUME NEW C, NEW u, NEW v, C \subseteq A \union {u, v}
        PROVE  IsFiniteSet(C) /\ Cardinality(C) <= Cardinality(A) + 2
               /\ Cardinality(C) \in Nat
    <2>1. C \subseteq (A \union {u}) \union {v} /\ A \union {u} \subseteq A \union {u}
      BY <1>2
    <2>2. IsFiniteSet(A \union {u}) /\ Cardinality(A \union {u}) <= Cardinality(A) + 1
          /\ Cardinality(A \union {u}) \in Nat
      BY <1>1
    <2>3. IsFiniteSet(C) /\ Cardinality(C) <= Cardinality(A \union {u}) + 1
      BY <2>1, <2>2, AddOne
    <2>4. Cardinality(C) \in Nat /\ Cardinality(A) \in Nat
      BY <2>3, FS_CardinalityType
    <2> QED BY <2>2, <2>3, <2>4
  <1>3. ASSUME B \subseteq A \union {x, y, z}
        PROVE  IsFiniteSet(B) /\ Cardinality(B) <= Cardinality(A) + 3
    <2>1. B \subseteq (A \union {x, y}) \union {z}
      BY <1>3
    <2>2. IsFiniteSet(A \union {x, y}) /\ Cardinality(A \union {x, y}) <= Cardinality(A) + 2
          /\ Cardinality(A \union {x, y}) \in Nat
      BY <1>2
    <2>3. IsFiniteSet(B) /\ Cardinality(B) <= Cardinality(A \union {x, y}) + 1
      BY <2>1, <2>2, AddOne
    <2>4. Cardinality(B) \in Nat /\ Cardinality(A) \in Nat
      BY <2>3, FS_CardinalityType
    <2> QED BY <2>2, <2>3, <2>4
  <1> QED BY <1>2, <1>3, FS_Subset

\* A step loses at most the block it took, and what the variables in D held.
LEMMA LostWithin ==
  ASSUME SidTypeOK, SidTypeOK', NEW D \in SUBSET Fields, NEW x,
         \A b \in Blocks : heap'[b] # None => heap[b] # None \/ b = x,
         \A g \in Fields \ D : ptr[g] # None =>
           ptr'[g] = ptr[g] \/ heap'[ptr[g]] = None
  PROVE  Lost' \subseteq Lost \union {x} \union {ptr[g] : g \in D}
  <1> SUFFICES ASSUME NEW b \in Lost', b \notin Lost, b # x
               PROVE  b \in {ptr[g] : g \in D}
    OBVIOUS
  <1>1. b \in Blocks /\ heap'[b] # None /\ \A f \in Fields : ptr'[f] # b
    BY DEF Lost, Live
  <1>2. b \in Live
    BY <1>1 DEF Live
  <1>3. PICK g \in Fields : ptr[g] = b
    BY <1>2 DEF Lost
  <1>4. ptr[g] # None
    BY <1>1, <1>3, BlocksAssumption
  <1>5. g \in D
    BY <1>1, <1>3, <1>4
  <1> QED BY <1>3, <1>5

\* A block taken for a variable that held none is not lost.
LEMMA TakeLoses ==
  ASSUME SidTypeOK, NEW f \in Fields, NEW a, Take(f, a), ptr[f] = None
  PROVE  Lost' \subseteq Lost /\ \A g \in Fields \ {f} : ptr'[g] = ptr[g]
  BY BlocksAssumption, FreshFree DEF Take, Lost, Live, SidTypeOK

\* How a step that loses nothing, or some blocks, keeps the bound.
LEMMA LeakingStays ==
  ASSUME Leaking, SidTypeOK, SidTypeOK', pc \notin {"exit", "aborted", "corrupt"},
         NEW x, NEW y, NEW z,
         \/ Lost' \subseteq Lost /\ Allowance' >= Allowance
         \/ Lost' \subseteq Lost \union {x} /\ Allowance' >= Allowance + 1
         \/ Lost' \subseteq Lost \union {x, y} /\ Allowance' >= Allowance + 2
         \/ Lost' \subseteq Lost \union {x, y, z} /\ Allowance' >= Allowance + 3
  PROVE  Leaking'
  <1>1. Allowance \in Int /\ Allowance' \in Int
    BY SidBounds DEF Allowance, SidTypeOK
  <1>2. IsFiniteSet(Lost) /\ Cardinality(Lost) <= Allowance /\ Cardinality(Lost) \in Nat
    BY FS_CardinalityType DEF Leaking
  <1>3. IsFiniteSet(Lost') => Cardinality(Lost') \in Nat
    BY FS_CardinalityType
  <1>4. CASE Lost' \subseteq Lost /\ Allowance' >= Allowance
    <2>1. IsFiniteSet(Lost') /\ Cardinality(Lost') <= Cardinality(Lost)
      BY <1>2, <1>4, AddSome
    <2> QED BY <1>1, <1>2, <1>3, <1>4, <2>1 DEF Leaking
  <1>5. CASE Lost' \subseteq Lost \union {x} /\ Allowance' >= Allowance + 1
    <2>1. IsFiniteSet(Lost') /\ Cardinality(Lost') <= Cardinality(Lost) + 1
      BY <1>2, <1>5, AddOne
    <2> QED BY <1>1, <1>2, <1>3, <1>5, <2>1 DEF Leaking
  <1>6. CASE Lost' \subseteq Lost \union {x, y} /\ Allowance' >= Allowance + 2
    <2>1. IsFiniteSet(Lost') /\ Cardinality(Lost') <= Cardinality(Lost) + 2
      BY <1>2, <1>6, AddSome
    <2> QED BY <1>1, <1>2, <1>3, <1>6, <2>1 DEF Leaking
  <1>7. CASE Lost' \subseteq Lost \union {x, y, z} /\ Allowance' >= Allowance + 3
    <2>1. IsFiniteSet(Lost') /\ Cardinality(Lost') <= Cardinality(Lost) + 3
      BY <1>2, <1>7, AddSome
    <2> QED BY <1>1, <1>2, <1>3, <1>7, <2>1 DEF Leaking
  <1> QED BY <1>4, <1>5, <1>6, <1>7

Counted == Scoped /\ Leaking

LEMMA InitCounted == Init => Counted
  <1> SUFFICES ASSUME Init PROVE Counted
    OBVIOUS
  <1>1. Scoped
    BY DEF Init, Scoped
  <1>2. Lost = {}
    BY DEF Init, Lost, Live
  <1>3. Leaking
    <2>1. Allowance = 0
      <3>1. item.op = "copy" /\ pc = "init" /\ links = 0 /\ faults = 0
        BY DEF Init
      <3> QED BY <3>1 DEF Allowance, InLink
    <2> QED BY <1>2, <2>1, FS_EmptySet DEF Leaking
  <1> QED BY <1>1, <1>3 DEF Counted

----------------------------------------------------------------------------
(* The steps, once more.                                                   *)

\* The lists of variables.
LEMMA ScopeIs ==
  /\ pc \in {"idle", "uid"} => Scope = {"administrator"}
  /\ pc = "init" => Scope = {}
  /\ pc = "gid" => Scope = {"administrator", "uid"}
  /\ pc \in {"gid_failed", "ready", "mkdir_uid"} => Scope = Looked
  /\ pc = "copy_uid" => Scope = IF item.op = "link" THEN Got ELSE Looked
  /\ pc \in {"copy_open", "copy_owner"} =>
       Scope = {"process"} \union IF item.op = "link" THEN Got ELSE Looked
  /\ pc = "get_owner" =>
       Scope = IF item.op = "link" THEN {"administrator"} ELSE Looked
  /\ pc = "get_group" =>
       Scope = {"uid_got"} \union
                 IF item.op = "link" THEN {"administrator"} ELSE Looked
  /\ pc \in {"mkdir_owner", "compare", "release", "exit", "aborted", "corrupt"} =>
       Scope = Fields
  BY DEF Scope

\* A call that takes a block for f, whose step widens the scope by f.
LEMMA TakeCounted ==
  ASSUME IInv, IInv', Counted, NEW f \in Fields, NEW a, Take(f, a),
         f \notin Scope, Scope \union {f} \subseteq Scope', Allowance' >= Allowance,
         pc \notin {"exit", "aborted", "corrupt"}
  PROVE  Counted'
  <1>1. ptr[f] = None
    BY DEF Counted, Scoped
  <1>2. Lost' \subseteq Lost /\ \A g \in Fields \ {f} : ptr'[g] = ptr[g]
    BY <1>1, TakeLoses DEF IInv
  <1>3. Scoped'
    BY <1>2 DEF Counted, Scoped
  <1>4. Leaking'
    BY <1>2, LeakingStays DEF IInv, Counted
  <1> QED BY <1>3, <1>4 DEF Counted

\* A failing call loses a block at most, and leaves the variables alone.
LEMMA HoldingCounted ==
  ASSUME IInv, IInv', Counted, FailsHolding, UNCHANGED ptr,
         Scope \subseteq Scope', Allowance' >= Allowance + 1,
         pc \notin {"exit", "aborted", "corrupt"}
  PROVE  Counted'
  <1>1. \A b \in Blocks : heap'[b] # None => heap[b] # None \/ b = Fresh
    BY DEF FailsHolding, IInv, SidTypeOK
  <1>2. Lost' \subseteq Lost \union {Fresh} \union {ptr[g] : g \in {}}
    BY <1>1, LostWithin DEF IInv
  <1>3. Leaking'
    BY <1>2, LeakingStays DEF IInv, Counted
  <1> QED BY <1>3 DEF Counted, Scoped

\* A step that handles no block.
LEMMA QuietCounted ==
  ASSUME IInv, IInv', Counted, UNCHANGED <<heap, ptr>>,
         Scope \subseteq Scope', Allowance' >= Allowance,
         pc \notin {"exit", "aborted", "corrupt"}
  PROVE  Counted'
  <1>1. Lost' = Lost
    BY DEF Lost, Live
  <1>2. Leaking'
    BY <1>1, LeakingStays DEF IInv, Counted
  <1> QED BY <1>2 DEF Counted, Scoped

\* What is known of the numbers.
Numbers == links \in Nat /\ faults \in Nat /\ links' \in Nat /\ faults' \in Nat
LEMMA NumbersAre == IInv /\ IInv' => Numbers
  BY SidBounds DEF Numbers, IInv, SidTypeOK

LEMMA Sums ==
  ASSUME NEW l \in Nat, NEW f \in Nat, NEW g \in Nat
  PROVE  /\ g = f => 2 * l + 2 * g >= 2 * l + 2 * f
         /\ g = f + 1 => 2 * l + 2 * g >= (2 * l + 2 * f) + 1
         /\ g = f + 1 => 2 * l + 2 * g >= 2 * l + 2 * f
         /\ g = f => 2 * l + 2 * g >= (2 * l + 2 * f - 2) + 2
         /\ g = f + 1 => 2 * l + 2 * g >= (2 * l + 2 * f - 2) + 2
         /\ g = f + 1 => 2 * l + 2 * g >= (2 * l + 2 * f - 2) + 3
  OBVIOUS

LEMMA AllowanceIs ==
  ASSUME Numbers
  PROVE  /\ ~InLink /\ pc # "gid_failed" => Allowance = 2 * links + 2 * faults
         /\ InLink => Allowance = 2 * links + 2 * faults - 2
         /\ ~InLink' /\ pc' # "gid_failed" => Allowance' = 2 * links' + 2 * faults'
  BY DEF Allowance, Numbers

\* Between steps that are no part of a link, and at the end of one.
LEMMA AllowanceGrows ==
  ASSUME Numbers, links' = links, ~InLink, ~InLink', pc # "gid_failed",
         pc' # "gid_failed"
  PROVE  /\ faults' = faults => Allowance' >= Allowance
         /\ faults' = faults + 1 => Allowance' >= Allowance + 1
         /\ faults' = faults + 1 => Allowance' >= Allowance
  <1>1. Allowance = 2 * links + 2 * faults /\ Allowance' = 2 * links + 2 * faults'
    BY AllowanceIs
  <1>2. /\ faults' = faults => 2 * links + 2 * faults' >= 2 * links + 2 * faults
        /\ faults' = faults + 1 =>
             /\ 2 * links + 2 * faults' >= (2 * links + 2 * faults) + 1
             /\ 2 * links + 2 * faults' >= 2 * links + 2 * faults
    BY Sums DEF Numbers
  <1> QED BY <1>1, <1>2

LEMMA AllowanceFreed ==
  ASSUME Numbers, links' = links, InLink, ~InLink', pc' # "gid_failed"
  PROVE  /\ faults' = faults => Allowance' >= Allowance + 2
         /\ faults' = faults + 1 => Allowance' >= Allowance + 2
         /\ faults' = faults + 1 => Allowance' >= Allowance + 3
  <1>1. Allowance = 2 * links + 2 * faults - 2 /\ Allowance' = 2 * links + 2 * faults'
    BY AllowanceIs
  <1>2. /\ faults' = faults => 2 * links + 2 * faults' >= (2 * links + 2 * faults - 2) + 2
        /\ faults' = faults + 1 =>
             /\ 2 * links + 2 * faults' >= (2 * links + 2 * faults - 2) + 2
             /\ 2 * links + 2 * faults' >= (2 * links + 2 * faults - 2) + 3
    BY Sums DEF Numbers
  <1> QED BY <1>1, <1>2

LEMMA FetchCounted ==
  ASSUME IInv, IInv', Counted, FetchAdministrator PROVE Counted'
  <1>0. Numbers /\ pc = "init" /\ links' = links /\ item' = item
    BY NumbersAre DEF FetchAdministrator, Goto, Quiet
  <1>i. item.op # "link" \/ item.op = "link"
    OBVIOUS
  <1>1. CASE Works /\ Take("administrator", Administrator) /\ Goto("init", "idle")
    <2>1. pc' = "idle" /\ faults' = faults /\ Allowance' = Allowance
      BY <1>0, <1>1 DEF Works, Goto, Allowance, InLink, Copying
    <2>2. Scope = {} /\ Scope' = {"administrator"}
      BY <1>0, <2>1, ScopeIs DEF Scope
    <2>3. Allowance' >= Allowance
      BY <1>0, <2>1 DEF Allowance, Numbers
    <2> QED BY <1>0, <1>1, <2>2, <2>3, TakeCounted DEF Fields
  <1>2. CASE GetSidFails /\ Goto("init", "exit")
    <2>1. pc' = "exit" /\ faults' = faults + 1
      BY <1>2 DEF GetSidFails, FailsHolding, Fails, Goto
    <2>2. Scope = {} /\ Allowance' >= Allowance + 1
      BY <1>0, <2>1, ScopeIs DEF Allowance, Numbers, InLink, Copying
    <2> QED BY <1>0, <1>2, <2>2, HoldingCounted DEF GetSidFails
  <1> QED BY <1>1, <1>2 DEF FetchAdministrator

LEMMA ServeCounted ==
  ASSUME IInv, IInv', Counted, NEW i \in ItemSet, Serve(i) PROVE Counted'
  <1>0. /\ Numbers /\ pc = "idle" /\ item' = i /\ faults' = faults
        /\ UNCHANGED <<heap, ptr>>
        /\ pc' = IF i.op = "link" THEN "get_owner" ELSE "uid"
        /\ links' = IF i.op = "link" THEN links + 1 ELSE links
    BY NumbersAre DEF Serve, Goto
  <1>1. Scope = {"administrator"} /\ "administrator" \in Scope'
    BY <1>0, ScopeIs DEF Scope
  <1>2. Allowance' >= Allowance
    BY <1>0 DEF Allowance, Numbers, InLink, Copying
  <1> QED BY <1>0, <1>1, <1>2, QuietCounted

LEMMA LookupCounted ==
  ASSUME IInv, IInv', Counted, LookupUid \/ GidLookup PROVE Counted'
  <1>0. Numbers /\ links' = links /\ item' = item
    BY NumbersAre DEF LookupUid, GidLookup, Quiet
  <1>i. pc \in {"uid", "gid"} => item.op # "link"
    BY DEF IInv, Serving
  <1>1. CASE LookupUid /\ Works /\ Take("uid", Wanted) /\ Goto("uid", "gid")
    <2>1. pc = "uid" /\ pc' = "gid" /\ faults' = faults
      BY <1>1 DEF Works, Goto
    <2>2. Scope = {"administrator"} /\ Scope' = {"administrator", "uid"}
      BY <2>1, ScopeIs DEF Scope
    <2>3. Allowance' >= Allowance
      BY <1>0, <1>i, <2>1 DEF Allowance, Numbers, InLink, Copying
    <2> QED BY <1>1, <2>1, <2>2, <2>3, TakeCounted DEF Fields
  <1>2. CASE LookupUid /\ GetSidFails /\ pc = "uid" /\ Return("error")
    <2>1. pc = "uid" /\ pc' = "idle" /\ faults' = faults + 1
      BY <1>2 DEF GetSidFails, FailsHolding, Fails, Return
    <2>2. Scope = {"administrator"} /\ Scope' = {"administrator"}
      BY <2>1, ScopeIs DEF Scope
    <2>3. Allowance' >= Allowance + 1
      BY <1>0, <1>i, <2>1 DEF Allowance, Numbers, InLink, Copying
    <2> QED BY <1>2, <2>1, <2>2, <2>3, HoldingCounted DEF GetSidFails
  <1>3. CASE GidLookup /\ Works /\ Take("gid", item.group) /\ Goto("gid", "ready")
    <2>1. pc = "gid" /\ pc' = "ready" /\ faults' = faults
      BY <1>3 DEF Works, Goto
    <2>2. Scope = {"administrator", "uid"} /\ Scope' = Looked
      BY <2>1, ScopeIs DEF Scope
    <2>3. Allowance' >= Allowance
      BY <1>0, <1>i, <2>1 DEF Allowance, Numbers, InLink, Copying
    <2> QED BY <1>3, <2>1, <2>2, <2>3, TakeCounted DEF Fields, Looked
  <1>4. CASE GidLookup /\ GetSidFails /\ Goto("gid", "gid_failed")
    <2>1. pc = "gid" /\ pc' = "gid_failed" /\ faults' = faults + 1
      BY <1>4 DEF GetSidFails, FailsHolding, Fails, Goto
    <2>2. Scope = {"administrator", "uid"} /\ Scope' = Looked
      BY <2>1, ScopeIs DEF Scope
    <2>3. Allowance' >= Allowance + 1
      BY <1>0, <1>i, <2>1 DEF Allowance, Numbers, InLink, Copying
    <2> QED BY <1>4, <2>1, <2>2, <2>3, HoldingCounted DEF GetSidFails, Looked
  <1> QED BY <1>1, <1>2, <1>3, <1>4 DEF LookupUid, GidLookup

LEMMA GidCurrentCounted ==
  ASSUME IInv, IInv', Counted, GidCurrent PROVE Counted'
  <1>0. Numbers /\ links' = links /\ item' = item /\ pc = "gid" /\ item.op # "link"
    BY NumbersAre DEF GidCurrent, Quiet, Goto, IInv, Serving
  <1>s. Scope = {"administrator", "uid"} /\ (pc' \in {"ready", "gid_failed"} => Scope' = Looked)
    BY <1>0, ScopeIs DEF Scope
  <1>1. CASE Works /\ Take("gid", PrimaryGroup) /\ Goto("gid", "ready")
    <2>1. pc' = "ready" /\ faults' = faults
      BY <1>1 DEF Works, Goto
    <2>2. Allowance' >= Allowance
      BY <1>0, <2>1 DEF Allowance, Numbers, InLink, Copying
    <2> QED BY <1>0, <1>1, <1>s, <2>1, <2>2, TakeCounted DEF Fields, Looked
  <1>2. CASE Fails /\ UNCHANGED <<heap, ptr>>
             /\ (Goto("gid", "gid_failed") \/ Goto("gid", "ready"))
    <2>1. pc' \in {"ready", "gid_failed"} /\ faults' = faults + 1
      BY <1>2 DEF Fails, Goto
    <2>2. Allowance' >= Allowance
      BY <1>0, <2>1 DEF Allowance, Numbers, InLink, Copying
    <2> QED BY <1>0, <1>2, <1>s, <2>1, <2>2, QuietCounted DEF Looked
  <1>3. CASE Fails /\ UNCHANGED heap /\ Live # Blocks
             /\ ptr' = [ptr EXCEPT !["gid"] = Fresh] /\ Goto("gid", "gid_failed")
    <2>1. pc' = "gid_failed" /\ faults' = faults + 1
      BY <1>3 DEF Fails, Goto
    <2>2. Allowance' >= Allowance
      BY <1>0, <2>1 DEF Allowance, Numbers, InLink, Copying
    <2>3. ptr["gid"] = None
      BY <1>s DEF Counted, Scoped, Fields
    <2>4. \A g \in Fields : g # "gid" => ptr'[g] = ptr[g]
      BY <1>3 DEF IInv, SidTypeOK
    <2>5. Lost' \subseteq Lost
      <3>1. heap' = heap
        BY <1>3
      <3> QED BY <2>3, <2>4, <3>1, BlocksAssumption DEF Lost, Live
    <2>6. Scoped'
      BY <1>s, <2>1, <2>4 DEF Counted, Scoped, Looked
    <2>7. Leaking'
      BY <1>0, <2>2, <2>5, LeakingStays DEF IInv, Counted
    <2> QED BY <2>6, <2>7 DEF Counted
  <1> QED BY <1>1, <1>2, <1>3 DEF GidCurrent

\* The user looked up is lost with the group that was not found.
LEMMA GidFailedCounted ==
  ASSUME IInv, IInv', Counted, GidFailed PROVE Counted'
  <1>0. /\ Numbers /\ links' = links /\ item' = item /\ pc = "gid_failed"
        /\ pc' \in {"corrupt", "idle"} /\ faults' = faults
        /\ heap' = FreedHeap({"gid"}) /\ Forget
    BY NumbersAre DEF GidFailed, Quiet
  <1>1. Scope = Looked /\ "administrator" \in Scope'
    BY <1>0, ScopeIs DEF Scope, Fields
  <1>2. \A g \in Fields : ptr'[g] = IF g = "administrator" THEN ptr[g] ELSE None
    BY <1>0 DEF Forget
  <1>3. Scoped'
    BY <1>1, <1>2 DEF Counted, Scoped
  <1>4. Lost' \subseteq Lost \union {ptr["uid"]} \union {ptr[g] : g \in {"uid"}}
    <2>1. \A b \in Blocks : heap'[b] # None => heap[b] # None
      BY <1>0 DEF FreedHeap
    <2>2. \A g \in Fields \ {"uid"} : ptr[g] # None =>
            ptr'[g] = ptr[g] \/ heap'[ptr[g]] = None
      <3>1. ptr["gid"] # None => heap'[ptr["gid"]] = None
        BY <1>0 DEF FreedHeap, IInv, SidTypeOK, Fields
      <3> QED BY <1>1, <1>2, <3>1 DEF Counted, Scoped, Looked
    <2> QED BY <2>1, <2>2, LostWithin DEF IInv, Fields
  <1>5. Leaking'
    <2>1. Allowance' >= Allowance + 1
      BY <1>0 DEF Allowance, Numbers, InLink, Copying
    <2>2. Lost' \subseteq Lost \union {ptr["uid"]}
      BY <1>4
    <2> QED BY <1>0, <2>1, <2>2, LeakingStays DEF IInv, Counted
  <1> QED BY <1>3, <1>5 DEF Counted

\* An assertion fails where a step would follow, and the program ends.
LEMMA AssertionCounted ==
  ASSUME IInv, Counted, AssertionFails PROVE Counted'
  <1>1. UNCHANGED <<heap, ptr>> /\ pc' = "aborted"
    BY DEF AssertionFails
  <1>2. Scope' = Fields /\ Lost' = Lost
    BY <1>1 DEF Scope, Lost, Live
  <1> QED BY <1>1, <1>2 DEF Counted, Scoped, Leaking

LEMMA DispatchCounted ==
  ASSUME IInv, IInv', Counted, Dispatch \/ CheckFailsEarly
  PROVE  Counted'
  <1>0. /\ Numbers /\ links' = links /\ item' = item /\ pc = "ready"
        /\ item.op \in {"copy", "mkdir", "check"} /\ UNCHANGED <<heap, ptr>>
        /\ faults' = faults \/ faults' = faults + 1
    BY NumbersAre
       DEF Dispatch, CheckFailsEarly, Quiet, Goto, Fails, IInv,
           Serving, SidTypeOK, ItemSet, Ops
  <1>1. pc' \in {"release", "copy_uid", "mkdir_uid", "get_owner"}
    <2>1. CASE Dispatch
      <3>1. FirstCall[item.op] \in {"copy_uid", "mkdir_uid", "get_owner"}
        BY <1>0 DEF FirstCall
      <3> QED BY <2>1, <3>1 DEF Dispatch, Goto
    <2> QED BY <2>1 DEF CheckFailsEarly, Goto
  <1>2. Scope = Looked /\ Scope \subseteq Scope'
    BY <1>0, <1>1, ScopeIs DEF Scope, Looked, Fields
  <1>3. Allowance' >= Allowance
    <2>1. ~InLink /\ ~InLink' /\ pc # "gid_failed" /\ pc' # "gid_failed"
      BY <1>0, <1>1 DEF InLink
    <2> QED BY <1>0, <2>1, AllowanceGrows
  <1> QED BY <1>0, <1>2, <1>3, QuietCounted

\* When install_file_copy returns, a link has lost what it got.
LEMMA CopyCounted ==
  ASSUME IInv, IInv', Counted, CopyUid \/ CopyOpen \/ CopyOwner PROVE Counted'
  <1>0. Numbers /\ links' = links /\ item' = item /\ item.op \in {"copy", "link"}
        /\ pc \in Copying
    BY NumbersAre DEF CopyUid, CopyOpen, CopyOwner, Quiet, IInv, Serving, Copying
  <1>s. /\ Scope \subseteq {"process"} \union IF item.op = "link" THEN Got ELSE Looked
        /\ pc = "copy_uid" => "process" \notin Scope
    BY <1>0, ScopeIs DEF Copying, Got, Looked
  <1>1. CASE CopyUid /\ Works /\ Take("process", user) /\ pc' = "copy_open"
    <2>1. pc = "copy_uid" /\ faults' = faults
      BY <1>1 DEF Works, CopyUid
    <2>2. Scope' = Scope \union {"process"}
      BY <1>0, <1>1, <2>1, ScopeIs DEF Scope
    <2>3. Allowance' >= Allowance
      BY <1>0, <1>1, <2>1 DEF Allowance, Numbers, InLink, Copying
    <2> QED BY <1>1, <1>s, <2>1, <2>2, <2>3, TakeCounted DEF Fields
  <1>2. CASE CopyOpen /\ Works /\ pc' = "copy_owner" /\ UNCHANGED <<heap, ptr>>
    <2>1. pc = "copy_open" /\ faults' = faults
      BY <1>2 DEF Works, CopyOpen
    <2>2. Scope' = Scope
      BY <1>0, <1>2, <2>1 DEF Scope
    <2>3. Allowance' >= Allowance
      BY <1>0, <1>2, <2>1 DEF Allowance, Numbers, InLink, Copying
    <2> QED BY <1>2, <2>1, <2>2, <2>3, QuietCounted
  <1>3. ASSUME NEW s, CopyReturns(s),
               \/ CopyUid /\ FailsHolding
               \/ CopyOpen /\ Fails /\ UNCHANGED heap
               \/ CopyOwner /\ heap' = FreedHeap({"process"})
                  /\ (faults' = faults \/ Fails)
        PROVE  Counted'
    <2>1. CASE item.op = "copy"
      <3>1. pc' = "release" /\ ptr' = [ptr EXCEPT !["process"] = None]
        BY <1>3, <2>1 DEF CopyReturns
      <3>2. Scope' = Fields /\ Scoped'
        <4>1. Scope' = Fields
          BY <3>1 DEF Scope
        <4> QED BY <4>1 DEF Scoped
      <3>3. \A g \in Fields \ {"process"} : ptr'[g] = ptr[g]
        BY <3>1
      <3>4. CASE CopyUid /\ FailsHolding
        <4>1. pc = "copy_uid" /\ faults' = faults + 1 /\ ptr["process"] = None
          BY <1>s, <3>4 DEF CopyUid, FailsHolding, Fails, Counted, Scoped, Fields
        <4>2. \A b \in Blocks : heap'[b] # None => heap[b] # None \/ b = Fresh
          BY <3>4 DEF FailsHolding, IInv, SidTypeOK
        <4>3. Lost' \subseteq Lost \union {Fresh} \union {ptr[g] : g \in {}}
          BY <3>3, <4>1, <4>2, LostWithin DEF IInv
        <4>4. Allowance' >= Allowance + 1
          BY <1>0, <2>1, <3>1, <4>1 DEF Allowance, Numbers, InLink
        <4> QED BY <3>2, <4>1, <4>3, <4>4, LeakingStays DEF IInv, Counted
      <3>5. CASE CopyOpen /\ Fails /\ UNCHANGED heap
        <4>1. pc = "copy_open" /\ faults' = faults + 1
          BY <3>5 DEF CopyOpen, Fails
        <4>2. Lost' \subseteq Lost \union {ptr["process"]}
                        \union {ptr[g] : g \in {"process"}}
          BY <3>3, <3>5, LostWithin DEF IInv, Fields
        <4>3. Allowance' >= Allowance + 1
          BY <1>0, <2>1, <3>1, <4>1 DEF Allowance, Numbers, InLink
        <4> QED BY <3>2, <4>1, <4>2, <4>3, LeakingStays DEF IInv, Counted
      <3>6. CASE CopyOwner /\ heap' = FreedHeap({"process"})
                 /\ (faults' = faults \/ Fails)
        <4>1. pc = "copy_owner" /\ (faults' = faults \/ faults' = faults + 1)
          BY <3>6 DEF CopyOwner, Fails
        <4>2. ptr["process"] # None => heap'[ptr["process"]] = None
          BY <3>6 DEF FreedHeap, IInv, SidTypeOK, Fields
        <4>3. ptr["process"] # None
          BY <4>1 DEF IInv, Holding, Has
        <4>4. \A b \in Blocks : heap'[b] # None => heap[b] # None
          BY <3>6 DEF FreedHeap
        <4>5. \A g \in Fields : ptr[g] # None =>
                ptr'[g] = ptr[g] \/ heap'[ptr[g]] = None
          BY <3>3, <4>2
        <4>6. \A x : Lost' \subseteq Lost \union {x} \union {ptr[g] : g \in {}}
          BY <4>4, <4>5, LostWithin DEF IInv
        <4>7. Lost' \subseteq Lost
          <5>1. Lost' \subseteq Lost \union {None}
            BY <4>6
          <5> QED BY <5>1, BlocksAssumption DEF Lost, Live
        <4>8. Allowance' >= Allowance
          <5>1. ~InLink /\ ~InLink' /\ pc # "gid_failed" /\ pc' # "gid_failed"
            BY <1>0, <2>1, <3>1, <4>1 DEF InLink
          <5> QED BY <1>0, <4>1, <5>1, AllowanceGrows
        <4> QED BY <3>2, <4>1, <4>7, <4>8, LeakingStays DEF IInv, Counted
      <3> QED BY <1>3, <3>4, <3>5, <3>6
    <2>2. CASE item.op = "link"
      <3>1. pc' = "idle" /\ Forget
        BY <1>3, <2>2 DEF CopyReturns
      <3>2. \A g \in Fields : ptr'[g] = IF g = "administrator" THEN ptr[g] ELSE None
        BY <3>1 DEF Forget
      <3>3. Scoped'
        BY <3>1, <3>2, <1>s DEF Scope, Counted, Scoped
      <3>s. Scope \subseteq {"administrator", "process", "uid_got", "gid_got"}
        BY <1>s, <2>2 DEF Got
      <3>a. InLink /\ ~InLink' /\ pc' # "gid_failed"
        <4>1. InLink
          BY <1>0, <2>2 DEF InLink
        <4>2. ~InLink'
          BY <3>1 DEF InLink, Copying
        <4> QED BY <3>1, <4>1, <4>2
      <3>4. CASE CopyUid /\ FailsHolding
        <4>1. pc = "copy_uid" /\ faults' = faults + 1 /\ ptr["process"] = None
          BY <1>s, <3>4 DEF CopyUid, FailsHolding, Fails, Counted, Scoped, Fields
        <4>2. \A b \in Blocks : heap'[b] # None => heap[b] # None \/ b = Fresh
          BY <3>4 DEF FailsHolding, IInv, SidTypeOK
        <4>3. \A g \in Fields \ {"uid_got", "gid_got"} : ptr[g] # None => ptr'[g] = ptr[g]
          BY <3>2, <3>s, <4>1 DEF Counted, Scoped
        <4>4. Lost' \subseteq Lost \union {Fresh}
                        \union {ptr[g] : g \in {"uid_got", "gid_got"}}
          BY <4>2, <4>3, LostWithin DEF IInv, Fields
        <4>5. Lost' \subseteq Lost \union {Fresh, ptr["uid_got"], ptr["gid_got"]}
          BY <4>4
        <4>6. Allowance' >= Allowance + 3
          BY <1>0, <3>a, <4>1, AllowanceFreed
        <4> QED BY <3>3, <4>1, <4>5, <4>6, LeakingStays DEF IInv, Counted
      <3>5. CASE CopyOpen /\ Fails /\ UNCHANGED heap
        <4>1. pc = "copy_open" /\ faults' = faults + 1
          BY <3>5 DEF CopyOpen, Fails
        <4> DEFINE D == {"uid_got", "gid_got", "process"}
        <4>3. \A g \in Fields \ D : ptr[g] # None => ptr'[g] = ptr[g]
          BY <3>2, <3>s DEF Counted, Scoped
        <4>4. Lost' \subseteq Lost \union {ptr["process"]} \union {ptr[g] : g \in D}
          BY <3>5, <4>3, LostWithin DEF IInv, Fields
        <4>5. Lost' \subseteq Lost \union {ptr["process"], ptr["uid_got"], ptr["gid_got"]}
          BY <4>4
        <4>6. Allowance' >= Allowance + 3
          BY <1>0, <3>a, <4>1, AllowanceFreed
        <4> QED BY <3>3, <4>1, <4>5, <4>6, LeakingStays DEF IInv, Counted
      <3>6. CASE CopyOwner /\ heap' = FreedHeap({"process"})
                 /\ (faults' = faults \/ Fails)
        <4>1. pc = "copy_owner" /\ (faults' = faults \/ faults' = faults + 1)
          BY <3>6 DEF CopyOwner, Fails
        <4>2. ptr["process"] # None => heap'[ptr["process"]] = None
          BY <3>6 DEF FreedHeap, IInv, SidTypeOK, Fields
        <4>3. \A b \in Blocks : heap'[b] # None => heap[b] # None
          BY <3>6 DEF FreedHeap
        <4> DEFINE D == {"uid_got", "gid_got"}
        <4>4. \A g \in Fields \ D : ptr[g] # None =>
                ptr'[g] = ptr[g] \/ heap'[ptr[g]] = None
          BY <3>2, <3>s, <4>2 DEF Counted, Scoped
        <4>5. Lost' \subseteq Lost \union {ptr["uid_got"]} \union {ptr[g] : g \in D}
          BY <4>3, <4>4, LostWithin DEF IInv, Fields
        <4>6. Lost' \subseteq Lost \union {ptr["uid_got"], ptr["gid_got"]}
          BY <4>5
        <4>7. Allowance' >= Allowance + 2
          BY <1>0, <3>a, <4>1, AllowanceFreed
        <4> QED BY <3>3, <4>1, <4>6, <4>7, LeakingStays DEF IInv, Counted
      <3> QED BY <1>3, <3>4, <3>5, <3>6
    <2> QED BY <1>0, <2>1, <2>2
  <1>4. CASE CopyUid
    BY <1>1, <1>3, <1>4 DEF CopyUid
  <1>5. CASE CopyOpen
    BY <1>2, <1>3, <1>5 DEF CopyOpen
  <1>6. CASE CopyOwner
    <2>1. heap' = FreedHeap({"process"}) /\ (faults' = faults \/ Fails)
      BY <1>6 DEF CopyOwner, Works
    <2>2. CopyReturns("ok") \/ CopyReturns("error")
      BY <1>6 DEF CopyOwner
    <2> QED BY <1>3, <1>6, <2>1, <2>2
  <1> QED BY <1>4, <1>5, <1>6

LEMMA MkdirCounted ==
  ASSUME IInv, IInv', Counted, MkdirUid \/ MkdirOwner PROVE Counted'
  <1>0. Numbers /\ links' = links /\ item' = item /\ item.op = "mkdir"
    BY NumbersAre DEF MkdirUid, MkdirOwner, Quiet, Goto, IInv, Serving
  <1>1. CASE MkdirUid /\ Works /\ Take("process", user)
             /\ Goto("mkdir_uid", "mkdir_owner")
    <2>1. pc = "mkdir_uid" /\ pc' = "mkdir_owner" /\ faults' = faults
      BY <1>1 DEF Works, Goto
    <2>2. Scope = Looked /\ Scope' = Fields
      BY <2>1, ScopeIs DEF Scope
    <2>3. Allowance' >= Allowance
      BY <1>0, <2>1 DEF Allowance, Numbers, InLink
    <2> QED BY <1>1, <2>1, <2>2, <2>3, TakeCounted DEF Fields, Looked
  <1>2. CASE MkdirUid /\ GetSidFails /\ Goto("mkdir_uid", "release")
    <2>1. pc = "mkdir_uid" /\ pc' = "release" /\ faults' = faults + 1
      BY <1>2 DEF GetSidFails, FailsHolding, Fails, Goto
    <2>2. Scope = Looked /\ Scope' = Fields
      BY <2>1, ScopeIs DEF Scope
    <2>3. Allowance' >= Allowance + 1
      BY <1>0, <2>1 DEF Allowance, Numbers, InLink
    <2> QED BY <1>2, <2>1, <2>2, <2>3, HoldingCounted DEF GetSidFails, Fields, Looked
  <1>3. CASE MkdirOwner
    <2>1. pc = "mkdir_owner" /\ pc' = "release" /\ UNCHANGED <<heap, ptr>>
          /\ (faults' = faults \/ faults' = faults + 1)
      BY <1>3 DEF MkdirOwner, Goto, Works, Fails
    <2>2. Scope = Fields /\ Scope' = Fields
      BY <2>1, ScopeIs DEF Scope
    <2>3. Allowance' >= Allowance
      <3>1. ~InLink /\ ~InLink' /\ pc # "gid_failed" /\ pc' # "gid_failed"
        BY <1>0, <2>1 DEF InLink
      <3> QED BY <1>0, <2>1, <3>1, AllowanceGrows
    <2> QED BY <2>1, <2>2, <2>3, QuietCounted
  <1> QED BY <1>1, <1>2, <1>3 DEF MkdirUid

\* A link loses the block it could not fill and the owner it got; a check
\* keeps both.
LEMMA GetFailsCounted ==
  ASSUME IInv, IInv', Counted, UNCHANGED <<links, item>>,
         NEW f \in {"uid_got", "gid_got"}, GetFails(f),
         \/ pc = "get_owner" /\ f = "uid_got"
         \/ pc = "get_group" /\ f = "gid_got"
  PROVE  Counted'
  <1>0. Numbers /\ item.op \in {"check", "link"} /\ faults' = faults + 1
    BY NumbersAre DEF GetFails, Fails, IInv, Serving
  <1>1. f \in Fields /\ f \notin Scope /\ ptr[f] = None
    BY ScopeIs DEF Fields, Looked, Counted, Scoped
  <1>2. CASE item.op = "check"
    <2>1. pc' = "release" /\ Scope' = Fields
      BY <1>2, ScopeIs DEF GetFails, Scope
    <2>2. Allowance' >= Allowance
      BY <1>0, <1>2, <2>1 DEF Allowance, Numbers, InLink
    <2>3. CASE UNCHANGED <<heap, ptr>>
      BY <2>1, <2>2, <2>3, ScopeIs, QuietCounted DEF Fields, Looked
    <2>4. CASE Take(f, Garbage)
      BY <1>1, <2>1, <2>2, <2>4, ScopeIs, TakeCounted DEF Fields, Looked
    <2> QED BY <1>2, <2>3, <2>4 DEF GetFails, Take
  <1>3. CASE item.op = "link"
    <2>1. pc' = "idle" /\ Forget
      BY <1>3 DEF GetFails
    <2>2. \A g \in Fields : ptr'[g] = IF g = "administrator" THEN ptr[g] ELSE None
      BY <2>1 DEF Forget
    <2>3. Scope \subseteq {"administrator", "uid_got"} /\ "administrator" \in Scope'
      BY <1>3, <2>1, ScopeIs DEF Scope
    <2>4. Scoped'
      BY <2>2, <2>3 DEF Scoped
    <2>5. Allowance' >= Allowance + 2
      <3>1. InLink
        BY <1>3 DEF InLink
      <3>2. ~InLink'
        BY <2>1 DEF InLink, Copying
      <3> QED BY <1>0, <2>1, <3>1, <3>2, AllowanceFreed
    <2>6. \A b \in Blocks : heap'[b] # None => heap[b] # None \/ b = Fresh
      BY DEF GetFails, IInv, SidTypeOK
    <2>7. \A g \in Fields \ {"uid_got"} : ptr[g] # None => ptr'[g] = ptr[g]
      BY <2>2, <2>3 DEF Counted, Scoped
    <2>8. Lost' \subseteq Lost \union {Fresh} \union {ptr[g] : g \in {"uid_got"}}
      BY <2>6, <2>7, LostWithin DEF IInv, Fields
    <2>9. Lost' \subseteq Lost \union {Fresh, ptr["uid_got"]}
      BY <2>8
    <2> QED BY <2>4, <2>5, <2>9, LeakingStays DEF IInv, Counted
  <1> QED BY <1>0, <1>2, <1>3

LEMMA GetCounted ==
  ASSUME IInv, IInv', Counted, NEW a \in Accounts, GetOwner(a) \/ GetGroup(a)
  PROVE  Counted'
  <1>0. Numbers /\ UNCHANGED <<links, item>> /\ item.op \in {"check", "link"}
    BY NumbersAre DEF GetOwner, GetGroup, Quiet, IInv, Serving
  <1>1. CASE GetOwner(a) /\ Works /\ Take("uid_got", a) /\ pc' = "get_group"
    <2>1. pc = "get_owner" /\ faults' = faults
      BY <1>1 DEF GetOwner, Works
    <2>2. "uid_got" \notin Scope /\ Scope \union {"uid_got"} \subseteq Scope'
      <3>1. Scope' = {"uid_got"} \union
                       IF item.op = "link" THEN {"administrator"} ELSE Looked
        BY <1>0, <1>1 DEF Scope
      <3> QED BY <2>1, <3>1, ScopeIs DEF Looked
    <2>3. Allowance' >= Allowance
      BY <1>0, <1>1, <2>1 DEF Allowance, Numbers, InLink, Copying
    <2> QED BY <1>1, <2>1, <2>2, <2>3, TakeCounted DEF Fields
  <1>2. CASE GetGroup(a) /\ Works /\ Take("gid_got", a)
             /\ pc' = IF item.op = "link" THEN "copy_uid" ELSE "compare"
    <2>1. pc = "get_group" /\ faults' = faults
      BY <1>2 DEF GetGroup, Works
    <2>2. "gid_got" \notin Scope /\ Scope \union {"gid_got"} \subseteq Scope'
      <3>1. Scope' = IF item.op = "link" THEN Got ELSE Fields
        BY <1>0, <1>2 DEF Scope
      <3> QED BY <2>1, <3>1, ScopeIs DEF Looked, Got, Fields
    <2>3. Allowance' >= Allowance
      BY <1>0, <1>2, <2>1 DEF Allowance, Numbers, InLink, Copying
    <2> QED BY <1>2, <2>1, <2>2, <2>3, TakeCounted DEF Fields
  <1>3. CASE GetOwner(a) /\ GetFails("uid_got")
    BY <1>0, <1>3, GetFailsCounted DEF GetOwner
  <1>4. CASE GetGroup(a) /\ GetFails("gid_got")
    BY <1>0, <1>4, GetFailsCounted DEF GetGroup
  <1> QED BY <1>1, <1>2, <1>3, <1>4 DEF GetOwner, GetGroup

LEMMA CompareCounted ==
  ASSUME IInv, IInv', Counted, Compare PROVE Counted'
  <1>0. Numbers /\ UNCHANGED <<links, item, faults, heap, ptr>> /\ pc = "compare"
        /\ pc' = "release" /\ item.op = "check"
    BY NumbersAre DEF Compare, Quiet, Goto, IInv, Serving
  <1>1. Scope = Fields /\ Scope' = Fields /\ Allowance' >= Allowance
    BY <1>0, ScopeIs DEF Scope, Allowance, Numbers, InLink, Copying
  <1> QED BY <1>0, <1>1, QuietCounted

LEMMA ReleaseCounted ==
  ASSUME IInv, IInv', Counted, Release PROVE Counted'
  <1>0. /\ Numbers /\ UNCHANGED <<links, item, faults>> /\ pc = "release"
        /\ pc' \in {"corrupt", "idle"}
        /\ heap' = FreedHeap(Fields \ {"administrator"}) /\ Forget
    BY NumbersAre DEF Release, Quiet, Goto
  <1>1. \A g \in Fields : ptr'[g] = IF g = "administrator" THEN ptr[g] ELSE None
    BY <1>0 DEF Forget
  <1>2. Scoped'
    <2>1. "administrator" \in Scope'
      BY <1>0 DEF Scope, Fields
    <2> QED BY <1>1, <2>1 DEF Scoped
  <1>3. \A b \in Blocks : heap'[b] # None => heap[b] # None
    BY <1>0 DEF FreedHeap
  <1>4. \A g \in Fields : ptr[g] # None => ptr'[g] = ptr[g] \/ heap'[ptr[g]] = None
    BY <1>0, <1>1 DEF FreedHeap, IInv, SidTypeOK
  <1>5. Lost' \subseteq Lost \union {None} \union {ptr[g] : g \in {}}
    BY <1>3, <1>4, LostWithin DEF IInv
  <1>6. Lost' \subseteq Lost
    BY <1>5, BlocksAssumption DEF Lost, Live
  <1>7. Allowance' >= Allowance
    BY <1>0 DEF Allowance, Numbers, InLink, Copying
  <1> QED BY <1>0, <1>2, <1>6, <1>7, LeakingStays DEF IInv, Counted

LEMMA CountedStep == IInv /\ IInv' /\ Counted /\ [Next]_vars => Counted'
  <1> SUFFICES ASSUME IInv, IInv', Counted, [Next]_vars PROVE Counted'
    OBVIOUS
  <1>1. CASE UNCHANGED vars
    BY <1>1 DEF vars, Counted, Scoped, Leaking, Scope, Lost, Live, Allowance,
                InLink
  <1>2. CASE LookupUid \/ GidCurrent \/ GidLookup \/ GidFailed
    BY <1>2, LookupCounted, GidCurrentCounted, GidFailedCounted
  <1>3. CASE AssertionFails \/ Dispatch \/ CheckFailsEarly
    BY <1>3, AssertionCounted, DispatchCounted
  <1>4. CASE CopyUid \/ CopyOpen \/ CopyOwner \/ MkdirUid \/ MkdirOwner
    BY <1>4, CopyCounted, MkdirCounted
  <1>5. CASE Compare \/ Release \/ FetchAdministrator
    BY <1>5, CompareCounted, ReleaseCounted, FetchCounted
  <1> QED BY <1>1, <1>2, <1>3, <1>4, <1>5, GetCounted, ServeCounted DEF Next

\* Between items only the Administrator is held; what is lost is due to a link,
\* or to a call that failed, of which each loses two blocks at most.
THEOREM LeaksBoundedHolds == Spec => []LeaksBounded
  <1>1. IInv /\ Counted => LeaksBounded
    <2> SUFFICES ASSUME IInv, Counted, pc = "idle"
                 PROVE  Cardinality(Live) <= 1 + 2 * links + 2 * faults
      BY DEF LeaksBounded
    <2>0. links \in Nat /\ faults \in Nat
      BY SidBounds DEF IInv, SidTypeOK
    <2>1. Live \subseteq Lost \union {ptr["administrator"]}
      BY ScopeIs, BlocksAssumption DEF Lost, Live, Counted, Scoped
    <2>2. Allowance = 2 * links + 2 * faults
      BY <2>0 DEF Allowance, InLink, Copying
    <2>3. IsFiniteSet(Lost) /\ Cardinality(Lost) <= Allowance
      BY DEF Counted, Leaking
    <2>4. IsFiniteSet(Live) /\ Cardinality(Live) <= Cardinality(Lost) + 1
      BY <2>1, <2>3, AddOne
    <2>5. Cardinality(Live) \in Nat /\ Cardinality(Lost) \in Nat
      BY <2>3, <2>4, FS_CardinalityType
    <2> QED BY <2>0, <2>2, <2>3, <2>4, <2>5
  <1> QED BY Invariance, InitCounted, CountedStep, <1>1, PTL DEF Spec

----------------------------------------------------------------------------
(* The assertions.                                                         *)

\* What the functions have been given, where they assert it.
Given ==
  /\ pc \notin {"init", "exit"} => ptr["administrator"] # None
  /\ pc = "mkdir_owner" => ptr["process"] # None
  /\ (pc = "compare" \/ (pc \in {"get_owner", "get_group"} /\ item.op = "check")) =>
       ptr["uid"] # None /\ ptr["gid"] # None
  /\ pc \in {"get_group", "compare"} => ptr["uid_got"] # None
  /\ pc = "compare" => ptr["gid_got"] # None
  /\ (pc = "ready" /\ ptr["gid"] = None) => token = "unread" /\ item.group = None

Assured == Given /\ AssertsHold

LEMMA InitAssured == Init => Assured
  BY DEF Init, Assured, Given, AssertsHold

\* The one assertion that can fail.
LEMMA AssertionAssured ==
  ASSUME IInv, Counted, Assured, AssertionFails PROVE Assured'
  <1>0. /\ pc' = "aborted" /\ ~Asserted /\ UNCHANGED <<ptr, token, item>>
    BY DEF AssertionFails, Quiet
  <1>1. \A f \in MustLack : ptr[f] = None
    <2>1. \A f \in MustLack : f \in Fields /\ f \notin Scope
      BY ScopeIs DEF MustLack, Fields, Looked, Got
    <2> QED BY <2>1 DEF Counted, Scoped
  <1>2. PICK f \in MustHold : ptr[f] = None
    BY <1>0, <1>1 DEF Asserted
  <1>3. pc = "ready" /\ f = "gid"
    BY <1>2 DEF MustHold, Target, IInv, Holding, Serving, Has, Copying, Assured, Given
  <1>4. ptr["uid"] # None
    BY <1>3 DEF IInv, Holding, Has
  <1> QED BY <1>0, <1>2, <1>3, <1>4 DEF Assured, Given, AssertsHold

\* A block taken for f; and blocks that are lost, or nothing.
LEMMA TakeGives ==
  ASSUME IInv, NEW f \in Fields, NEW a, Take(f, a)
  PROVE  ptr'[f] # None /\ \A g \in Fields \ {f} : ptr'[g] = ptr[g]
  BY FreshFree, BlocksAssumption DEF Take, IInv, SidTypeOK

\* The last variable looked up or got.
LEMMA TakeAssured ==
  ASSUME IInv, IInv', Assured,
         \/ FetchAdministrator \/ LookupUid \/ GidCurrent \/ GidLookup \/ MkdirUid
         \/ \E a \in Accounts : GetOwner(a) \/ GetGroup(a)
  PROVE  Assured'
  <1> USE DEF Quiet, Goto
  <1>1. CASE FetchAdministrator
    BY <1>1, TakeGives
       DEF FetchAdministrator, GetSidFails, Assured, Given, AssertsHold, Fields
  <1>2. CASE LookupUid
    BY <1>2, TakeGives
       DEF LookupUid, GetSidFails, Return, Assured, Given, AssertsHold, Fields
  <1>3. CASE GidCurrent
    <2>1. pc' \in {"ready", "gid_failed"} /\ item' = item /\ pc = "gid"
          /\ item.group = None
      BY <1>3 DEF GidCurrent
    <2>2. ptr'["administrator"] = ptr["administrator"]
      BY <1>3, TakeGives DEF GidCurrent, Fields, IInv, SidTypeOK
    <2>3. pc' = "ready" => ptr'["gid"] # None \/ token' = "unread"
      BY <1>3, TakeGives DEF GidCurrent, Fields
    <2> QED BY <2>1, <2>2, <2>3 DEF Assured, Given, AssertsHold
  <1>4. CASE GidLookup
    BY <1>4, TakeGives
       DEF GidLookup, GetSidFails, Assured, Given, AssertsHold, Fields
  <1>5. CASE MkdirUid
    BY <1>5, TakeGives
       DEF MkdirUid, GetSidFails, Assured, Given, AssertsHold, Fields
  <1>6. ASSUME NEW a \in Accounts, GetOwner(a) PROVE Assured'
    <2>1. pc = "get_owner" /\ item' = item /\ ptr["administrator"] # None
      BY <1>6 DEF GetOwner, Assured, Given
    <2>2. CASE Take("uid_got", a) /\ pc' = "get_group"
      BY <2>1, <2>2, TakeGives DEF Assured, Given, AssertsHold, Fields
    <2>3. CASE GetFails("uid_got")
      <3>1. pc' \in {"idle", "release"} /\ ptr'["administrator"] = ptr["administrator"]
        BY <2>3 DEF GetFails, Forget, Fields, IInv, SidTypeOK
      <3> QED BY <2>1, <3>1 DEF Assured, Given, AssertsHold
    <2> QED BY <1>6, <2>2, <2>3 DEF GetOwner
  <1>7. ASSUME NEW a \in Accounts, GetGroup(a) PROVE Assured'
    <2>1. pc = "get_group" /\ item' = item /\ ptr["administrator"] # None
          /\ item.op \in {"check", "link"}
      BY <1>7 DEF GetGroup, Assured, Given, IInv, Serving
    <2>2. CASE Take("gid_got", a)
               /\ pc' = IF item.op = "link" THEN "copy_uid" ELSE "compare"
      BY <2>1, <2>2, TakeGives DEF Assured, Given, AssertsHold, Fields
    <2>3. CASE GetFails("gid_got")
      <3>1. pc' \in {"idle", "release"} /\ ptr'["administrator"] = ptr["administrator"]
        BY <2>3 DEF GetFails, Forget, Fields, IInv, SidTypeOK
      <3> QED BY <2>1, <3>1 DEF Assured, Given, AssertsHold
    <2> QED BY <1>7, <2>2, <2>3 DEF GetGroup
  <1> QED BY <1>1, <1>2, <1>3, <1>4, <1>5, <1>6, <1>7

LEMMA DispatchAssured ==
  ASSUME IInv, Assured, Dispatch \/ CheckFailsEarly PROVE Assured'
  <1>1. UNCHANGED <<ptr, item>> /\ pc = "ready" /\ Asserted
    BY DEF Dispatch, CheckFailsEarly, Quiet, Goto
  <1>2. pc' \in {"release", "copy_uid", "mkdir_uid", "get_owner"}
    <2>1. item.op \in {"copy", "mkdir", "check"}
      BY <1>1 DEF IInv, Serving, SidTypeOK, ItemSet, Ops
    <2>2. FirstCall[item.op] \in {"copy_uid", "mkdir_uid", "get_owner"}
      BY <2>1 DEF FirstCall
    <2> QED BY <2>2 DEF Dispatch, CheckFailsEarly, Goto
  <1>3. ptr["uid"] # None /\ ptr["gid"] # None
    BY <1>1 DEF Asserted, MustHold
  <1> QED BY <1>1, <1>2, <1>3 DEF Assured, Given, AssertsHold

\* The Administrator is never freed, nor forgotten.
LEMMA OthersAssured ==
  ASSUME IInv, Assured,
         \/ CopyUid \/ CopyOpen \/ CopyOwner \/ MkdirOwner \/ Compare
         \/ Release \/ GidFailed
         \/ \E i \in ItemSet : Serve(i)
  PROVE  Assured'
  <1>1. pc \notin {"init", "exit"}
        /\ pc' \in {"copy_open", "copy_owner", "release", "idle", "corrupt",
                     "uid", "get_owner"}
        /\ (pc' = "get_owner" => item'.op = "link")
    BY DEF CopyUid, CopyOpen, CopyOwner, CopyReturns, MkdirOwner, Compare,
           Release, GidFailed, Serve, Goto
  <1>2. ptr'["administrator"] = ptr["administrator"]
    <2>1. CASE CopyUid
      BY <2>1, TakeGives DEF CopyUid, CopyReturns, Forget, Fields, IInv, SidTypeOK
    <2>2. CASE CopyOpen \/ CopyOwner
      BY <2>2 DEF CopyOpen, CopyOwner, CopyReturns, Forget, Fields, IInv, SidTypeOK
    <2>3. CASE MkdirOwner \/ Compare \/ \E i \in ItemSet : Serve(i)
      BY <2>3 DEF MkdirOwner, Compare, Serve
    <2>4. CASE Release \/ GidFailed
      BY <2>4 DEF Release, GidFailed, Forget, Fields
    <2> QED BY <2>1, <2>2, <2>3, <2>4
  <1> QED BY <1>1, <1>2 DEF Assured, Given, AssertsHold

LEMMA AssuredStep == IInv /\ IInv' /\ Counted /\ Assured /\ [Next]_vars => Assured'
  <1> SUFFICES ASSUME IInv, IInv', Counted, Assured, [Next]_vars PROVE Assured'
    OBVIOUS
  <1>1. CASE UNCHANGED vars
    BY <1>1 DEF vars, Assured, Given, AssertsHold
  <1>2. CASE Next
    BY <1>2, AssertionAssured, TakeAssured, DispatchAssured, OthersAssured DEF Next
  <1> QED BY <1>1, <1>2

\* Whatever was forgotten or lost, every assertion on an identifier holds: but
\* that of an item without a group after iwin32_gid_current returned 1 without
\* one.
THEOREM AssertsHoldHolds == Spec => []AssertsHold
  <1>1. Assured => AssertsHold BY DEF Assured
  <1> QED
    BY Invariance, InitCounted, CountedStep, InitAssured, AssuredStep, <1>1, PTL
       DEF Spec
=============================================================================
