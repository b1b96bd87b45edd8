------------------------------- MODULE Mutex -------------------------------
(***************************************************************************)
(* What sd-locker promises to the scripts that use it: of the commands run *)
(* under one lock at most one runs at a time.                              *)
(***************************************************************************)
CONSTANTS Procs,  \* the processes that want to run a command
          Locks,  \* the locks they may run it under
          None    \* no lock

VARIABLES stage,  \* process |-> "waiting", "running" or "done"
          lock    \* process |-> the lock its command runs under

mvars == <<stage, lock>>

MInit ==
  /\ stage = [p \in Procs |-> "waiting"]
  /\ lock = [p \in Procs |-> None]

\* p starts its command under l when no other command runs under l.
Enter(p, l) ==
  /\ stage[p] = "waiting"
  /\ \A q \in Procs : stage[q] = "running" => lock[q] # l
  /\ stage' = [stage EXCEPT ![p] = "running"]
  /\ lock' = [lock EXCEPT ![p] = l]

\* p's command ends, or p no longer looks after it.
Leave(p) ==
  /\ stage[p] = "running"
  /\ stage' = [stage EXCEPT ![p] = "done"]
  /\ lock' = [lock EXCEPT ![p] = None]

\* p gives up without having run its command.
GiveUp(p) ==
  /\ stage[p] = "waiting"
  /\ stage' = [stage EXCEPT ![p] = "done"]
  /\ UNCHANGED lock

MNext == \E p \in Procs : Leave(p) \/ GiveUp(p) \/ \E l \in Locks : Enter(p, l)

MSpec == MInit /\ [][MNext]_mvars
============================================================================
