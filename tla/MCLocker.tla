------------------------------ MODULE MCLocker ------------------------------
(***************************************************************************)
(* Small instances of Locker for TLC: the processes are model values.      *)
(***************************************************************************)
EXTENDS Locker

MCCommands == {<<3>>, <<2, 0>>}
============================================================================
