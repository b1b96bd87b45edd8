------------------------------ MODULE MCSdRun ------------------------------
(***************************************************************************)
(* Small instances of SdRun for TLC: the runs are model values.            *)
(***************************************************************************)
EXTENDS SdRun
============================================================================
