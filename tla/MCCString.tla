----------------------------- MODULE MCCString -----------------------------
(***************************************************************************)
(* Small instances of CString for TLC: the constants come from the cfg.    *)
(***************************************************************************)
EXTENDS CString
============================================================================
