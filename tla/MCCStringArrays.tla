-------------------------- MODULE MCCStringArrays --------------------------
(***************************************************************************)
(* Small instances of CStringArrays for TLC.  The Ada strings are a plain  *)
(* one and one with an embedded nul; C owns one string at the start.       *)
(***************************************************************************)
EXTENDS CStringArrays

CONSTANTS a, b

MCStrings == {<<a>>, <<b, Nul, a>>}
MCGiven == << <<a>> >>
============================================================================
