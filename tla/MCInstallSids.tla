--------------------------- MODULE MCInstallSids ---------------------------
(* Two items, all kinds, three accounts, and two calls that fail.           *)
EXTENDS InstallSids

MCBlocks == 1 .. 14
============================================================================
