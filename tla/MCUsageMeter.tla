---------------------------- MODULE MCUsageMeter ----------------------------
(***************************************************************************)
(* Small instances of UsageMeter for TLC.                                  *)
(***************************************************************************)
EXTENDS UsageMeter
=============================================================================
