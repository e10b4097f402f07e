---------------------------- MODULE MCLogStream ----------------------------
(***************************************************************************)
(* TLC instance of LogStream: two writers and one client, of either        *)
(* handler.                                                                *)
(***************************************************************************)
EXTENDS LogStream
=============================================================================
