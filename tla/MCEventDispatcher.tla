-------------------------- MODULE MCEventDispatcher --------------------------
(***************************************************************************)
(* TLC instances of EventDispatcher.                                       *)
(***************************************************************************)
EXTENDS EventDispatcher
=============================================================================
