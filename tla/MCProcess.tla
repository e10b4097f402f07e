----------------------------- MODULE MCProcess -----------------------------
(***************************************************************************)
(* TLC instances of Process: request and stopper goroutines are            *)
(* interchangeable, so safety runs use their permutations as symmetry.     *)
(***************************************************************************)
EXTENDS Process, TLC

Symmetry == Permutations(Requests) \cup Permutations(Stoppers)
=============================================================================
