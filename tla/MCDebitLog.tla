----------------------------- MODULE MCDebitLog -----------------------------
(***************************************************************************)
(* TLC instances of DebitLog; inferences are interchangeable.              *)
(***************************************************************************)
EXTENDS DebitLog, TLC

Symmetry == Permutations(Inferences)
=============================================================================
