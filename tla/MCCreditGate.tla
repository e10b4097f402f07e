---------------------------- MODULE MCCreditGate ----------------------------
(***************************************************************************)
(* TLC instances of CreditGate.  A credit buys one prompt token or two     *)
(* completion tokens of the first model; the last rate is one that         *)
(* priceBookFromConfig drops.                                              *)
(***************************************************************************)
EXTENDS CreditGate, TLC

MCRates == {[input |-> 1000, output |-> 500, maxOutput |-> 2],
            [input |-> 1000, output |-> 0, maxOutput |-> 1],
            [input |-> 1, output |-> 1, maxOutput |-> 0]}
MCGrants == <<3, 2>>
ASSUME PricesFitHere == PricesFit

Symmetry == Permutations(Requests)
=============================================================================
