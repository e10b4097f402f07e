--------------------------- MODULE MCPeerRouting ---------------------------
(***************************************************************************)
(* TLC instances of PeerRouting.  Requests are interchangeable.  The       *)
(* conversation of key k1 hashes to the last peer.                         *)
(***************************************************************************)
EXTENDS PeerRouting, TLC

CONSTANT k1

MCScore == [k \in {k1} |-> [p \in Peers |-> p]]
Symmetry == Permutations(Requests)
=============================================================================
