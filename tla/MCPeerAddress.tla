--------------------------- MODULE MCPeerAddress ---------------------------
(***************************************************************************)
(* Two peers: the first lists two models, the second one of them.  The     *)
(* configuration declares the model of the second peer only.               *)
(***************************************************************************)
EXTENDS PeerAddress, TLC

CONSTANTS r1, r2

MCRequests == {r1, r2}
MCServes == (1 :> {1, 2}) @@ (2 :> {2})
MCResident == (1 :> {}) @@ (2 :> {2})
MCDeclared == (1 :> {}) @@ (2 :> {2})
MCDeclaredCapable == (1 :> {}) @@ (2 :> {})

RequestSymmetry == Permutations(MCRequests)
=============================================================================
