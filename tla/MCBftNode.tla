----------------------------- MODULE MCBftNode -----------------------------
(* Small instances of BftNode: two signers, 0 is the node's own. *)
EXTENDS BftNode, TLC
MCSigner == {0, 1}
MCScore == (0 :> 1) @@ (1 :> 2)
=============================================================================
