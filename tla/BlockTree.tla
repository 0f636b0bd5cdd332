----------------------------- MODULE BlockTree -----------------------------
(***************************************************************************)
(* What chain.Repository promises the rest of the node: a growing tree of  *)
(* blocks with a best block in it.  A block is added once, after its       *)
(* parent; the best block only ever becomes the block just added.          *)
(***************************************************************************)
CONSTANTS Block, Genesis, Parent

VARIABLES blocks, best

treeVars == <<blocks, best>>

Init == blocks = {Genesis} /\ best = Genesis

AddBlock(b) ==
    /\ b \in Block \ {Genesis}
    /\ b \notin blocks /\ Parent[b] \in blocks
    /\ blocks' = blocks \cup {b}
    /\ best' \in {best, b}

Next == \E b \in blocks' : AddBlock(b)

Spec == Init /\ [][Next]_treeVars
=============================================================================
