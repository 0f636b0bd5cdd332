---------------------------- MODULE MCBlockStore ----------------------------
(* A tree with two forks: g - a1 - a2 - a3, g - b1 - b2, a1 - c2. *)
EXTENDS BlockStore, TLC
MCBlock == {"g", "a1", "a2", "a3", "b1", "b2", "c2"}
MCParent == [a1 |-> "g", a2 |-> "a1", a3 |-> "a2", b1 |-> "g", b2 |-> "b1", c2 |-> "a1"]
MCNumber == [g |-> 0, a1 |-> 1, a2 |-> 2, a3 |-> 3, b1 |-> 1, b2 |-> 2, c2 |-> 2]
MCTxsOf == [g |-> {}, a1 |-> {"x"}, a2 |-> {"y"}, a3 |-> {}, b1 |-> {}, b2 |-> {"x", "y"}, c2 |-> {}]
MCGoroutine == {"sync", "packer"}
=============================================================================
