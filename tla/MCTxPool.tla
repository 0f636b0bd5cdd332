------------------------------ MODULE MCTxPool ------------------------------
(* x and y are paid for by b, z by a; b is the delegator of x and of y.     *)
EXTENDS TxPool, TLC
MCTxID == [x |-> "i", y |-> "j", z |-> "k"]
MCOrigin == [x |-> "a", y |-> "b", z |-> "a"]
MCDelegator == [x |-> {"b"}, y |-> {"b"}, z |-> {}]
MCPayer == [x |-> "b", y |-> "b", z |-> "a"]
MCCost == [x |-> 2, y |-> 3, z |-> 1]
MCPrice == [x |-> 2, y |-> 1, z |-> 3]
MCEnergy == [a |-> 4, b |-> 9]
Pick(f) == [tx \in Tx |-> f[tx]]
TheID == Pick(MCTxID)
TheOrigin == Pick(MCOrigin)
TheDelegator == Pick(MCDelegator)
ThePayer == Pick(MCPayer)
TheCost == Pick(MCCost)
ThePrice == Pick(MCPrice)

\* The least: nothing happens but adds and washes.
Calm == [Txs |-> {"x", "y"}, Adders |-> {"g1"}, Verdicts |-> Status, Limit |-> 1,
         LimitPerAccount |-> 9, MaxGen |-> 1, MaxHeads |-> 0, MaxFill |-> 0,
         MaxFailures |-> 0, Packs |-> FALSE, FallsBehind |-> FALSE, Blocks |-> FALSE]
Crowded == [Calm EXCEPT !.LimitPerAccount = 2, !.MaxGen = 2, !.MaxFill = 2, !.Packs = TRUE]
Roomy == [Calm EXCEPT !.Limit = 5, !.MaxGen = 2, !.MaxHeads = 1, !.Blocks = TRUE]
Busy == [Calm EXCEPT !.Txs = Tx, !.Adders = Adder, !.Verdicts = {"ready", "waiting"}]
Failing == [Calm EXCEPT !.Txs = Tx, !.Verdicts = {"ready", "waiting"}, !.MaxFailures = 1]
PoolScenarios == {Crowded, Roomy, Busy, Failing}
PublishScenarios == {[Calm EXCEPT !.Limit = 5, !.MaxHeads = 1, !.FallsBehind = TRUE]}
OverlimitScenarios == {[Calm EXCEPT !.Txs = Tx, !.MaxHeads = 1, !.MaxFill = 2]}
=============================================================================
