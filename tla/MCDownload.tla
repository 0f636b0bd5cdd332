----------------------------- MODULE MCDownload -----------------------------
(* The tree of MCBlockStore. *)
EXTENDS Download, MCBlockStore
\* No download: any block, from both goroutines.
Store == [syncing |-> FALSE, peers |-> {"g"}, others |-> MCBlock, MaxMoves |-> 0, MaxStream |-> 0,
          crashes |-> TRUE]
\* The node's best chain moves, up to three blocks away from the peer's.
Search == [Store EXCEPT !.syncing = TRUE, !.peers = {"c2"}, !.others = {"a1", "a2", "a3", "b1"},
                        !.MaxStream = 2]
\* The peer's best chain grows or shrinks, and the node has a branch off it.
Growing == [Search EXCEPT !.peers = {"a1", "a3"}, !.others = {"a1", "c2"}, !.MaxMoves = 1,
                          !.MaxStream = 1, !.crashes = FALSE]
\* The peer's best chain forks.
Forking == [Growing EXCEPT !.peers = {"a3", "b1"}, !.others = {"a1"}]
MCScenarios == {Store, Search, Growing, Forking}
=============================================================================
