----------------------------- MODULE MCLogSync -----------------------------
(* A chain g - a1 - a2 - a3 and a branch b2 - b3 off a1.  a3 has no logs,   *)
(* b2 none of its first transaction.                                        *)
EXTENDS LogSync, TLC
MCBlock == {"g", "a1", "a2", "a3", "b2", "b3"}
MCParent == [a1 |-> "g", a2 |-> "a1", a3 |-> "a2", b2 |-> "a1", b3 |-> "b2"]
MCNumber == [g |-> 0, a1 |-> 1, a2 |-> 2, a3 |-> 3, b2 |-> 2, b3 |-> 3]
MCLogsOf == [g |-> {}, a1 |-> {<<"event", 0>>}, a2 |-> {<<"event", 0>>, <<"transfer", 1>>},
             a3 |-> {}, b2 |-> {<<"transfer", 1>>}, b3 |-> {<<"event", 0>>, <<"event", 1>>}]
MCRank == [g |-> 0, a1 |-> 0, a2 |-> 1, a3 |-> 0, b2 |-> 0, b3 |-> 1]
MCFaults == {{}, {"logs"}, {"skip", "interrupt", "crash", "logs", "block"}}
MCStops == {{"interrupt", "crash"}}
=============================================================================
