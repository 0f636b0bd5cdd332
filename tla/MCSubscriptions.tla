--------------------------- MODULE MCSubscriptions ---------------------------
(* The tree of MCLogSync, with one client.                                   *)
EXTENDS Subscriptions, LogQuery, MCLogSync
MCServed == {{}}
MCTime == [g |-> 2, a1 |-> 4, a2 |-> 6, a3 |-> 8, b2 |-> 8, b3 |-> 10]
==============================================================================
