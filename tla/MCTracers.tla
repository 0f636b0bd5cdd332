----------------------------- MODULE MCTracers -----------------------------
(* Long enough for two calls in a row, a call inside a call and a failure   *)
(* after each.                                                              *)
EXTENDS Tracers, TLC
Calling(t, n) == [tracer |-> t, ops |-> {"PUSH1", "POP", "CALL", "STOP"}, refused |-> {"POP"},
                  MaxSteps |-> n, cancels |-> FALSE]
Creating == [Calling("evmdis", 6) EXCEPT !.ops = {"POP", "CALL", "DELEGATECALL", "CREATE", "REVERT"}]
Cancelled(t) == [Calling(t, 4) EXCEPT !.ops = {"POP", "CALL", "STOP"}, !.cancels = TRUE]
MCScenarios == {Calling("counters", 6), Calling("evmdis", 6), Creating,
                Cancelled("counters"), Cancelled("evmdis")}
=============================================================================
