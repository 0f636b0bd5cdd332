------------------------------ MODULE Tracers ------------------------------
(***************************************************************************)
(* Tracing one clause: the interpreter runs contract code and tells a      *)
(* JavaScript tracer of every instruction (CaptureState), while the API    *)
(* request that waits for the trace may be cancelled.                      *)
(*                                                                         *)
(* The tracers see a flat sequence of instructions, each with its depth.   *)
(* The instruction counters tell from the depth whether two instructions   *)
(* belong together, and evmdis rebuilds the tree of calls from it.         *)
(*                                                                         *)
(* Of an instruction only its kind is kept.  CALL stands for CALLCODE too, *)
(* DELEGATECALL for STATICCALL, CREATE for CREATE2, STOP for every         *)
(* instruction that halts, PUSH1 and POP for those that push or take.      *)
(***************************************************************************)
EXTENDS Integers, Sequences, SequencesExt, FiniteSets, FiniteSetsExt, BagsExt

CONSTANTS
    Scenarios,  \* requests and the code they trace, see Scenario
    MaxDepth    \* bound: depth of calls, CallCreateDepth in the code

Calls == {"CALL", "DELEGATECALL"}
Plain == {"PUSH1", "POP"}
Ops   == Plain \cup Calls \cup {"CREATE", "STOP", "REVERT"}

Scenario ==
    [tracer : {"counters", "evmdis"},
     ops : SUBSET Ops,      \* bound: the instructions of the code
     refused : SUBSET Ops,  \* bound: those that may be refused
     MaxSteps : Nat,        \* bound: instructions of the clause
     cancels : BOOLEAN]     \* whether the request may be cancelled

ASSUME ScenarioAssumption == Scenarios \subseteq Scenario /\ MaxDepth \in Nat \ {0}

VARIABLES
    opt,        \* the scenario, one of Scenarios
    tree,       \* of every frame so far: the instruction that made it, and whether that was a create
    running,    \* the frames being executed, outermost first: [id, pos, sure]
    trace,      \* the instructions the tracer was told of and took in
    executed,   \* the number of instructions the interpreter told of
    abort,      \* EVM.abort
    interrupt,  \* the flag set by goja's Interrupt
    err,        \* why jsTracer.err is set: "cancelled", "peek", "slice", or "" when it is not
    opcount, unigram, bigram, trigram, evmdis, \* the tracers' objects
    answer      \* what the request got: "none", "result" or "error"

evmVars == <<tree, running, executed>>
jsVars  == <<opcount, unigram, bigram, trigram, evmdis>>
vars    == <<opt, evmVars, trace, abort, interrupt, err, jsVars, answer>>

\* What an instruction takes from the operand stack and leaves on it.
Pops   == [PUSH1 |-> 0, POP |-> 1, CALL |-> 7, DELEGATECALL |-> 6, CREATE |-> 3, STOP |-> 0, REVERT |-> 2]
Pushes == [PUSH1 |-> 1, POP |-> 0, CALL |-> 1, DELEGATECALL |-> 1, CREATE |-> 1, STOP |-> 0, REVERT |-> 0]

\* After an instruction, sure operands are on the stack at least; the pushes
\* that prepare a call are left out.
Executed(f, op) ==
    [f EXCEPT !.pos = @ + 1, !.sure = Max({@ - Pops[op], 0}) + Pushes[op]]

-----------------------------------------------------------------------------
(* The counters *)

OpcountNew == 0
OpcountStep(t, log) == t + 1
OpcountResult(t) == t

UnigramNew == [hist |-> EmptyBag, nops |-> 0]
UnigramResult(t) == t.hist
UnigramStep(t, log) == [hist |-> BagAdd(t.hist, log.op), nops |-> t.nops + 1]

BigramNew == [hist |-> EmptyBag, lastOp |-> "", lastDepth |-> 0]
BigramResult(t) == t.hist
BigramStep(t, log) ==
    [hist |-> IF log.depth = t.lastDepth THEN BagAdd(t.hist, <<t.lastOp, log.op>>) ELSE t.hist,
     lastOp |-> log.op, lastDepth |-> log.depth]

NoOps == <<"", "">>
TrigramNew == [hist |-> EmptyBag, lastOps |-> NoOps, lastDepth |-> 0]
TrigramResult(t) == t.hist
\* Mutant: the operations of the other depth are kept.
TrigramKeepsOps(t, log) ==
    IF log.depth # t.lastDepth THEN [t EXCEPT !.lastDepth = log.depth]
    ELSE [t EXCEPT !.hist = BagAdd(@, Append(t.lastOps, log.op)), !.lastOps = <<@[2], log.op>>]
\* The first operation of another depth is neither counted nor remembered.
TrigramStep(t, log) ==
    IF log.depth # t.lastDepth THEN [t EXCEPT !.lastOps = NoOps, !.lastDepth = log.depth]
    ELSE [t EXCEPT !.hist = BagAdd(@, Append(t.lastOps, log.op)), !.lastOps = <<@[2], log.op>>]

-----------------------------------------------------------------------------
(* evmdis *)

\* npushes of the op field: DELEGATECALL and STATICCALL are stored by name,
\* which npushes does not have, nor does it have REVERT.
NPushes(op) == IF op \in {"PUSH1", "CALL", "CREATE"} THEN 1 ELSE 0

\* The object of an instruction.  frame and pos are not in the code: they say
\* which frame executed it, and after how many others.
Opinfo(log) == [op |-> log.op, frame |-> log.frame, pos |-> log.pos,
                result |-> <<>>, ops |-> <<>>, error |-> 0, return |-> 0]

EvmdisNew == [objs |-> <<Opinfo([op |-> "", frame |-> 0, pos |-> 0])>>, stack |-> <<1>>]
EvmdisResult(t) == t.objs[t.stack[1]].ops

\* Mutant: the instruction recorded last, of whatever frame.
PreviousOfAny(t, log) ==
    IF log.error \/ log.depth # Len(t.stack) \/ Len(t.objs) = 1 THEN {} ELSE {Len(t.objs)}
\* The instruction of the frame recorded before this one, when its results
\* are read now.
Previous(t, log) ==
    IF log.error \/ log.depth # Len(t.stack) THEN {}
    ELSE LET ops == t.objs[Last(t.stack)].ops IN IF ops = <<>> THEN {} ELSE {Last(ops)}

\* Mutant: the frame of a call that has returned stays.
SliceAbove(stack, depth) == SubSeq(stack, 1, Min({depth + 1, Len(stack)}))
\* this.stack.slice(0, log.getDepth()).
Slice(stack, depth) == SubSeq(stack, 1, Min({depth, Len(stack)}))

\* The object of a call is the frame of the callee too, under one reference.
\* At another depth than that of the top frame, frames are dropped and the
\* instruction is not recorded.
EvmdisStep(t, log) ==
    LET frame == Last(t.stack)  new == Len(t.objs) + 1
        objs  == [i \in DOMAIN t.objs |->
                    IF i \in Previous(t, log)
                    THEN [t.objs[i] EXCEPT !.result = [j \in 1 .. NPushes(t.objs[i].op) |-> log.pos]]
                    ELSE t.objs[i]]
    IN  IF log.error THEN [t EXCEPT !.objs[frame].error = log.frame]
        ELSE IF log.depth # Len(t.stack) THEN [t EXCEPT !.stack = Slice(@, log.depth)]
        ELSE [objs |-> Append([objs EXCEPT
                           ![frame].ops = Append(@, new),
                           ![frame].return = IF log.op \in {"STOP", "REVERT"} THEN log.pos ELSE @],
                         Opinfo(log)),
              stack |-> IF log.op \in Calls THEN Append(t.stack, new) ELSE t.stack]

\* How the step may fail: fewer operands than npushes says (peek), or an
\* input or output far beyond the memory (slice).
EvmdisFailures(t, log) ==
    {why \in {"peek", "slice"} :
        \/ why = "peek" /\ \E i \in Previous(t, log) : NPushes(t.objs[i].op) > log.sure
        \/ /\ why = "slice" /\ log.op \in Calls \cup {"STOP", "REVERT"}
           /\ ~log.error /\ log.depth = Len(t.stack)}

\* How a step of the tracer may fail.
Failures(log) ==
    (IF interrupt THEN {"cancelled"} ELSE {})
        \cup (IF opt.tracer = "evmdis" THEN EvmdisFailures(evmdis, log) ELSE {})

-----------------------------------------------------------------------------

\* newJsTracer; CaptureStart; the frame of the clause begins.
Init ==
    /\ opt \in Scenarios
    /\ tree = <<[frame |-> 0, pos |-> 0, create |-> FALSE]>>
    /\ running = <<[id |-> 1, pos |-> 0, sure |-> 0]>>
    /\ trace = <<>> /\ executed = 0
    /\ abort = FALSE /\ interrupt = FALSE /\ err = ""
    /\ opcount = OpcountNew /\ unigram = UnigramNew /\ bigram = BigramNew
    /\ trigram = TrigramNew /\ evmdis = EvmdisNew
    /\ answer = "none"

Frame == Last(running)

Log(op, error) == [op |-> op, depth |-> Len(running), error |-> error,
                   frame |-> Frame.id, pos |-> Frame.pos, sure |-> Frame.sure]

\* jsTracer.CaptureState.  After an error the tracer is not called again.
CaptureState(log) ==
    /\ executed' = executed + 1
    /\ \/ /\ err # ""
          /\ UNCHANGED <<trace, abort, err, jsVars>>
       \/ /\ err = "" /\ err' \in Failures(log)
          /\ abort' = TRUE      \* onError
          /\ UNCHANGED <<trace, jsVars>>
       \/ /\ err = "" /\ ~interrupt
          /\ trace' = Append(trace, log)
          /\ IF opt.tracer = "evmdis"
             THEN /\ evmdis' = EvmdisStep(evmdis, log)
                  /\ UNCHANGED <<opcount, unigram, bigram, trigram>>
             ELSE /\ opcount' = OpcountStep(opcount, log)
                  /\ unigram' = UnigramStep(unigram, log)
                  /\ bigram' = BigramStep(bigram, log)
                  /\ trigram' = TrigramStep(trigram, log)
                  /\ UNCHANGED evmdis
          /\ UNCHANGED <<abort, err>>

Rest == <<opt, interrupt, answer>>

\* The frame ends, the instruction of the caller that made it is done.
Leave ==
    LET rest == Front(running)
    IN  running' = IF rest = <<>> THEN <<>>
                   ELSE Append(Front(rest), [Last(rest) EXCEPT !.pos = @ + 1, !.sure = 1])

\* One turn of the loop of Run, up to the instruction's execution.
Turn(op) ==
    /\ running # <<>> /\ ~abort /\ executed < opt.MaxSteps
    /\ CaptureState(Log(op, FALSE))
    /\ UNCHANGED Rest

\* An instruction that stays in its frame; so does a call or create whose
\* target runs no code: none there, precompiled or built-in, or refused.
Execute(op) ==
    /\ op \in Plain \cup Calls \cup {"CREATE"}
    /\ Turn(op)
    /\ running' = Append(Front(running), Executed(Frame, op))
    /\ UNCHANGED tree

\* A call or create that runs code.
Enter(op) ==
    /\ op \in Calls \cup {"CREATE"} /\ Len(running) < MaxDepth
    /\ Turn(op)
    /\ running' = Append(running, [id |-> Len(tree) + 1, pos |-> 0, sure |-> 0])
    /\ tree' = Append(tree, [frame |-> Frame.id, pos |-> Frame.pos, create |-> op = "CREATE"])

\* The frame halts or reverts, or the execution of the instruction fails; for
\* the last two CaptureFault is called, which no tracer does anything with.
Halt(op) ==
    /\ op \in Plain \cup {"STOP", "REVERT"}
    /\ Turn(op)
    /\ Leave
    /\ UNCHANGED tree

\* An instruction that is not executed: invalid, no operands, read-only
\* context or out of gas.  The deferred CaptureState tells of it.
Refuse(op) ==
    /\ running # <<>> /\ ~abort /\ executed < opt.MaxSteps
    /\ CaptureState(Log(op, TRUE))
    /\ Leave
    /\ UNCHANGED <<tree, Rest>>

\* The loop ends on abort, in every frame.
LeaveAborted ==
    /\ running # <<>> /\ abort
    /\ Leave
    /\ UNCHANGED <<opt, tree, executed, trace, abort, interrupt, err, jsVars, answer>>

\* Mutant: the tracer is left alone.
StopLater ==
    /\ opt.cancels /\ answer = "none"
    /\ answer' = "error"
    /\ UNCHANGED <<opt, evmVars, trace, abort, interrupt, err, jsVars>>
\* traceClause or traceCall when the request is cancelled: Stop, ...
Stop ==
    /\ opt.cancels /\ answer = "none"
    /\ answer' = "error" /\ interrupt' = TRUE
    /\ UNCHANGED <<opt, evmVars, trace, abort, err, jsVars>>

\* ... then the interrupt of PrepareClause.
Interrupt ==
    /\ answer = "error" /\ interrupt /\ ~abort
    /\ abort' = TRUE
    /\ UNCHANGED <<opt, evmVars, trace, interrupt, err, jsVars, answer>>

\* Mutant: the accumulated error is forgotten.
GetResultAnyway ==
    /\ running = <<>> /\ answer = "none"
    /\ answer' = "result"
    /\ UNCHANGED <<opt, evmVars, trace, abort, interrupt, err, jsVars>>
\* The execution is over: GetResult, or the accumulated error.
GetResult ==
    /\ running = <<>> /\ answer = "none"
    /\ answer' = IF err # "" THEN "error" ELSE "result"
    /\ UNCHANGED <<opt, evmVars, trace, abort, interrupt, err, jsVars>>

Next ==
    \/ \E op \in opt.ops : Execute(op) \/ Enter(op) \/ Halt(op)
    \/ \E op \in opt.refused : Refuse(op)
    \/ LeaveAborted
    \/ Stop
    \/ Interrupt
    \/ GetResult

Spec == Init /\ [][Next]_vars

-----------------------------------------------------------------------------
(* Properties *)

\* A request that gets a result gets that of the whole execution: no
\* instruction was lost to an interrupt or an error of the tracer (GetResult).
ResultIsComplete ==
    answer = "result" =>
        /\ Len(trace) = executed
        /\ opt.tracer = "counters" => OpcountResult(opcount) = executed

\* How often a histogram counts a key.
Count(hist, key) == IF key \in DOMAIN hist THEN hist[key] ELSE 0

\* Once the request is cancelled the tracer's objects do not change, although
\* the interpreter runs on until it is cancelled too (Stop, CaptureState).
StoppedIsFrozen == [][answer # "none" => UNCHANGED jsVars]_vars

\* How many instructions the same frame executed right before the i-th.
Recent == LET r[i \in DOMAIN trace] ==
                 IF i > 1 /\ trace[i - 1].frame = trace[i].frame THEN r[i - 1] + 1 ELSE 0
          IN  r

\* Whether a histogram counts for each key the instructions that have it.
Counts(hist, is, key(_)) ==
    \A k \in DOMAIN hist \cup {key(i) : i \in is} :
        Count(hist, k) = Cardinality({i \in is : key(i) = k})

\* Each instruction is counted once, refused ones included.  Pairs and triples
\* are counted for exactly the instructions one frame executed one after the
\* other: equal depths never join two frames.  In triples the first instruction
\* of such a stretch is left out (unigram, bigram and trigram step).
NgramsOfOneFrame ==
    opt.tracer = "counters" =>
        LET single(i) == trace[i].op
            pair(i)   == <<trace[i - 1].op, trace[i].op>>
            triple(i) == <<IF Recent[i] > 2 THEN trace[i - 2].op ELSE "",
                           IF Recent[i] > 1 THEN trace[i - 1].op ELSE "", trace[i].op>>
            same      == {i \in DOMAIN trace : Recent[i] > 0}
        IN  /\ unigram.nops = Len(trace)
            /\ Counts(UnigramResult(unigram), DOMAIN trace, single)
            /\ Counts(BigramResult(bigram), same, pair)
            /\ Counts(TrigramResult(trigram), same, triple)

\* The frame that the call of an object made, if it ran code.
Callee(o) == {f \in DOMAIN tree : /\ tree[f].frame = o.frame /\ tree[f].pos = o.pos
                                  /\ ~tree[f].create}

\* The instructions that a frame executed right after a call that is not lost
\* itself.
Lost == LET l[i \in DOMAIN trace] ==
               \E j \in 1 .. i - 1 : /\ trace[j].frame = trace[i].frame /\ trace[j].pos = trace[i].pos - 1
                                     /\ trace[j].op \in Calls /\ ~l[j]
        IN  {i \in DOMAIN trace : l[i]}

\* The tree evmdis builds is that of the calls: under a call are exactly the
\* instructions its frame executed, in order, but for the one right after each
\* recorded call, which is lost, with all it calls (evmdis step).
EvmdisFollowsCalls ==
    \A k \in DOMAIN evmdis.objs :
        LET o    == evmdis.objs[k]
            ops  == IF k = 1 THEN EvmdisResult(evmdis) ELSE o.ops
            want == SetToSortSeq({i \in DOMAIN trace \ Lost : trace[i].frame \in Callee(o) /\ ~trace[i].error}, <)
        IN  opt.tracer = "evmdis" =>
                /\ Len(ops) = Len(want)
                /\ \A i \in DOMAIN want :
                      LET c == evmdis.objs[ops[i]]  s == trace[want[i]]
                      IN  c.frame = s.frame /\ c.pos = s.pos

\* The results of an instruction are the operands right after it, and those
\* of a call the operands one instruction later (evmdis step).
EvmdisResults ==
    \A k \in DOMAIN evmdis.objs : \A i \in DOMAIN evmdis.objs[k].result :
        LET o == evmdis.objs[k] IN o.result[i] = o.pos + (IF o.op \in Calls THEN 2 ELSE 1)
=============================================================================
