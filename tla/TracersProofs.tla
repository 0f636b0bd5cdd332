---------------------------- MODULE TracersProofs ----------------------------
(***************************************************************************)
(* What a cancelled or failed trace may do, for any code, any depth of     *)
(* calls and any number of instructions.                                   *)
(***************************************************************************)
EXTENDS Tracers, TLAPS

\* A request that has its answer: the tracer is interrupted or the execution
\* is over.  A result means that no error was accumulated until then.
Answered ==
    /\ answer # "none" => interrupt \/ running = <<>>
    /\ answer = "result" => running = <<>> /\ err = ""

IsSequence(s) == \E S : s \in Seq(S)
TraceIsSequence == IsSequence(trace)

\* As long as the tracer has no error it took in every instruction.
Complete ==
    /\ executed \in Nat
    /\ err = "" => /\ Len(trace) = executed
                   /\ opt.tracer = "counters" => opcount = executed

\* One more instruction.
LEMMA Longer ==
    ASSUME NEW s, IsSequence(s), NEW e
    PROVE  IsSequence(Append(s, e)) /\ Len(Append(s, e)) = Len(s) + 1
<1>1. PICK S : s \in Seq(S)
  BY DEF IsSequence
<1>2. s \in Seq(S \cup {e})
  BY <1>1
<1>3. Append(s, e) \in Seq(S \cup {e}) /\ Len(Append(s, e)) = Len(s) + 1
  BY <1>2
<1>. QED  BY <1>3 DEF IsSequence

\* A step of the interpreter tells the tracer of an instruction; every other
\* step leaves the tracer's objects alone.
LEMMA Told ==
    ASSUME Next
    PROVE  \/ running # <<>> /\ UNCHANGED Rest /\ \E log : CaptureState(log)
           \/ running # <<>> /\ UNCHANGED <<Rest, trace, executed, err, jsVars>>
           \/ Stop \/ Interrupt \/ GetResult
<1>1. ASSUME NEW op, Execute(op) \/ Enter(op) \/ Halt(op)
      PROVE  running # <<>> /\ UNCHANGED Rest /\ \E log : CaptureState(log)
  BY <1>1 DEF Execute, Enter, Halt, Turn
<1>2. ASSUME NEW op, Refuse(op)
      PROVE  running # <<>> /\ UNCHANGED Rest /\ \E log : CaptureState(log)
  BY <1>2 DEF Refuse
<1>3. CASE LeaveAborted
  BY <1>3 DEF LeaveAborted, Rest
<1>. QED  BY <1>1, <1>2, <1>3 DEF Next

\* A request is answered by its cancellation, which interrupts the tracer
\* first, or by the end of the execution.
LEMMA AnsweredSteps ==
    ASSUME Answered, [Next]_vars
    PROVE  Answered'
<1>1. CASE running # <<>> /\ UNCHANGED Rest
  BY <1>1 DEF Answered, Rest
<1>2. CASE Stop
  BY <1>2 DEF Stop, Answered
<1>3. CASE Interrupt
  BY <1>3 DEF Interrupt, Answered, evmVars
<1>4. CASE GetResult
  BY <1>4 DEF GetResult, Answered, evmVars
<1>5. CASE UNCHANGED vars
  BY <1>5 DEF vars, evmVars, Answered
<1>. QED  BY <1>1, <1>2, <1>3, <1>4, <1>5, Told

\* CaptureState drops an instruction only with an error.
LEMMA CaptureCompletes ==
    ASSUME TraceIsSequence, Complete, NEW log, CaptureState(log), opt' = opt
    PROVE  TraceIsSequence' /\ Complete'
<1>0. executed + 1 \in Nat
  <2>1. executed \in Nat
    BY DEF Complete
  <2>. QED  BY <2>1
<1>1. CASE err # "" /\ UNCHANGED <<trace, abort, err, jsVars>> /\ executed' = executed + 1
  <2>1. TraceIsSequence'
    BY <1>1 DEF TraceIsSequence, IsSequence
  <2>2. Complete'
    BY <1>0, <1>1 DEF Complete
  <2>. QED  BY <2>1, <2>2
<1>2. CASE err' \in Failures(log) /\ UNCHANGED <<trace, jsVars>> /\ executed' = executed + 1
  <2>1. err' # ""
    BY <1>2 DEF Failures, EvmdisFailures
  <2>2. TraceIsSequence'
    BY <1>2 DEF TraceIsSequence, IsSequence
  <2>3. Complete'
    BY <1>0, <1>2, <2>1 DEF Complete
  <2>. QED  BY <2>2, <2>3
<1>3. CASE /\ err = "" /\ trace' = Append(trace, log) /\ executed' = executed + 1
           /\ opt.tracer # "evmdis" => opcount' = OpcountStep(opcount, log)
           /\ UNCHANGED err
  <2>1. IsSequence(Append(trace, log)) /\ Len(Append(trace, log)) = Len(trace) + 1
    BY Longer DEF TraceIsSequence
  <2>2. IsSequence(trace') /\ Len(trace') = Len(trace) + 1
    BY <1>3, <2>1
  <2>3. opt.tracer = "counters" => opcount' = executed'
    BY <1>3 DEF Complete, OpcountStep
  <2>4. TraceIsSequence'
    BY <2>2 DEF TraceIsSequence, IsSequence
  <2>5. Complete'
    BY <1>0, <1>3, <2>2, <2>3 DEF Complete
  <2>. QED  BY <2>4, <2>5
<1>. QED  BY <1>1, <1>2, <1>3 DEF CaptureState

LEMMA CompleteSteps ==
    ASSUME TraceIsSequence, Complete, [Next]_vars
    PROVE  TraceIsSequence' /\ Complete'
<1>1. CASE opt' = opt /\ \E log : CaptureState(log)
  BY <1>1, CaptureCompletes
<1>2. CASE UNCHANGED <<opt, trace, executed, err, jsVars>>
  <2>1. TraceIsSequence'
    BY <1>2 DEF TraceIsSequence, IsSequence
  <2>2. Complete'
    BY <1>2 DEF Complete, jsVars
  <2>. QED  BY <2>1, <2>2
<1>3. CASE Stop \/ Interrupt \/ GetResult \/ UNCHANGED vars
  BY <1>2, <1>3 DEF Stop, Interrupt, GetResult, vars, evmVars
<1>. QED  BY <1>1, <1>2, <1>3, Told DEF Rest

\* Once the request has its answer, no step changes the tracer's objects: the
\* interpreter may still run, but CaptureState finds the interrupt (Stop is
\* called before the interpreter is cancelled).
THEOREM StopFreezes == Spec => StoppedIsFrozen
<1>1. Init => Answered
  BY DEF Init, Answered
<1>2. Answered /\ [Next]_vars => Answered'
  BY AnsweredSteps
<1>3. Answered /\ [Next]_vars => [answer # "none" => UNCHANGED jsVars]_vars
  <2>. SUFFICES ASSUME Answered, Next, answer # "none"  PROVE UNCHANGED jsVars
    OBVIOUS
  <2>1. ASSUME NEW log, running # <<>>, CaptureState(log)  PROVE UNCHANGED jsVars
    BY <2>1 DEF CaptureState, Answered
  <2>2. CASE Stop \/ Interrupt \/ GetResult
    BY <2>2 DEF Stop, Interrupt, GetResult
  <2>. QED  BY <2>1, <2>2, Told
<1>. QED  BY <1>1, <1>2, <1>3, PTL DEF Spec, StoppedIsFrozen

\* A request that gets a result gets that of every instruction the interpreter
\* told of: GetResult returns the error that CaptureState accumulated when one
\* was lost.
THEOREM ResultsAreComplete == Spec => []ResultIsComplete
<1>. DEFINE Inv == Answered /\ TraceIsSequence /\ Complete
<1>1. Init => Inv
  <2>1. Init => Answered
    BY DEF Init, Answered
  <2>2. Init => TraceIsSequence /\ Complete
    <3>. SUFFICES ASSUME Init  PROVE TraceIsSequence /\ Complete
      OBVIOUS
    <3>1. <<>> \in Seq(Nat) /\ Len(<<>>) = 0
      OBVIOUS
    <3>2. IsSequence(<<>>)
      BY <3>1 DEF IsSequence
    <3>. QED  BY <3>1, <3>2 DEF Init, Complete, TraceIsSequence, OpcountNew
  <2>. QED  BY <2>1, <2>2
<1>2. Inv /\ [Next]_vars => Inv'
  BY AnsweredSteps, CompleteSteps
<1>3. Inv => ResultIsComplete
  BY DEF Answered, Complete, ResultIsComplete, OpcountResult
<1>. QED  BY <1>1, <1>2, <1>3, PTL DEF Spec
=============================================================================
