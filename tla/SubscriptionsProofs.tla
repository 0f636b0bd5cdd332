------------------------ MODULE SubscriptionsProofs ------------------------
(***************************************************************************)
(* No wake-up of a subscription is missed, for any tree of blocks, any     *)
(* faults of the node and any number of subscribers.                       *)
(***************************************************************************)
EXTENDS Subscriptions, TLAPS

Ops == [stage : {"idle", "logs", "add"}, block : Block, asBest : BOOLEAN]
Fields == {"stage", "kind", "position", "ref", "ch", "view", "applies"}

\* The channels a pipe holds are not newer than the current one.
Channels ==
    /\ epoch \in Nat /\ due \in BOOLEAN
    /\ DOMAIN subs = Subscriber
    /\ op \in Ops
    /\ \A s \in Subscriber : Open(s) =>
          /\ DOMAIN subs[s] = Fields
          /\ subs[s].ref \in 0 .. epoch /\ subs[s].ch \in 0 .. epoch

\* The pipe has told its client of the best block, or some channel that it
\* took before it read has been closed or is about to be.
UpToDate(s, ch) == ch = epoch /\ ~due => subs[s].position = best

\* Before the wait this is so of the channel that Waiter.C will return, and
\* during the wait of the one it has returned.
IInv ==
    /\ Channels
    /\ \A s \in Subscriber :
          /\ subs[s].stage = "await" => UpToDate(s, subs[s].ref)
          /\ subs[s].stage = "wait" => UpToDate(s, subs[s].ch)

-----------------------------------------------------------------------------

LEMMA Initially == SInit => IInv
<1>. SUFFICES ASSUME SInit PROVE IInv
  OBVIOUS
<1>1. op \in Ops
  BY TreeAssumption DEF SInit, Init, NoOp, Ops
<1>2. \A s \in Subscriber : subs[s].stage = "off"
  BY DEF SInit, Off
<1>. QED
  BY <1>1, <1>2 DEF SInit, IInv, Channels, Open

\* Steps that change neither the pipes nor the signal nor the best block.
LEMMA Idle ==
    ASSUME IInv, UNCHANGED <<epoch, due, subs, best>>, op' \in Ops
    PROVE  IInv'
  BY DEF IInv, Channels, Open, UpToDate

\* The steps of the node.
LEMMA NodeSteps ==
    ASSUME IInv, Quiet,
           \/ \E skip : Start(skip)
           \/ \E num : SyncTo(num)
           \/ \E b \in Block, asBest \in BOOLEAN : Process(b, asBest)
           \/ CommitLogs \/ FailLogs \/ Abandon
    PROVE  IInv'
<1>. USE DEF Ops
<1>1. UNCHANGED <<epoch, due, subs>>
  BY DEF Quiet, subVars
<1>2. best' = best
  BY DEF Start, SyncTo, Process, CommitLogs, FailLogs, Abandon
<1>3. op' \in Ops
  <2>1. ASSUME NEW b \in Block, NEW asBest \in BOOLEAN, Process(b, asBest) PROVE op' \in Ops
    BY <2>1 DEF Process
  <2>2. CASE CommitLogs \/ FailLogs
    BY <2>2 DEF CommitLogs, FailLogs, IInv, Channels
  <2>3. CASE Abandon
    BY <2>3, TreeAssumption DEF Abandon, NoOp
  <2>4. CASE (\E skip : Start(skip)) \/ (\E num : SyncTo(num))
    BY <2>4 DEF Start, SyncTo, IInv, Channels
  <2>. QED
    BY <2>1, <2>2, <2>3, <2>4
<1>. QED
  BY <1>1, <1>2, <1>3, Idle

\* A new best block comes with a broadcast.
LEMMA BestSteps == ASSUME IInv, AddBlock, StoreBest PROVE IInv'
  BY TreeAssumption DEF AddBlock, StoreBest, NoOp, Ops, IInv, Channels, Open, UpToDate

\* The steps of a pipe and of its client.
LEMMA PipeSteps ==
    ASSUME IInv, NEW s \in Subscriber,
           \/ \E kind, pos : Subscribe(s, kind, pos)
           \/ NewTicker(s) \/ Read(s) \/ Await(s) \/ Wake(s) \/ Ping(s) \/ Leave(s)
    PROVE  IInv'
<1>1. UNCHANGED <<epoch, due, best, op>> /\ DOMAIN subs' = Subscriber
  BY DEF Subscribe, NewTicker, Read, Await, Wake, Ping, Leave, vars, IInv, Channels
<1>2. \A t \in Subscriber \ {s} : subs'[t] = subs[t]
  BY DEF Subscribe, NewTicker, Read, Await, Wake, Ping, Leave, IInv, Channels
<1>3. SUFFICES /\ subs'[s].stage # "off" => DOMAIN subs'[s] = Fields
               /\ subs'[s].stage # "off" => subs'[s].ref \in 0 .. epoch /\ subs'[s].ch \in 0 .. epoch
               /\ subs'[s].stage = "await" => (subs'[s].ref = epoch /\ ~due => subs'[s].position = best)
               /\ subs'[s].stage = "wait" => (subs'[s].ch = epoch /\ ~due => subs'[s].position = best)
  BY <1>1, <1>2 DEF IInv, Channels, Open, UpToDate
<1>4. ASSUME NEW kind, NEW pos, Subscribe(s, kind, pos) 
      PROVE  DOMAIN subs'[s] = Fields /\ subs'[s].ref = 0 /\ subs'[s].ch = 0 /\ subs'[s].stage = "new"
  BY <1>4 DEF Subscribe, IInv, Channels, Fields
<1>5. CASE NewTicker(s)
  BY <1>5 DEF NewTicker, IInv, Channels, Open, Fields
<1>6. CASE Read(s)
  <2>1. subs[s].stage = "read" /\ Open(s)
    BY <1>6 DEF Read, Open
  <2>2. CASE subs[s].position = best /\ subs' = [subs EXCEPT ![s].stage = "await"]
    BY <2>1, <2>2 DEF IInv, Channels, Fields
  <2>3. CASE subs' = [subs EXCEPT ![s] = Off]
    BY <2>3 DEF IInv, Channels, Off
  <2>4. ASSUME NEW blocks, subs' = [subs EXCEPT ![s] = Told(subs[s], blocks)]
        PROVE  /\ DOMAIN subs'[s] = Fields /\ subs'[s].stage = "read"
               /\ subs'[s].ref = subs[s].ref /\ subs'[s].ch = subs[s].ch
    BY <2>1, <2>4 DEF IInv, Channels, Fields, Told
  <2>. QED
    BY <1>6, <2>1, <2>2, <2>3, <2>4 DEF Read, IInv, Channels
<1>7. CASE Await(s)
  BY <1>7 DEF Await, IInv, Channels, Open, UpToDate, Fields
<1>8. CASE Wake(s) \/ Ping(s)
  BY <1>8 DEF Wake, Ping, IInv, Channels, Open, Fields
<1>9. CASE Leave(s)
  BY <1>9 DEF Leave, Off, IInv, Channels
<1>. QED
  BY <1>4, <1>5, <1>6, <1>7, <1>8, <1>9 DEF IInv, Channels

LEMMA Steps == IInv /\ [SNext]_allVars => IInv'
<1>. SUFFICES ASSUME IInv, [SNext]_allVars PROVE IInv'
  OBVIOUS
<1>1. ASSUME NEW skip, Start(skip), Quiet PROVE IInv'
  BY <1>1, NodeSteps
<1>2. ASSUME NEW num, SyncTo(num), Quiet PROVE IInv'
  BY <1>2, NodeSteps
<1>3. ASSUME NEW b \in Block, NEW asBest \in BOOLEAN, Process(b, asBest), Quiet PROVE IInv'
  BY <1>3, NodeSteps
<1>4. CASE (CommitLogs \/ FailLogs \/ Abandon) /\ Quiet
  BY <1>4, NodeSteps
<1>5. CASE AddBlock /\ StoreBest
  BY <1>5, BestSteps
<1>6. CASE Stop /\ CloseAll
  BY <1>6, TreeAssumption DEF Stop, CloseAll, NoOp, Ops, IInv, Channels, Open, Off
<1>7. CASE Broadcast
  <2>1. epoch' = epoch + 1 /\ due' = FALSE /\ UNCHANGED <<subs, best, op>>
    BY <1>7 DEF Broadcast, vars
  <2>2. \A s \in Subscriber : Open(s) => subs[s].ref # epoch + 1 /\ subs[s].ch # epoch + 1
    BY DEF IInv, Channels
  <2>3. Channels'
    <3>1. epoch' \in Nat
      BY <2>1 DEF IInv, Channels
    <3>2. due' \in BOOLEAN /\ DOMAIN subs' = Subscriber /\ op' \in Ops
      BY <2>1, Zenon DEF IInv, Channels
    <3>3. 0 .. epoch \subseteq 0 .. epoch'
      BY <2>1 DEF IInv, Channels
    <3>4. \A s \in Subscriber : Open(s)' =>
             /\ DOMAIN subs'[s] = Fields
             /\ subs'[s].ref \in 0 .. epoch' /\ subs'[s].ch \in 0 .. epoch'
      BY <2>1, <3>3 DEF IInv, Channels, Open
    <3>. QED
      BY <3>1, <3>2, <3>4 DEF Channels, Ops, Fields
  <2>4. \A s \in Subscriber : subs[s].stage \in {"await", "wait"} => Open(s)
    BY DEF Open
  <2>. QED
    BY <2>1, <2>2, <2>3, <2>4 DEF IInv, UpToDate
<1>8. ASSUME NEW s \in Subscriber, NEW kind, NEW pos, Subscribe(s, kind, pos) PROVE IInv'
  BY <1>8, PipeSteps
<1>9. ASSUME NEW s \in Subscriber,
             NewTicker(s) \/ Read(s) \/ Await(s) \/ Wake(s) \/ Ping(s) \/ Leave(s)
      PROVE  IInv'
  BY <1>9, PipeSteps
<1>10. CASE UNCHANGED allVars
  BY <1>10, Idle DEF allVars, subVars, vars, IInv, Channels
<1>. QED
  BY <1>1, <1>2, <1>3, <1>4, <1>5, <1>6, <1>7, <1>8, <1>9, <1>10 DEF SNext

\* Whatever the node and the clients do, a pipe that waits on an open channel
\* has told its client of the best block, unless a broadcast is about to come
\* (pipe, Signal).
THEOREM NoWakeIsMissed == FairSpec => []NoMissedWake
<1>1. IInv => NoMissedWake
  BY DEF IInv, NoMissedWake, UpToDate
<1>. QED
  BY <1>1, Initially, Steps, PTL DEF FairSpec
=============================================================================
