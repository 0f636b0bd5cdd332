--------------------------- MODULE Subscriptions ---------------------------
(***************************************************************************)
(* Clients that follow the best chain over a websocket                     *)
(* (api/subscriptions), composed with the node that moves it (LogSync).    *)
(*                                                                         *)
(* The repository stores the new best block and then broadcasts a signal   *)
(* (co.Signal); a pipe reads until there is nothing more, then waits for   *)
(* the signal.  Channel n of the signal is closed once there were more     *)
(* than n broadcasts.  Beat messages are kept in a cache that all beat     *)
(* readers share.                                                          *)
(***************************************************************************)
EXTENDS LogSync, SequencesExt

CONSTANTS
    Subscriber,
    BacktraceLimit,
    Word,           \* 2^32 in the code: block numbers are uint32
    MaxSubscribes,  \* bound: subscriptions ever opened by one client
    Served,         \* bound: those of Faults with which clients subscribe
    ServedRestarts  \* bound: restarts after which clients still subscribe

ASSUME SubscriptionAssumption ==
    /\ BacktraceLimit \in Nat /\ Word \in Nat /\ MaxSubscribes \in Nat
    /\ \A b \in Block : Number[b] + BacktraceLimit < Word

VARIABLES
    epoch,          \* Signal: the number of the current channel
    due,            \* whether the best block is stored and not broadcast yet
    subs,           \* the pipe of each subscriber, and what its client knows
    cache,          \* messageCache: <<block, obsolete>>, least recently used first
    opened          \* subscriptions opened by each client

subVars == <<epoch, due, subs, cache, opened>>
allVars == <<vars, subVars>>

Off == [stage |-> "off"]
Open(s) == subs[s].stage # "off"

SInit ==
    /\ Init
    /\ epoch = 0 /\ due = FALSE /\ cache = <<>>
    /\ subs = [s \in Subscriber |-> Off]
    /\ opened = [s \in Subscriber |-> 0]

-----------------------------------------------------------------------------
(* The node *)

\* Steps of the node that move no best block.  The goroutine that stores a
\* block does nothing else before the broadcast.
Quiet == ~due /\ UNCHANGED subVars

\* Mutant: only a block on top of the best one is broadcast.
StoreOnTop ==
    /\ ~due
    /\ due' = (op.asBest /\ Parent[op.block] = best)
    /\ UNCHANGED <<epoch, subs, cache, opened>>
\* saveBlock: bestSummary is stored, the broadcast is to come.
StoreBest ==
    /\ ~due
    /\ due' = op.asBest
    /\ UNCHANGED <<epoch, subs, cache, opened>>

Broadcast ==
    /\ due
    /\ due' = FALSE /\ epoch' = epoch + 1
    /\ UNCHANGED <<vars, subs, cache, opened>>

\* Subscriptions.Close, or the end of the process.
CloseAll ==
    /\ due => "crash" \in faults
    /\ subs' = [s \in Subscriber |-> Off]
    /\ epoch' = 0 /\ due' = FALSE /\ cache' = <<>>
    /\ UNCHANGED opened

-----------------------------------------------------------------------------
(* The pipe of a subscriber *)

\* parsePosition: how far a position is below the best block.
Distance(pos) == (Number[best] - Number[pos]) % Word

\* The handler up to pipe: the position is given, or is the best block.  The
\* client may know the block from another node.
Subscribe(s, kind, pos) ==
    /\ phase = "running" /\ subs[s] = Off
    /\ faults \in Served /\ restarts <= ServedRestarts /\ opened[s] < MaxSubscribes
    /\ Distance(pos) <= BacktraceLimit
    /\ subs' = [subs EXCEPT ![s] = [stage |-> "new", kind |-> kind, position |-> pos,
                                    ref |-> 0, ch |-> 0, view |-> pos, applies |-> TRUE]]
    /\ opened' = [opened EXCEPT ![s] = @ + 1]
    /\ UNCHANGED <<vars, epoch, due, cache>>

\* Signal.NewWaiter, before the first Read.
NewTicker(s) ==
    /\ subs[s].stage = "new"
    /\ subs' = [subs EXCEPT ![s].stage = "read", ![s].ref = epoch]
    /\ UNCHANGED <<vars, epoch, due, cache, opened>>

\* Mutant: the blocks that were left are not reported.
NextOnly ==
    [pos \in Block |-> [head \in Block |->
        LET fork == Max({Number[b] : b \in Chain[pos] \cap Chain[head]})
            next == {b \in Chain[head] : Number[b] = fork + 1}
        IN  [i \in 1 .. Cardinality(next) |-> <<CHOOSE b \in next : TRUE, FALSE>>]]]
\* BlockReader.Read with some best block: back to the best chain, then one
\* block up.  There is none above the best block.
ReadBlocks ==
    [pos \in Block |-> [head \in Block |->
        LET fork == Max({Number[b] : b \in Chain[pos] \cap Chain[head]})
            left == SetToSortSeq(Exclude(pos, head), LAMBDA a, b : Number[a] > Number[b])
            next == {b \in Chain[head] : Number[b] = fork + 1}
        IN  [i \in 1 .. Len(left) + Cardinality(next) |->
                IF i <= Len(left) THEN <<left[i], TRUE>> ELSE <<CHOOSE b \in next : TRUE, FALSE>>]]]

CacheSize == Min({1000, Max({1, BacktraceLimit})})

\* messageCache.GetOrAdd, on the cache and the messages so far: the message
\* made for a block is found by its ID.
GetOrAdd(acc, msg) ==
    LET hit  == SelectSeq(acc.cache, LAMBDA m : m[1] = msg[1])
        m    == IF hit = <<>> THEN msg ELSE hit[1]
        rest == SelectSeq(acc.cache, LAMBDA x : x[1] # msg[1])
    IN  [cache |-> Append(IF Len(rest) < CacheSize THEN rest ELSE Tail(rest), m),
         msgs  |-> Append(acc.msgs, m)]

\* The Read of a kind of subscription: the cache and the messages.
Messages(kind, blocks) ==
    IF kind = "beat" THEN FoldLeft(GetOrAdd, [cache |-> cache, msgs |-> <<>>], blocks)
                     ELSE [cache |-> cache, msgs |-> blocks]

\* A client that keeps the chain it is told of takes an obsolete block off,
\* and puts another one on: where it must be before and where it is after.
Before(msg) == IF msg[2] \/ msg[1] = Genesis THEN msg[1] ELSE Parent[msg[1]]
After(msg) == IF msg[2] /\ msg[1] # Genesis THEN Parent[msg[1]] ELSE msg[1]

\* Whether messages fit together, from where the client is.
Fits(view, msgs) ==
    \A i \in 1 .. Len(msgs) : Before(msgs[i]) = IF i = 1 THEN view ELSE After(msgs[i - 1])

\* A pipe and its client once the blocks of a Read are written.
Told(sub, blocks) ==
    LET msgs == Messages(sub.kind, blocks).msgs
    IN  [sub EXCEPT !.position = Last(blocks)[1], !.view = After(Last(msgs)),
                    !.applies = @ /\ Fits(sub.view, msgs)]

\* Read and the writing of its messages.  An unknown position is an error
\* that ends the pipe.
Read(s) ==
    /\ subs[s].stage = "read"
    /\ \/ /\ subs[s].position = best
          /\ subs' = [subs EXCEPT ![s].stage = "await"]
          /\ UNCHANGED cache
       \/ /\ subs[s].position \notin stored
          /\ subs' = [subs EXCEPT ![s] = Off]
          /\ UNCHANGED cache
       \/ /\ subs[s].position \in stored \ {best}
          /\ cache' = Messages(subs[s].kind, ReadBlocks[subs[s].position][best]).cache
          /\ subs' = [subs EXCEPT ![s] = Told(subs[s], ReadBlocks[subs[s].position][best])]
    /\ UNCHANGED <<vars, epoch, due, opened>>

\* Mutant: the waiter gives the current channel.
AwaitCurrent(s) ==
    /\ subs[s].stage = "await"
    /\ subs' = [subs EXCEPT ![s].stage = "wait", ![s].ch = epoch, ![s].ref = epoch]
    /\ UNCHANGED <<vars, epoch, due, cache, opened>>
\* Waiter.C: it gives the channel it took the time before, and takes the
\* current one.
Await(s) ==
    /\ subs[s].stage = "await"
    /\ subs' = [subs EXCEPT ![s].stage = "wait", ![s].ch = subs[s].ref, ![s].ref = epoch]
    /\ UNCHANGED <<vars, epoch, due, cache, opened>>

\* The channel is closed.
Wake(s) ==
    /\ subs[s].stage = "wait" /\ subs[s].ch < epoch
    /\ subs' = [subs EXCEPT ![s].stage = "read"]
    /\ UNCHANGED <<vars, epoch, due, cache, opened>>

\* The ping ticker fires instead; the loop reads again.
Ping(s) ==
    /\ subs[s].stage = "wait"
    /\ subs' = [subs EXCEPT ![s].stage = "read"]
    /\ UNCHANGED <<vars, epoch, due, cache, opened>>

\* The client has gone: closed is seen, or a write fails.
Leave(s) ==
    /\ Open(s)
    /\ subs' = [subs EXCEPT ![s] = Off]
    /\ UNCHANGED <<vars, epoch, due, cache, opened>>

SNext ==
    \/ \E skip \in {FALSE, "skip" \in faults} : Start(skip) /\ Quiet
    \/ \E num \in {Number[b] : b \in Block} : SyncTo(num) /\ Quiet
    \/ \E b \in Block \ {Genesis}, asBest \in BOOLEAN : Process(b, asBest) /\ Quiet
    \/ CommitLogs /\ Quiet
    \/ FailLogs /\ Quiet
    \/ AddBlock /\ StoreBest
    \/ Abandon /\ Quiet
    \/ Stop /\ CloseAll
    \/ Broadcast
    \/ \E s \in Subscriber : \/ \E kind \in {"block", "beat"}, pos \in Block : Subscribe(s, kind, pos)
                             \/ NewTicker(s)
                             \/ Read(s)
                             \/ Await(s)
                             \/ Wake(s)
                             \/ Ping(s)
                             \/ Leave(s)

Pipe(s) == NewTicker(s) \/ Read(s) \/ Await(s) \/ Wake(s)

\* The pipe of an open subscription runs, and a stored best block is broadcast.
\* Nothing is assumed of pings, clients or new blocks.
FairSpec ==
    /\ SInit /\ [][SNext]_allVars
    /\ WF_allVars(Broadcast)
    /\ \A s \in Subscriber : WF_allVars(Pipe(s))

-----------------------------------------------------------------------------
(* Properties *)

\* The stream of a block subscription is a chain: each message fits what the
\* client knows, through forks of any depth, and the client is where the
\* reader is (BlockReader.Read).
StreamApplies ==
    \A s \in Subscriber : Open(s) /\ subs[s].kind = "block" =>
        subs[s].applies /\ subs[s].view = subs[s].position

\* The reader always finds a next block on the best chain: a known position
\* is never above the best block on its own chain (parsePosition, Read).
NextBlockExists ==
    \A s \in Subscriber :
        Open(s) /\ subs[s].position \in stored /\ subs[s].position # best
            => best \notin Chain[subs[s].position]

\* A pipe that waits on an open channel has told its client of the best block,
\* unless the broadcast is about to come: no block that becomes the best
\* between Read and the wait goes unnoticed (pipe, Signal).
NoMissedWake ==
    \A s \in Subscriber :
        Open(s) /\ subs[s].stage = "wait" /\ subs[s].ch = epoch /\ ~due => subs[s].position = best

\* When a client is told that a block is on the best chain, the logs of that
\* block can be queried, unless the node is leaving that chain (processBlock
\* writes the logs before AddBlock).
ToldAfterLogs ==
    [][\A s \in Subscriber :
          /\ faults = {} /\ Read(s) /\ subs'[s].stage = "read"
          /\ ~(op.stage = "add" /\ op.asBest /\ subs'[s].position \notin Chain[op.block])
          => \A k \in Keys(subs'[s].position) : k \in DOMAIN rows /\ rows[k] = subs'[s].position
      ]_allVars

\* An open subscription arrives at the best block or the client leaves, every
\* time the best block moves on, and without the help of a ping (pipe).
CatchesUp == \A s \in Subscriber : Open(s) ~> (~Open(s) \/ subs[s].position = best)

\* A beat says obsolete exactly when its block left the best chain: a client
\* can follow the chain by beats too (api/doc/thor.yaml, Beat obsolete).
BeatsApply ==
    \A s \in Subscriber : Open(s) /\ subs[s].kind = "beat" =>
        subs[s].applies /\ subs[s].view = subs[s].position
=============================================================================
