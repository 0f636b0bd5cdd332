------------------------------ MODULE Download ------------------------------
(***************************************************************************)
(* A node catches up with a peer (comm.Communicator.Sync): it searches the *)
(* highest block the two best chains share, asking the peer for one block  *)
(* ID after the other, and then processes the peer's blocks from there.    *)
(*                                                                         *)
(* Nothing is locked meanwhile.  The best chain of the node moves, because *)
(* other goroutines process blocks, and so does the peer's; a call to the  *)
(* peer may fail, and the node may crash.                                  *)
(*                                                                         *)
(* The peer is chosen by the total score it told of; here it may be chosen *)
(* at any time.                                                            *)
(***************************************************************************)
EXTENDS BlockStore, Sequences, FiniteSetsExt

CONSTANTS
    Syncer,     \* the goroutine of Sync, one of Goroutine
    Scenarios,  \* see Scenario
    MaxBlocks   \* blocks in an answer to GetBlocksFromNumber

Scenario ==
    [syncing : BOOLEAN,         \* FALSE: Syncer processes any block, as the others do
     peers : SUBSET Block,      \* bound: best blocks the peer may have
     others : SUBSET Block,     \* bound: blocks that the other goroutines process
     MaxMoves : Nat,            \* bound: how often the peer's best block changes
     MaxStream : Nat,           \* bound: blocks fetched and not yet processed
     crashes : BOOLEAN]         \* whether the node may crash

ASSUME SyncerAssumption == Syncer \in Goroutine
ASSUME ScenarioAssumption == Scenarios \subseteq Scenario /\ MaxBlocks \in Nat \ {0}

VARIABLES
    opt,    \* the scenario, one of Scenarios
    peer,   \* the peer's best block
    moves,  \* how often it changed
    dl      \* the download

dlVars == <<opt, peer, moves, dl>>

\* The block IDs of a chain by number.
Chain[b \in Block] ==
    IF b = Genesis THEN [n \in 0 .. 0 |-> b] ELSE Put(Chain[Parent[b]], Number[b], b)

OnChain(b, head) == Number[b] \in DOMAIN Chain[head] /\ Chain[head][Number[b]] = b

\* stage: "seek" and "find" are the two parts of the search, "fetch" the rest.
\* theirs: the block ID the peer answered, in a set, before it is compared.
\* In the history are the best block at the start (head), whether it was on
\* the best chain all along (still), and what became of the peer's best
\* block: nothing, it has grown, or it is on another branch (it).
NoDownload ==
    [stage |-> "idle", headNum |-> 0, backward |-> 0, start |-> 0, end |-> 0, ancestor |-> 0,
     theirs |-> {}, from |-> 0, stream |-> <<>>, closed |-> FALSE, err |-> FALSE,
     head |-> Genesis, still |-> TRUE, it |-> "same", last |-> Genesis]

DInit ==
    /\ Init
    /\ opt \in Scenarios
    /\ peer \in opt.peers /\ moves = 0
    /\ dl = NoDownload

-----------------------------------------------------------------------------
(* findCommonAncestor *)

\* find(start, end, ancestor).
Find(d, start, end, ancestor) ==
    [d EXCEPT !.stage = "find", !.start = start, !.end = end, !.ancestor = ancestor, !.theirs = {}]

\* fetchBlocks begins after the ancestor.
Found(d, ancestor) ==
    [d EXCEPT !.stage = "fetch", !.ancestor = ancestor, !.from = ancestor + 1,
              !.start = 0, !.end = 0, !.backward = 0, !.theirs = {}]

\* The number that is compared next.
Mid(d) == IF d.stage = "seek" THEN d.headNum - d.backward ELSE (d.start + d.end) \div 2

\* fastSeek.
Seek(d, overlapped) ==
    LET backward == IF d.backward = 0 THEN 1 ELSE 2 * d.backward
    IN  IF overlapped
        THEN IF d.backward = 0 THEN Found(d, d.headNum) ELSE Find(d, Mid(d), d.headNum, 0)
        ELSE IF backward >= d.headNum THEN Find(d, 0, d.headNum, 0)
        ELSE [d EXCEPT !.backward = backward, !.theirs = {}]

\* Mutant: the number after the one that matches is taken for the ancestor.
FindHigh(d, overlapped) ==
    LET mid == Mid(d)
    IN  IF overlapped THEN IF d.start = d.end THEN Found(d, mid) ELSE Find(d, mid + 1, d.end, mid + 1)
        ELSE IF mid > d.start THEN Find(d, d.start, mid - 1, d.ancestor) ELSE Found(d, d.ancestor)
\* Mutant: the search ends one number early.
FindEarly(d, overlapped) ==
    LET mid == Mid(d)
    IN  IF overlapped THEN IF d.start = d.end THEN Found(d, mid) ELSE Find(d, mid + 1, d.end, mid)
        ELSE IF mid > d.start + 1 THEN Find(d, d.start, mid - 1, d.ancestor) ELSE Found(d, d.ancestor)
\* One call of find.
FindStep(d, overlapped) ==
    LET mid == Mid(d)
    IN  IF overlapped THEN IF d.start = d.end THEN Found(d, mid) ELSE Find(d, mid + 1, d.end, mid)
        ELSE IF mid > d.start THEN Find(d, d.start, mid - 1, d.ancestor) ELSE Found(d, d.ancestor)

Searching == dl.stage \in {"seek", "find"}

\* One turn of Sync: a peer is chosen and download called.
Sync ==
    /\ opt.syncing /\ dl.stage \in {"idle", "done"}
    /\ LET d == [NoDownload EXCEPT !.head = bestSummary, !.headNum = Number[bestSummary], !.stage = "seek"]
       IN  dl' = IF d.headNum = 0 THEN Found(d, 0) ELSE d
    /\ UNCHANGED <<vars, opt, peer, moves>>

\* isOverlapped, up to the answer of the peer: no ID above its best block.
Ask ==
    /\ Searching /\ dl.theirs = {}
    /\ dl' = [dl EXCEPT !.theirs = {IF Mid(dl) \in DOMAIN Chain[peer] THEN Chain[peer][Mid(dl)] ELSE NoOne}]
    /\ UNCHANGED <<vars, opt, peer, moves>>

\* The rest of it.  The best block may be below the number by now.
Compare ==
    /\ Searching /\ dl.theirs # {}
    /\ LET overlapped == dl.theirs = {GetBlockID(bestSummary, Mid(dl))}
       IN  dl' = IF Mid(dl) > Number[bestSummary] THEN NoDownload
                 ELSE IF dl.stage = "seek" THEN Seek(dl, overlapped) ELSE FindStep(dl, overlapped)
    /\ UNCHANGED <<vars, opt, peer, moves>>

\* The call fails.
AskFails ==
    /\ Searching /\ dl.theirs = {}
    /\ dl' = NoDownload
    /\ UNCHANGED <<vars, opt, peer, moves>>

-----------------------------------------------------------------------------
(* fetchBlocks and handleBlockStream *)

\* The handler of GetBlocksFromNumber.
GetBlocksFromNumber(num) ==
    [i \in 1 .. Max({Min({MaxBlocks, Number[peer] - num + 1}), 0}) |-> Chain[peer][num + i - 1]]

\* One turn of the loop of fetchBlocks.
Fetch ==
    /\ dl.stage = "fetch" /\ ~dl.closed /\ Len(dl.stream) < opt.MaxStream
    /\ LET blocks == GetBlocksFromNumber(dl.from)
       IN  dl' = [dl EXCEPT !.stream = @ \o blocks, !.from = @ + Len(blocks),
                            !.closed = blocks = <<>>, !.last = peer]
    /\ UNCHANGED <<vars, opt, peer, moves>>

\* The call fails: fetchErr.
FetchFails ==
    /\ dl.stage = "fetch" /\ ~dl.closed
    /\ dl' = [dl EXCEPT !.closed = TRUE, !.err = TRUE]
    /\ UNCHANGED <<vars, opt, peer, moves>>

Waiting == dl.stage = "fetch" /\ op[Syncer] = Idle

\* handleBlockStream takes the next block: processBlock, which does not send
\* it back (see StreamConnects) ...
Take ==
    /\ Waiting /\ dl.stream # <<>>
    /\ Guard(Syncer, Head(dl.stream))
    /\ UNCHANGED dlVars

Taken(d) == [d EXCEPT !.stream = Tail(@)]

\* ... but finds it known, ...
Known ==
    /\ dl.stage = "fetch" /\ op[Syncer].stage = "guarded"
    /\ op[Syncer].conflicts > 0 /\ op[Syncer].block \in Stored
    /\ Release(Syncer)
    /\ dl' = Taken(dl)
    /\ UNCHANGED <<diskVars, bestSummary, maxBlockNum, opt, peer, moves>>

\* Mutant: the stream goes on after a block that fails.
HandlerGoesOn ==
    /\ dl.stage = "fetch"
    /\ op[Syncer].conflicts > 0 => op[Syncer].block \notin Stored
    /\ Fail(Syncer)
    /\ dl' = Taken(dl)
    /\ UNCHANGED <<opt, peer, moves>>
\* ... or fails otherwise, ...
HandlerFails ==
    /\ dl.stage = "fetch"
    /\ op[Syncer].conflicts > 0 => op[Syncer].block \notin Stored
    /\ Fail(Syncer)
    /\ dl' = NoDownload
    /\ UNCHANGED <<opt, peer, moves>>

\* What the history says of a new best block.
Noted(d) == [d EXCEPT !.still = @ /\ OnChain(d.head, bestSummary')]

\* ... or stores it, after which CommitBlock of the finality engine may fail.
Handled ==
    /\ dl.stage = "fetch"
    /\ Publish(Syncer)
    /\ dl' \in {Noted(Taken(dl)), NoDownload}
    /\ UNCHANGED <<opt, peer, moves>>

\* download returns, with the error of fetchBlocks if there is one.
Finish ==
    /\ Waiting /\ dl.closed /\ dl.stream = <<>>
    /\ dl' = IF dl.err THEN NoDownload ELSE [NoDownload EXCEPT !.stage = "done", !.it = dl.it, !.last = dl.last]
    /\ UNCHANGED <<vars, opt, peer, moves>>

-----------------------------------------------------------------------------

\* The peer has another best block.
PeerMoves(b) ==
    /\ moves < opt.MaxMoves /\ b # peer
    /\ peer' = b /\ moves' = moves + 1
    /\ dl' = [dl EXCEPT !.it = IF @ = "fork" \/ ~OnChain(peer, b) THEN "fork" ELSE "grown"]
    /\ UNCHANGED <<vars, opt>>

\* The steps of a goroutine that do not depend on where its block is from.
Step(g) == Validate(g) \/ CommitState(g) \/ IndexBlock(g) \/ SaveBlock(g)

\* A goroutine that processes any block.
Free(g) == opt.syncing => g # Syncer

DNext ==
    \/ \E g \in Goroutine :
          \/ Step(g) /\ UNCHANGED dlVars
          \/ /\ Free(g)
             /\ \/ \E b \in opt.others : Guard(g, b) /\ UNCHANGED dlVars
                \/ Fail(g) /\ UNCHANGED dlVars
                \/ Publish(g) /\ dl' = Noted(dl) /\ UNCHANGED <<opt, peer, moves>>
    \/ Sync \/ Ask \/ Compare \/ AskFails \/ Fetch \/ FetchFails
    \/ Take \/ Known \/ HandlerFails \/ Handled \/ Finish
    \/ \E b \in opt.peers : PeerMoves(b)
    \/ opt.crashes /\ Crash /\ dl' = NoDownload /\ UNCHANGED <<opt, peer, moves>>

DSpec == DInit /\ [][DNext]_<<vars, dlVars>>

-----------------------------------------------------------------------------
(* Properties *)

\* When neither best chain moved, the search ends with the highest block the
\* two share (findCommonAncestor).
AncestorIsHighest ==
    dl.stage = "fetch" /\ dl.still /\ dl.it = "same" =>
        dl.ancestor = Max({n \in DOMAIN Chain[peer] \cap DOMAIN Chain[dl.head] :
                              Chain[peer][n] = Chain[dl.head][n]})

\* The next block of the stream is never too high to be processed.  However
\* the best chain of the node moves during the search, it has a stored parent
\* too, unless the peer itself left its branch: the download does not fail for
\* want of a parent (download, guardBlockProcessing, processBlock).
StreamConnects ==
    dl.stage = "fetch" /\ dl.stream # <<>> =>
        /\ Number[Head(dl.stream)] <= maxBlockNum + 1
        /\ dl.it # "fork" => Parent[Head(dl.stream)] \in Stored

\* A download without error brought the peer's best block, and with it all
\* blocks of its chain (download, fetchBlocks).
DoneIsComplete ==
    dl.stage = "done" /\ dl.it # "fork" => dl.last \in Stored
=============================================================================
