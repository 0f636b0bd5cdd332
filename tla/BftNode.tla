------------------------------ MODULE BftNode ------------------------------
(***************************************************************************)
(* One node running the finality gadget: the blocks it has stored, its     *)
(* choice of the best block, the engine's saved qualities and finalized    *)
(* checkpoint, and the COM votes it casts as the proposer Master.          *)
(*                                                                         *)
(* Blocks of the other signers arrive in any order and form any tree; a    *)
(* node is stopped or crashes and starts again from what it has saved.     *)
(* processBlock and pack run under Node.processLock, so they never overlap *)
(* each other; the steps of one of them are apart only where a crash may   *)
(* fall between two writes.                                                *)
(***************************************************************************)
EXTENDS Bft

CONSTANTS
    Master,         \* the signer this node packs for
    MaxNumber,      \* bound: no block above this number
    MaxBlocks,      \* bound: no more blocks than this in the repository
    MaxStale,       \* bound: the same once the cache of qualities is stale
    MaxHeads,       \* bound: no more branches than this
    MaxRestarts,    \* bound: restarts of the node, none with a stale cache
    CrashAnywhere,  \* whether a restart may fall inside a block's commit
    Queries         \* bound: whether Justified is called while a block is committed

ASSUME MasterAssumption == Master \in Signer

VARIABLES
    blocks,         \* repository: IDs of the stored blocks
    best,           \* repository: ID of the best block
    saved,          \* disk: quality of each concluded round, by its last block
    savedFinalized, \* disk: the finalized checkpoint
    finalized,      \* memory: Engine.finalized
    casts,          \* memory: Engine.casts, quality by checkpoint
    castsLoaded,    \* memory: whether Engine.casts has been built
    flow,           \* memory: parent the packer is scheduled on (empty or one ID)
    op,             \* memory: the commit in progress
    stale,          \* memory: saved, but Engine.caches.quality has 0 for it
    query,          \* memory: what a call of Justified found no quality for
    restarts

repoVars == <<blocks, best>>
diskVars == <<saved, savedFinalized>>
memVars  == <<finalized, casts, castsLoaded, flow, op>>
apiVars  == <<stale, query>>
vars     == <<repoVars, diskVars, memVars, apiVars, restarts>>

NoCasts == [c \in {} |-> 0]
Idle == [stage |-> "idle", id |-> Genesis, packing |-> FALSE, target |-> Genesis]

Heads == {id \in blocks : \A b \in blocks : b # id => ParentID(b) # id \/ b = Genesis}

\* What getQuality answers: the cache comes before the disk.
Qualities == IF stale = {} THEN saved ELSE [b \in DOMAIN saved |-> IF b \in stale THEN 0 ELSE saved[b]]

State(id) == ComputeState(Qualities, id)

-----------------------------------------------------------------------------
(* Engine: decisions *)

\* Engine.Accepts: whether a child of the block is on the finalized branch.
Accepts(parent) == Number(finalized) # 0 => HasBlock(parent, finalized)

\* Engine.Select: whether the new block is better than the best one.
Select(id) ==
    LET new == State(id).quality
        old == State(best).quality
    IN  IF new # old THEN new > old ELSE BetterThan(id, best)

\* casts.Mark: the packed block's checkpoint and quality replace the entry.
Mark(ca, checkpoint, quality) ==
    [c \in DOMAIN ca \cup {checkpoint} |-> IF c = checkpoint THEN quality ELSE ca[c]]

\* Mutant: the first own block of a branch is taken.
FirstOwn(head) ==
    LET own == {num \in 1 .. Number(head) :
                   SignerOf(head, num) = Master /\ num >= Number(finalized)}
    IN  IF own = {} THEN {} ELSE {GetBlockID(head, Min(own))}

\* newCasts: on a branch, Master's last block above the finalized number.
LastOwn(head) ==
    LET own == {num \in 1 .. Number(head) :
                   SignerOf(head, num) = Master /\ num >= Number(finalized)}
    IN  IF own = {} THEN {} ELSE {GetBlockID(head, Max(own))}

NewCasts ==
    LET own == UNION {LastOwn(head) : head \in {h \in Heads : Number(h) >= Number(finalized)}}
        checkpointOf(id) == GetBlockID(id, GetCheckPoint(Number(id)))
    IN  [c \in {checkpointOf(id) : id \in own} |->
            Max({State(id).quality : id \in {b \in own : checkpointOf(b) = c}})]

\* The most recent justified checkpoint of the branch (empty on error).
RecentJC(parent) ==
    IF State(parent).justified
    THEN {GetBlockID(parent, GetCheckPoint(Number(parent)))}
    ELSE FindCheckpointByQuality(Qualities, State(parent).quality, finalized,
            GetBlockID(parent, GetStorePoint(Number(parent) - CheckpointInterval)))

\* Mutant: only casts of higher quality are looked at.
NoHigherCast(ca, jc, quality) ==
    \A c \in DOMAIN ca :
        Number(c) >= Number(finalized) /\ ca[c] > quality => ~Conflicting(c, jc)

\* The loop over casts.Slice: no vote that conflicts with the recent one.
NoConflictingCast(ca, jc, quality) ==
    \A c \in DOMAIN ca :
        Number(c) >= Number(finalized) /\ ca[c] >= quality - 1 => ~Conflicting(c, jc)

\* Engine.ShouldVote: the set of answers, empty on error.
ShouldVote(ca, parent) ==
    IF AbsRound(Number(parent) + 1) = 0 \/ State(parent).quality = 0
    THEN {FALSE}
    ELSE {NoConflictingCast(ca, jc, State(parent).quality) : jc \in RecentJC(parent)}

-----------------------------------------------------------------------------
(* Node *)

Init ==
    /\ blocks = {Genesis} /\ best = Genesis
    /\ saved = [b \in {} |-> 0] /\ savedFinalized = Genesis
    /\ finalized = Genesis /\ casts = NoCasts /\ castsLoaded = FALSE
    /\ flow = {} /\ op = Idle
    /\ stale = {} /\ query = {}
    /\ restarts = 0

AtStorePoint(id) == Number(id) >= FINALITY /\ GetStorePoint(Number(id)) = Number(id)

Begin(id, packing) ==
    op' = IF AtStorePoint(id)
          THEN [stage |-> "quality", id |-> id, packing |-> packing, target |-> Genesis]
          ELSE Idle

WithinBounds(id) ==
    /\ Number(id) <= MaxNumber
    /\ Cardinality(blocks) < IF stale = {} THEN MaxBlocks ELSE MaxStale
    /\ Cardinality(Heads \ {ParentID(id)}) < MaxHeads

\* processBlock: a valid block of another signer whose parent is stored and
\* accepted.  A known, orphan or rejected block changes nothing.
ProcessBlock(id) ==
    /\ op = Idle /\ query = {}
    /\ id \notin blocks /\ ParentID(id) \in blocks
    /\ Accepts(ParentID(id))
    /\ blocks' = blocks \cup {id}
    /\ LET asBest == IF Number(id) >= FINALITY /\ Number(best) >= FINALITY
                     THEN Select(id) ELSE BetterThan(id, best)
       IN  best' = IF asBest THEN id ELSE best
    /\ Begin(id, FALSE)
    /\ UNCHANGED <<diskVars, finalized, casts, castsLoaded, flow, apiVars, restarts>>

ReceiveBlock ==
    \E parent \in blocks, s \in Signer \ {Master}, com \in BOOLEAN :
        LET id == Append(parent, [signer |-> s, com |-> com])
        IN  /\ com => Number(id) >= FINALITY
            /\ WithinBounds(id)
            /\ ProcessBlock(id)

\* packerLoop: schedule on the best block.
Schedule ==
    /\ flow = {} /\ ~op.packing
    /\ flow' = {best}
    /\ UNCHANGED <<repoVars, diskVars, finalized, casts, castsLoaded, op, apiVars, restarts>>

\* packerLoop: the conditions of the once-a-second check.
BestIsBetter(parent) ==
    \/ /\ Number(best) = Number(parent)
       /\ SignerOf(best, Number(best)) # SignerOf(parent, Number(parent))
    \/ TotalScore(best) > TotalScore(parent) + Score[Master]

Reschedule ==
    /\ \E parent \in flow : BestIsBetter(parent)
    /\ flow' = {best}
    /\ UNCHANGED <<repoVars, diskVars, finalized, casts, castsLoaded, op, apiVars, restarts>>

\* pack, up to Repository.AddBlock, which always makes the new block the best.
\* Away from the end of a round CommitBlock only marks the cast.
Pack(parent, ca) ==
    \E vote \in IF Number(parent) + 1 >= FINALITY THEN ShouldVote(ca, parent) ELSE {FALSE} :
        LET id == Append(parent, [signer |-> Master, com |-> vote])
        IN  /\ WithinBounds(id) /\ id \notin blocks
            /\ blocks' = blocks \cup {id} /\ best' = id
            /\ casts' = IF Number(id) < FINALITY \/ AtStorePoint(id) THEN ca
                        ELSE Mark(ca, GetBlockID(id, GetCheckPoint(Number(id))), State(id).quality)
            /\ Begin(id, TRUE)

PackBlock ==
    /\ op = Idle /\ query = {}
    /\ \E parent \in flow :
          LET load == Number(parent) + 1 >= FINALITY
          IN  /\ Pack(parent, IF castsLoaded \/ ~load THEN casts ELSE NewCasts)
              /\ castsLoaded' = (castsLoaded \/ load)
    /\ flow' = {}
    /\ UNCHANGED <<diskVars, finalized, apiVars, restarts>>

\* The tail of CommitBlock: the cast of a packed block is marked in memory.
MarkIfPacking ==
    casts' = IF op.packing
             THEN Mark(casts, GetBlockID(op.id, GetCheckPoint(Number(op.id))), State(op.id).quality)
             ELSE casts

\* CommitBlock at the end of a round: save the quality, then look for the
\* checkpoint to finalize; when it is not found CommitBlock returns an error
\* and nothing is marked.
CommitQuality ==
    /\ op.stage = "quality"
    /\ UNCHANGED <<repoVars, savedFinalized, finalized, castsLoaded, flow, apiVars, restarts>>
    /\ LET st    == State(op.id)
           final == st.committed /\ st.quality > 1
           found == FindCheckpointByQuality(Qualities', st.quality - 1, finalized, op.id)
       IN  /\ saved' = [b \in DOMAIN saved \cup {op.id} |->
                           IF b = op.id THEN st.quality ELSE saved[b]]
           /\ \/ ~final /\ op' = Idle /\ MarkIfPacking
              \/ final /\ found = {} /\ op' = Idle /\ UNCHANGED casts
              \/ /\ final /\ UNCHANGED casts
                 /\ \E id \in found : op' = [op EXCEPT !.stage = "finalize", !.target = id]

CommitFinalized ==
    /\ op.stage = "finalize"
    /\ savedFinalized' = op.target /\ finalized' = op.target
    /\ MarkIfPacking
    /\ op' = Idle
    /\ UNCHANGED <<repoVars, saved, castsLoaded, flow, apiVars, restarts>>

\* The process ends and starts again: NewEngine reloads the finalized
\* checkpoint, everything else in memory is lost.
Restart ==
    /\ restarts < MaxRestarts /\ stale = {} /\ query = {}
    /\ op = Idle \/ CrashAnywhere
    /\ finalized' = savedFinalized
    /\ casts' = NoCasts /\ castsLoaded' = FALSE /\ flow' = {} /\ op' = Idle
    /\ restarts' = restarts + 1
    /\ UNCHANGED <<repoVars, diskVars, apiVars>>

-----------------------------------------------------------------------------
(* Engine.Justified, called by the API in goroutines of its own *)

\* The last block of the most recent concluded round of the best chain.
ConcludedID ==
    LET checkpoint == GetCheckPoint(Number(best))
        concluded  == IF Number(best) < GetStorePoint(Number(best))
                      THEN checkpoint - CheckpointInterval ELSE checkpoint
    IN  GetBlockID(best, GetStorePoint(concluded))

FirstConcluded == Number(best) >= GetCheckPoint(FINALITY) + CheckpointInterval - 1

\* The checkpoint found for a concluded round, which is kept in
\* Engine.justified and given again for the same round.
JustifiedBy(id) == FindCheckpointByQuality(Qualities, Qualities[id], finalized, id)

\* The answer: empty on error.
Justified ==
    IF FirstConcluded /\ GetQuality(Qualities, ConcludedID) > 0 THEN JustifiedBy(ConcludedID) ELSE {finalized}

\* loadQuality finds nothing: the block is stored and not committed.  (When it
\* finds the quality, getQuality adds what is on the disk to the cache.)
QueryMisses ==
    /\ Queries /\ query = {} /\ restarts = 0
    /\ FirstConcluded /\ op.id = ConcludedID /\ op.stage = "quality"
    /\ query' = {ConcludedID}
    /\ UNCHANGED <<repoVars, diskVars, memVars, stale, restarts>>

\* The deferred function of getQuality adds 0 to the cache.  Before CommitBlock
\* has saved the quality that changes nothing, as CommitBlock replaces it, nor
\* does it when the quality is 0.
QueryCaches ==
    /\ query # {}
    /\ stale' = stale \cup {b \in query \cap DOMAIN saved : saved[b] > 0}
    /\ query' = {}
    /\ UNCHANGED <<repoVars, diskVars, memVars, restarts>>

Next ==
    \/ ReceiveBlock
    \/ Schedule
    \/ Reschedule
    \/ PackBlock
    \/ CommitQuality
    \/ CommitFinalized
    \/ QueryMisses
    \/ QueryCaches
    \/ Restart

Spec == Init /\ [][Next]_vars

-----------------------------------------------------------------------------
(* Properties *)

\* What the votes of a chain amount to, whatever a node has saved: the number
\* of its justified rounds.
TrueQuality(id) ==
    LET justified(r) ==
            LET last == Min({Number(id), r * CheckpointInterval + CheckpointInterval - 1})
            IN  Cardinality(Votes(GetBlockID(id, last))) > Threshold
    IN  IF Len(id) = 0 \/ Len(id) < FINALITY THEN 0
        ELSE Cardinality({r \in FINALITY \div CheckpointInterval .. Number(id) \div CheckpointInterval :
                             justified(r)})

\* The checkpoint a concluded round finalizes by the votes of its chain.
Finalizes(id) ==
    IF AtStorePoint(id) /\ Cardinality(ComVotes(id)) > Threshold /\ TrueQuality(id) > 1
    THEN LET r == Min({x \in 0 .. Number(id) \div CheckpointInterval :
                          TrueQuality(GetBlockID(id, x * CheckpointInterval + CheckpointInterval - 1))
                             = TrueQuality(id) - 1})
         IN  {GetBlockID(id, r * CheckpointInterval)}
    ELSE {}

\* Quorum safety (ShouldVote, VIP-220): when Master is in every quorum, no two
\* branches, however the other signers vote, ever finalize conflicting
\* checkpoints.
NoConflictingFinality ==
    \A a, b \in UNION {Finalizes(id) : id \in blocks} : ~Conflicting(a, b)

\* The finalized checkpoint, in memory and on disk, only moves forward along
\* its own branch: nothing finalized is ever taken back (CommitBlock).
FinalizedOnlyAdvances ==
    [][/\ HasBlock(finalized', finalized)
       /\ HasBlock(savedFinalized', savedFinalized)]_vars

\* The best block extends the finalized checkpoint (Accepts, pack).
BestExtendsFinalized == HasBlock(best, finalized)

\* The quality saved for a concluded round is the number of justified rounds
\* of its chain (bftState.Quality: "accumulated justified block count").
SavedQualityIsTrue == \A id \in DOMAIN saved : saved[id] = TrueQuality(id)

\* A restart loses nothing that the vote depends on: the casts rebuilt from
\* the repository give the vote that the casts in memory give.
RestartKeepsVote ==
    castsLoaded /\ op = Idle =>
        \A parent \in blocks :
            Number(parent) + 1 >= FINALITY /\ Accepts(parent) =>
                ShouldVote(casts, parent) = ShouldVote(NewCasts, parent)

\* ShouldVote never returns an error for the block the packer is scheduled on:
\* the recent justified checkpoint is always found (findCheckpointByQuality),
\* so a proposer does not miss its slot, even after a crash.
VoteIsDecided ==
    op = Idle =>
        \A parent \in flow :
            Number(parent) + 1 >= FINALITY =>
                ShouldVote(IF castsLoaded THEN casts ELSE NewCasts, parent) # {}

\* Justified never fails: its answer is on the best chain and not below the
\* finalized checkpoint (findCheckpointByQuality finds a round).
JustifiedIsRight ==
    /\ Justified # {}
    /\ \A id \in Justified : HasBlock(best, id) /\ HasBlock(id, finalized)

\* The checkpoint kept for a round stays the right one when the finalized
\* checkpoint, where the search starts, moves on: neither Engine.justified nor
\* a finalized checkpoint that was read before is ever stale (Justified).
JustifiedStays ==
    [][\A id \in DOMAIN saved :
          saved[id] > 0 /\ HasBlock(id, finalized') => JustifiedBy(id)' = JustifiedBy(id)]_<<diskVars, finalized, stale>>

\* Whatever a crash or a call of Justified loses, no saved quality is too high:
\* no branch is taken to have more justified rounds than it has.
QualityNeverTooHigh == \A id \in DOMAIN saved : saved[id] <= TrueQuality(id)
=============================================================================
