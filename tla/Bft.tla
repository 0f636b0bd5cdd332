-------------------------------- MODULE Bft --------------------------------
(***************************************************************************)
(* The arithmetic of the finality gadget (bft/engine.go, bft/justifier.go, *)
(* bft/casts.go) as operators over block IDs.                              *)
(*                                                                         *)
(* A block ID commits to the whole history of its block, so an ID is       *)
(* modelled by that history: the sequence of the headers of blocks         *)
(* 1 .. Number(id).  Genesis is the empty sequence, a chain is the set of  *)
(* prefixes of its head, and "the chain of head has block b" is "b is a    *)
(* prefix of head".  A header keeps its signer and its COM vote; its score *)
(* is the one of its signer.                                               *)
(***************************************************************************)
EXTENDS Integers, Sequences, FiniteSets, FiniteSetsExt

CONSTANTS
    CheckpointInterval,         \* blocks of one round (180 in thor/params.go)
    FINALITY,                   \* number of the first block of the VIP-220 fork
    MaxBlockProposers,          \* the on-chain parameter, 0 when it is not set
    InitialMaxBlockProposers,   \* its default and its upper bound
    Signer,                     \* block proposers, numbered
    Score                       \* what one block of a signer adds to the total score

ASSUME IntervalAssumption == CheckpointInterval \in Nat \ {0}
ASSUME ForkAssumption == FINALITY \in Nat
ASSUME ProposersAssumption ==
    /\ MaxBlockProposers \in Nat
    /\ InitialMaxBlockProposers \in Nat \ {0}
ASSUME SignerAssumption ==
    /\ Signer \subseteq Nat
    /\ Score \in [Signer -> Nat \ {0}]

Header == [signer : Signer, com : BOOLEAN]

BlockID == Seq(Header)

Genesis == << >>

Number(id) == Len(id)

ParentID(id) == SubSeq(id, 1, Len(id) - 1)

\* Chain.GetBlockID: the block with the given number on the chain of head.
GetBlockID(head, num) == SubSeq(head, 1, num)

\* Chain.HasBlock: whether the chain of head includes the block id.
HasBlock(head, id) == Len(id) <= Len(head) /\ GetBlockID(head, Len(id)) = id

Conflicting(a, b) == ~HasBlock(a, b) /\ ~HasBlock(b, a)

TotalScore(id) == MapThenSumSet(LAMBDA num : Score[id[num].signer], 1 .. Len(id))

\* An ID starts with the block number, and hashes are ordered arbitrarily.
Rank(h) == 2 * h.signer + (IF h.com THEN 1 ELSE 0)
SmallerID(a, b) ==
    \/ Len(a) < Len(b)
    \/ /\ Len(a) = Len(b)
       /\ \E i \in 1 .. Len(a) : /\ SubSeq(a, 1, i - 1) = SubSeq(b, 1, i - 1)
                                 /\ Rank(a[i]) < Rank(b[i])

BetterThan(a, b) ==
    \/ TotalScore(a) > TotalScore(b)
    \/ TotalScore(a) = TotalScore(b) /\ SmallerID(a, b)

-----------------------------------------------------------------------------
(* Rounds *)

GetCheckPoint(num) == (num \div CheckpointInterval) * CheckpointInterval

GetStorePoint(num) == GetCheckPoint(num) + CheckpointInterval - 1

AbsRound(num) == num \div CheckpointInterval - FINALITY \div CheckpointInterval

\* getMaxBlockProposers, and the threshold newJustifier derives from it.
Threshold ==
    LET mbp == IF MaxBlockProposers = 0 \/ MaxBlockProposers > InitialMaxBlockProposers
               THEN InitialMaxBlockProposers ELSE MaxBlockProposers
    IN  (mbp * 2) \div 3

-----------------------------------------------------------------------------
(* Votes of the round that a block belongs to *)

\* The genesis block has no signer: Header.Signer returns the zero address.
ZeroAddress == -1
SignerOf(id, num) == IF num = 0 THEN ZeroAddress ELSE id[num].signer
ComOf(id, num) == num # 0 /\ id[num].com

\* The blocks computeState walks through, from id back to its checkpoint.
RoundBlocks(id) ==
    {num \in GetCheckPoint(Len(id)) .. Len(id) : num >= FINALITY}

Votes(id) == {SignerOf(id, num) : num \in RoundBlocks(id)}

\* One that votes both COM and non-COM in a round counts as non-COM.
ComVotes(id) ==
    {s \in Votes(id) : \A num \in RoundBlocks(id) : SignerOf(id, num) = s => ComOf(id, num)}

GetQuality(saved, id) == IF id \in DOMAIN saved THEN saved[id] ELSE 0

\* Mutant: the quality is read at the checkpoint instead of the block before it.
ParentQualityAtCheckPoint(saved, id) ==
    IF AbsRound(Len(id)) = 0 THEN 0
    ELSE GetQuality(saved, GetBlockID(id, GetCheckPoint(Len(id))))

\* newJustifier: the quality saved at the end of the round before.
ParentQuality(saved, id) ==
    IF AbsRound(Len(id)) = 0 THEN 0
    ELSE GetQuality(saved, GetBlockID(id, GetCheckPoint(Len(id)) - 1))

\* Mutant: the threshold itself is enough.
ComputeStateEarly(saved, id) ==
    LET justified == Cardinality(Votes(id)) >= Threshold
    IN  [quality   |-> ParentQuality(saved, id) + (IF justified THEN 1 ELSE 0),
         justified |-> justified,
         committed |-> Cardinality(ComVotes(id)) > Threshold]

\* computeState on qualities saved at the end of earlier rounds.
ComputeState(saved, id) ==
    IF Len(id) = 0 \/ Len(id) < FINALITY
    THEN [quality |-> 0, justified |-> FALSE, committed |-> FALSE]
    ELSE LET justified == Cardinality(Votes(id)) > Threshold
         IN  [quality   |-> ParentQuality(saved, id) + (IF justified THEN 1 ELSE 0),
              justified |-> justified,
              committed |-> Cardinality(ComVotes(id)) > Threshold]

-----------------------------------------------------------------------------
(* findCheckpointByQuality: sort.Search over the concluded rounds of head. *)
(* The result is a set: empty for the error, else the checkpoint found.    *)

\* sort.Search(n, pred): the smallest index when pred is monotone.
Search(n, pred(_)) ==
    LET find[r \in (0 .. n) \X (0 .. n)] ==
            IF r[1] >= r[2] THEN r[1]
            ELSE LET h == (r[1] + r[2]) \div 2
                 IN  IF pred(h) THEN find[<<r[1], h>>] ELSE find[<<h + 1, r[2]>>]
    IN  find[<<0, n>>]

\* Mutant: the last round is taken, whatever its quality.
FindLastRound(saved, target, finalized, head) ==
    IF Number(head) < CheckpointInterval THEN {} ELSE {GetBlockID(head, GetCheckPoint(Number(head)))}

\* Mutant: the last round is left out of the search.
FindBeforeLastRound(saved, target, finalized, head) ==
    LET start    == IF Number(finalized) = 0 THEN GetCheckPoint(FINALITY) ELSE Number(finalized)
        get(i)   == GetQuality(saved, GetBlockID(head, GetStorePoint(start + i * CheckpointInterval)))
        n        == (Number(head) - start) \div CheckpointInterval
        atLeast(i) == get(i) >= target
        num      == Search(n, atLeast)
    IN  IF Number(head) < start \/ num = n \/ get(num) # target
        THEN {}
        ELSE {GetBlockID(head, start + num * CheckpointInterval)}

\* Mutant: the search starts after the finalized round.
FindAfterFinalized(saved, target, finalized, head) ==
    LET start    == IF Number(finalized) = 0 THEN GetCheckPoint(FINALITY)
                    ELSE Number(finalized) + CheckpointInterval
        get(i)   == GetQuality(saved, GetBlockID(head, GetStorePoint(start + i * CheckpointInterval)))
        n        == (Number(head) - start) \div CheckpointInterval + 1
        atLeast(i) == get(i) >= target
        num      == Search(n, atLeast)
    IN  IF Number(head) < start \/ num = n \/ get(num) # target
        THEN {}
        ELSE {GetBlockID(head, start + num * CheckpointInterval)}

FindCheckpointByQuality(saved, target, finalized, head) ==
    LET start    == IF Number(finalized) = 0 THEN GetCheckPoint(FINALITY) ELSE Number(finalized)
        get(i)   == GetQuality(saved, GetBlockID(head, GetStorePoint(start + i * CheckpointInterval)))
        n        == (Number(head) - start) \div CheckpointInterval + 1
        atLeast(i) == get(i) >= target
        num      == Search(n, atLeast)
    IN  IF Number(head) < start \/ num = n \/ get(num) # target
        THEN {}
        ELSE {GetBlockID(head, start + num * CheckpointInterval)}

=============================================================================
