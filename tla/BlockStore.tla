----------------------------- MODULE BlockStore -----------------------------
(***************************************************************************)
(* The block store of a node: chain.Repository and the part of node.Node   *)
(* that feeds it (guardBlockProcessing, processBlock, pack).               *)
(*                                                                         *)
(* The state trie, the index trie, the transactions and the receipts of a  *)
(* block are all stored under the version <<number, conflicts>>, where     *)
(* conflicts counts the blocks of that number stored before it.  Nothing   *)
(* in the database checks that a version is used by one block only: it is  *)
(* the business of guardBlockProcessing, under a lock that three           *)
(* goroutines compete for, across failed blocks and crashes.               *)
(***************************************************************************)
EXTENDS Integers, FiniteSets

CONSTANTS
    Block,      \* block IDs
    Genesis,
    Parent,     \* Header.ParentID, for every block but Genesis
    Number,     \* Header.Number
    Tx,         \* transaction IDs
    TxsOf,      \* the transactions of a block
    Goroutine,  \* those that process blocks: sync, house keeping, packer
    NoOne       \* nobody holds the lock

ASSUME BlockAssumption ==
    /\ Genesis \in Block
    /\ Parent \in [Block \ {Genesis} -> Block]
    /\ Number \in [Block -> Nat]
    /\ Number[Genesis] = 0
    /\ \A b \in Block \ {Genesis} : Number[b] = Number[Parent[b]] + 1
ASSUME TxAssumption == TxsOf \in [Block -> SUBSET Tx] /\ TxsOf[Genesis] = {}
ASSUME GoroutineAssumption == NoOne \notin Goroutine

VARIABLES
    conflicts,  \* disk (chain.hdr): BlockSummary.Conflicts of each stored block
    index,      \* disk (index trie): block ID by number, for each version
    state,      \* disk (state trie): the block whose state a version holds
    bodies,     \* disk (chain.body): the block whose txs and receipts it holds
    txIndex,    \* disk (chain.txi): <<tx, version>>
    heads,      \* disk (chain.heads)
    bestKey,    \* disk (chain.props): best-block-id
    bestSummary,\* memory: Repository.bestSummary
    maxBlockNum,\* memory: Node.maxBlockNum
    lock,       \* memory: holder of Node.processLock
    op          \* memory: what each goroutine is doing

diskVars == <<conflicts, index, state, bodies, txIndex, heads, bestKey>>
memVars  == <<bestSummary, maxBlockNum, lock, op>>
vars     == <<diskVars, memVars>>

Stored == DOMAIN conflicts

Version(b) == <<Number[b], conflicts[b]>>

Put(f, key, val) == [k \in DOMAIN f \cup {key} |-> IF k = key THEN val ELSE f[k]]

\* Repository.ScanConflicts: the count of saved blocks with the given number.
SameNumber(num) == {b \in Stored : Number[b] = num}
\* Mutant: only the leaves are counted.
ScanHeadsOnly(num) == Cardinality(SameNumber(num) \cap heads)
ScanConflicts(num) == Cardinality(SameNumber(num))

\* Repository.GetMaxBlockNum.
IsMaxBlockNum(num) ==
    /\ \E b \in Stored : Number[b] = num
    /\ \A b \in Stored : Number[b] <= num

Stages == {"idle", "guarded", "validated", "committed", "indexed", "saved"}
Op == [stage : Stages, block : Block, conflicts : Nat, asBest : BOOLEAN]
Idle == [stage |-> "idle", block |-> Genesis, conflicts |-> 0, asBest |-> FALSE]

\* NewRepository on an empty database: index, then save, the genesis block.
Init ==
    /\ conflicts = [b \in {Genesis} |-> 0]
    /\ index = [v \in {<<0, 0>>} |-> [n \in 0 .. 0 |-> Genesis]]
    /\ state = [v \in {<<0, 0>>} |-> Genesis]
    /\ bodies = [v \in {<<0, 0>>} |-> Genesis]
    /\ txIndex = {}
    /\ heads = {Genesis}
    /\ bestKey = Genesis
    /\ bestSummary = Genesis
    /\ maxBlockNum = 0
    /\ lock = NoOne
    /\ op = [g \in Goroutine |-> Idle]

-----------------------------------------------------------------------------

To(g, stage) == op' = [op EXCEPT ![g].stage = stage]

OpVersion(g) == <<Number[op[g].block], op[g].conflicts>>

\* Mutant: two goroutines get through the lock.
GuardUnlocked(g, b) ==
    /\ op[g] = Idle
    /\ Number[b] <= maxBlockNum + 1
    /\ lock' = g
    /\ maxBlockNum' = IF Number[b] > maxBlockNum THEN Number[b] ELSE maxBlockNum
    /\ op' = [op EXCEPT ![g] =
                [stage     |-> "guarded",
                 block     |-> b,
                 conflicts |-> IF Number[b] > maxBlockNum THEN 0 ELSE ScanConflicts(Number[b]),
                 asBest    |-> FALSE]]
    /\ UNCHANGED <<diskVars, bestSummary>>

\* guardBlockProcessing, up to the call of process.  A block above
\* maxBlockNum + 1 is sent back at once and changes nothing.
Guard(g, b) ==
    /\ lock = NoOne
    /\ Number[b] <= maxBlockNum + 1
    /\ lock' = g
    /\ maxBlockNum' = IF Number[b] > maxBlockNum THEN Number[b] ELSE maxBlockNum
    /\ op' = [op EXCEPT ![g] =
                [stage     |-> "guarded",
                 block     |-> b,
                 conflicts |-> IF Number[b] > maxBlockNum THEN 0 ELSE ScanConflicts(Number[b]),
                 asBest    |-> FALSE]]
    /\ UNCHANGED <<diskVars, bestSummary>>

Release(g) ==
    /\ lock' = NoOne
    /\ op' = [op EXCEPT ![g] = Idle]

\* An early return of processBlock or pack: a known block, a missing parent, a
\* block that finality or consensus rejects or that fails to pack; after the
\* checks, an error of the database.  What was written stays, and so does
\* maxBlockNum.
Fail(g) ==
    /\ op[g].stage \in {"guarded", "validated", "committed", "indexed"}
    /\ Release(g)
    /\ UNCHANGED <<diskVars, bestSummary, maxBlockNum>>

\* Mutant: a known block is processed again.
ValidateKnown(g) ==
    /\ op[g].stage = "guarded"
    /\ op[g].block # Genesis /\ Parent[op[g].block] \in Stored
    /\ \E asBest \in BOOLEAN :
          op' = [op EXCEPT ![g].stage = "validated", ![g].asBest = asBest]
    /\ UNCHANGED <<diskVars, bestSummary, maxBlockNum, lock>>

\* The checks of processBlock.  The look-up of a known block is skipped when
\* there are no conflicts.  (pack has no such check: its block is new.)
Validate(g) ==
    /\ op[g].stage = "guarded"
    /\ op[g].conflicts > 0 => op[g].block \notin Stored
    /\ op[g].block # Genesis /\ Parent[op[g].block] \in Stored
    /\ \E asBest \in BOOLEAN :
          op' = [op EXCEPT ![g].stage = "validated", ![g].asBest = asBest]
    /\ UNCHANGED <<diskVars, bestSummary, maxBlockNum, lock>>

\* stage.Commit: the state trie nodes, under the new version.
CommitState(g) ==
    /\ op[g].stage = "validated"
    /\ state' = Put(state, OpVersion(g), op[g].block)
    /\ To(g, "committed")
    /\ UNCHANGED <<conflicts, index, bodies, txIndex, heads, bestKey,
                   bestSummary, maxBlockNum, lock>>

\* Mutant: the best block's index is extended instead of the parent's.
IndexOnBest(g) ==
    /\ op[g].stage = "committed"
    /\ LET b == op[g].block
       IN  index' = Put(index, OpVersion(g), Put(index[Version(bestSummary)], Number[b], b))
    /\ To(g, "indexed")
    /\ UNCHANGED <<conflicts, state, bodies, txIndex, heads, bestKey,
                   bestSummary, maxBlockNum, lock>>

\* Repository.indexBlock: the parent's index, extended by the new block.
IndexBlock(g) ==
    /\ op[g].stage = "committed"
    /\ LET b == op[g].block
       IN  index' = Put(index, OpVersion(g), Put(index[Version(Parent[b])], Number[b], b))
    /\ To(g, "indexed")
    /\ UNCHANGED <<conflicts, state, bodies, txIndex, heads, bestKey,
                   bestSummary, maxBlockNum, lock>>

\* Mutant: the parent stays a head.
HeadsKeepParent(b) == heads \cup {b}
\* indexChainHead.
IndexChainHead(b) == (heads \ {Parent[b]}) \cup {b}

\* Repository.saveBlock, up to the write of the bulk.
SaveBlock(g) ==
    /\ op[g].stage = "indexed"
    /\ LET b == op[g].block
       IN  /\ conflicts' = Put(conflicts, b, op[g].conflicts)
           /\ bodies' = Put(bodies, OpVersion(g), b)
           /\ txIndex' = txIndex \cup {<<tx, OpVersion(g)>> : tx \in TxsOf[b]}
           /\ heads' = IndexChainHead(b)
           /\ bestKey' = IF op[g].asBest THEN b ELSE bestKey
    /\ To(g, "saved")
    /\ UNCHANGED <<index, state, bestSummary, maxBlockNum, lock>>

\* The end of saveBlock: the new best block is published, the lock released.
Publish(g) ==
    /\ op[g].stage = "saved"
    /\ bestSummary' = IF op[g].asBest THEN op[g].block ELSE bestSummary
    /\ Release(g)
    /\ UNCHANGED <<diskVars, maxBlockNum>>

\* The process dies and starts again (NewRepository, Node.Run).
Crash ==
    /\ bestSummary' = bestKey
    /\ \E num \in {Number[b] : b \in Stored} : IsMaxBlockNum(num) /\ maxBlockNum' = num
    /\ lock' = NoOne
    /\ op' = [g \in Goroutine |-> Idle]
    /\ UNCHANGED diskVars

Next ==
    \/ \E g \in Goroutine :
          \/ \E b \in Block : Guard(g, b)
          \/ Fail(g)
          \/ Validate(g)
          \/ CommitState(g)
          \/ IndexBlock(g)
          \/ SaveBlock(g)
          \/ Publish(g)
    \/ Crash

Spec == Init /\ [][Next]_vars

-----------------------------------------------------------------------------
(* Reading a chain *)

\* Chain.GetBlockID, for a number not above the head's.
GetBlockID(head, num) == index[Version(head)][num]

\* Chain.HasBlock.
HasBlock(head, b) ==
    Number[b] \in DOMAIN index[Version(head)] /\ GetBlockID(head, Number[b]) = b

\* Mutant: the conflicts of the block are not compared.
MetaOfAnyFork(head, tx) ==
    {v \in {e[2] : e \in {x \in txIndex : x[1] = tx}} : v[1] <= Number[head]}

\* Chain.GetTransactionMeta: the versions found for tx on the chain of head.
GetTransactionMeta(head, tx) ==
    {v \in {e[2] : e \in {x \in txIndex : x[1] = tx}} :
        v[1] <= Number[head] /\ conflicts[GetBlockID(head, v[1])] = v[2]}

-----------------------------------------------------------------------------
(* Properties *)

Function(f) == f = [x \in DOMAIN f |-> f[x]]

\* Type invariant of the stores and of the goroutines' progress.
TypeOK ==
    /\ Function(conflicts) /\ Stored \subseteq Block /\ \A b \in Stored : conflicts[b] \in Nat
    /\ Function(index)
    /\ \A v \in DOMAIN index : Function(index[v]) /\ \A n \in DOMAIN index[v] : index[v][n] \in Block
    /\ Function(state) /\ \A v \in DOMAIN state : state[v] \in Block
    /\ Function(bodies) /\ \A v \in DOMAIN bodies : bodies[v] \in Block
    /\ heads \subseteq Block
    /\ bestKey \in Stored /\ bestSummary \in Stored
    /\ maxBlockNum \in Nat
    /\ lock \in Goroutine \cup {NoOne}
    /\ op \in [Goroutine -> Op]

\* A version belongs to one stored block, whatever forks, failures and
\* crashes came before it (guardBlockProcessing, ScanConflicts).
VersionsUnique ==
    \A a, b \in Stored : Version(a) = Version(b) => a = b

\* The index of every stored block is the path from Genesis to it: an index
\* once saved is never overwritten by another block's (indexBlock).
IndexIsPath ==
    \A b \in Stored :
        /\ Version(b) \in DOMAIN index
        /\ DOMAIN index[Version(b)] = 0 .. Number[b]
        /\ GetBlockID(b, 0) = Genesis /\ GetBlockID(b, Number[b]) = b
        /\ \A n \in 1 .. Number[b] :
              GetBlockID(b, n) # Genesis /\ Parent[GetBlockID(b, n)] = GetBlockID(b, n - 1)

\* State, transactions and receipts read back for a stored block are its own.
DataIsOwn ==
    \A b \in Stored :
        /\ Version(b) \in DOMAIN state /\ state[Version(b)] = b
        /\ Version(b) \in DOMAIN bodies /\ bodies[Version(b)] = b

\* chain.heads holds the leaves of the tree of stored blocks (indexChainHead).
HeadsAreLeaves ==
    heads = {b \in Stored : \A c \in Stored \ {Genesis} : Parent[c] # b}

\* A transaction is found on a chain exactly when one of the chain's blocks
\* has it, and the body it is read from is that block's (GetTransactionMeta).
TxLookupExact ==
    \A head \in Stored, tx \in Tx :
        {bodies[v] : v \in GetTransactionMeta(head, tx)}
            = {b \in Stored : HasBlock(head, b) /\ tx \in TxsOf[b]}

\* A stored block stays, with the conflicts it was saved with.
StoredStays ==
    [][\A b \in Stored : b \in Stored' /\ conflicts'[b] = conflicts[b]]_vars

\* The store implements the tree of blocks that the rest of the node sees.
Tree == INSTANCE BlockTree WITH blocks <- Stored, best <- bestKey
ImplementsTree == Tree!Spec
=============================================================================
