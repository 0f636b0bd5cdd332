------------------------------ MODULE LogSync ------------------------------
(***************************************************************************)
(* The log database beside the block repository.  A node writes the logs   *)
(* of a new best block before it stores the block (writeLogs, AddBlock),   *)
(* moves them over on a fork, and at startup brings the logs in line with  *)
(* the best block (syncLogDB).                                             *)
(*                                                                         *)
(* A row of the event or transfer table has its sequence number as key:    *)
(* block number, transaction index, log index.  A transaction's logs in a  *)
(* table are one row here.                                                 *)
(***************************************************************************)
EXTENDS Integers, FiniteSets, FiniteSetsExt, Functions

CONSTANTS
    Block, Genesis, Parent, Number,
    LogsOf,         \* of a block: set of <<table, transaction index>>
    Rank,           \* orders the IDs of blocks of one number
    MaxRestarts,    \* bound
    Faults          \* sets of what may happen: "skip": the node is run with --skip-logs;
                    \* "interrupt": it is stopped in syncLogDB; "crash": it dies while
                    \* processing a block; "logs", "block": writing these may fail

ASSUME TreeAssumption ==
    /\ Genesis \in Block /\ Parent \in [Block \ {Genesis} -> Block]
    /\ Number \in [Block -> Nat] /\ Number[Genesis] = 0
    /\ \A b \in Block \ {Genesis} : Number[b] = Number[Parent[b]] + 1
ASSUME LogAssumption == LogsOf \in [Block -> SUBSET ({"event", "transfer"} \X Nat)]

VARIABLES
    stored, best,   \* repository
    rows,           \* log database: the block of each row, by <<number, table, index>>
    phase,          \* "down", "sync" or "running"
    from,           \* syncLogDB: the first block whose logs are not committed
    skipLogs, logDBFailed, workerErr,
    op,             \* the block being processed
    restarts,
    faults          \* what may happen in this behaviour, one of Faults

vars == <<stored, best, rows, phase, from, skipLogs, logDBFailed, workerErr, op, restarts, faults>>
memVars == <<skipLogs, logDBFailed, workerErr>>

-----------------------------------------------------------------------------

Chain[b \in Block] == IF b = Genesis THEN {b} ELSE {b} \cup Chain[Parent[b]]

\* Chain.Exclude: the blocks of one chain that another does not have.
Exclude(b, other) == Chain[b] \ Chain[other]

Keys(b) == {<<Number[b], log[1], log[2]>> : log \in LogsOf[b]}

\* Writer.Truncate.
Truncate(rs, num) == Restrict(rs, {k \in DOMAIN rs : k[1] < num})

\* Writer.Write for blocks of one chain: INSERT OR IGNORE keeps the row that is there.
Write(rs, bs) ==
    LET keys == UNION {Keys(b) : b \in bs}
    IN  [k \in DOMAIN rs \cup keys |->
            IF k \in DOMAIN rs THEN rs[k] ELSE CHOOSE b \in bs : k \in Keys(b)]

\* The logs of the chain of a block; genesis is left out.
Expected(b) == Write(<<>>, Chain[b] \ {Genesis})

\* Mutant: the rows of the first block of the old branch stay.
ClearAbove(rs, old) == IF old = {} THEN rs ELSE Truncate(rs, Min({Number[b] : b \in old}) + 1)
\* writeLogs: the rows once the branch that is left is cleared.
Clear(rs, old) == IF old = {} THEN rs ELSE Truncate(rs, Min({Number[b] : b \in old}))

\* writeLogs: the rows once its transaction is committed.
WithLogs(rs, b) ==
    Write(Clear(rs, Exclude(best, Parent[b])), Exclude(Parent[b], best) \cup {b})

\* LogDB.NewestBlockID: of the last row of each table, the greater ID.
\* Genesis stands for none.
NewestBlockID ==
    LET last(t) == {rows[k] : k \in {k \in DOMAIN rows :
                      k[2] = t /\ \A j \in DOMAIN rows : j[2] = t =>
                                     j[1] < k[1] \/ (j[1] = k[1] /\ j[3] <= k[3])}}
        ids == last("event") \cup last("transfer") \cup {Genesis}
    IN  CHOOSE b \in ids : \A c \in ids :
            Number[c] < Number[b] \/ (Number[c] = Number[b] /\ Rank[c] <= Rank[b])

\* LogDB.HasBlockID looks for a log of the first transaction.
HasBlockID(b) == \E t \in {"event", "transfer"} :
                    LET k == <<Number[b], t, 0>> IN k \in DOMAIN rows /\ rows[k] = b

\* Mutant: the newest block of the logs is taken to be on the best chain.
SeekNewest == Number[NewestBlockID] + 1
\* seekLogDBSyncPosition.
SeekPosition ==
    LET newest == NewestBlockID
        start  == Min({Number[newest], Number[best] - 1})
        logged == {b \in Chain[best] : Number[b] <= start /\ (Number[b] = 0 \/ HasBlockID(b))}
    IN  IF best = Genesis \/ newest = Genesis THEN 0
        ELSE IF newest = best THEN Number[best]
        ELSE Max({Number[b] : b \in logged}) + 1

-----------------------------------------------------------------------------

NoOp == [stage |-> "idle", block |-> Genesis, asBest |-> FALSE]

\* A node with any chain stored, whose logs are those of its best block or missing.
Init ==
    /\ best \in Block /\ stored = Chain[best]
    /\ rows \in {Expected(best), <<>>}
    /\ phase = "down" /\ from = 0
    /\ skipLogs = FALSE /\ logDBFailed = FALSE /\ workerErr = FALSE
    /\ op = NoOp /\ restarts = 0 /\ faults \in Faults

\* The node starts; with logs, syncLogDB comes first.
Start(skip) ==
    /\ phase = "down"
    /\ skipLogs' = skip /\ logDBFailed' = FALSE /\ workerErr' = FALSE
    /\ IF skip \/ SeekPosition = Number[best]
       THEN phase' = "running" /\ from' = 0
       ELSE phase' = "sync" /\ from' = Max({SeekPosition, 1})
    /\ UNCHANGED <<stored, best, rows, op, restarts, faults>>

\* The rows once syncLogDB has committed the blocks up to a number.
Synced(num) == Write(Truncate(rows, from), {b \in Chain[best] : Number[b] \in from .. num})

\* syncLogDB commits now and then, when it is told to stop, and at the end.
SyncTo(num) ==
    /\ phase = "sync" /\ num \in from .. Number[best]
    /\ rows' = Synced(num)
    /\ IF num = Number[best] THEN phase' = "running" /\ from' = 0
                             ELSE phase' = phase /\ from' = num + 1
    /\ UNCHANGED <<stored, best, memVars, op, restarts, faults>>

\* Mutant: a block on top of the best one may lose against it.
ProcessUnranked(b, asBest) ==
    /\ phase = "running" /\ op = NoOp
    /\ b \notin stored /\ Parent[b] \in stored
    /\ op' = [stage |-> IF asBest /\ ~skipLogs /\ ~logDBFailed THEN "logs" ELSE "add",
              block |-> b, asBest |-> asBest]
    /\ UNCHANGED <<stored, best, rows, phase, from, memVars, restarts, faults>>
\* Mutant: no logs are written for a block on a branch.
ProcessBranchUnlogged(b, asBest) ==
    /\ phase = "running" /\ op = NoOp
    /\ b \notin stored /\ Parent[b] \in stored
    /\ Parent[b] = best => asBest
    /\ op' = [stage |-> IF asBest /\ Parent[b] = best THEN "logs" ELSE "add",
              block |-> b, asBest |-> asBest]
    /\ UNCHANGED <<stored, best, rows, phase, from, memVars, restarts, faults>>
\* processBlock or pack, up to the writing of logs: the parent is stored,
\* the engine decides whether the block is the best.  A block on top of the
\* best one is, for it has no lower quality and a higher score.
Process(b, asBest) ==
    /\ phase = "running" /\ op = NoOp
    /\ b \notin stored /\ Parent[b] \in stored
    /\ Parent[b] = best => asBest
    /\ op' = [stage |-> IF asBest /\ ~skipLogs /\ ~logDBFailed THEN "logs" ELSE "add",
              block |-> b, asBest |-> asBest]
    /\ UNCHANGED <<stored, best, rows, phase, from, memVars, restarts, faults>>

\* The worker runs the queued tasks, the last of which commits them; after
\* an error it runs none.
CommitLogs ==
    /\ op.stage = "logs" /\ ~workerErr
    /\ rows' = WithLogs(rows, op.block)
    /\ op' = [op EXCEPT !.stage = "add"]
    /\ UNCHANGED <<stored, best, phase, from, memVars, restarts, faults>>

\* Mutant: the node goes on writing logs.
FailLogsOnce ==
    /\ op.stage = "logs" /\ "logs" \in faults
    /\ op' = [op EXCEPT !.stage = "add"]
    /\ UNCHANGED <<stored, best, rows, phase, from, memVars, restarts, faults>>
\* The worker has an error, which it gives to every Sync from then on.
FailLogs ==
    /\ op.stage = "logs" /\ ("logs" \in faults \/ workerErr)
    /\ workerErr' = TRUE /\ logDBFailed' = TRUE
    /\ op' = [op EXCEPT !.stage = "add"]
    /\ UNCHANGED <<stored, best, rows, phase, from, skipLogs, restarts, faults>>

AddBlock ==
    /\ op.stage = "add"
    /\ stored' = stored \cup {op.block}
    /\ best' = IF op.asBest THEN op.block ELSE best
    /\ op' = NoOp
    /\ UNCHANGED <<rows, phase, from, memVars, restarts, faults>>

\* The state or the block cannot be saved: the block is given up, its logs are not.
Abandon ==
    /\ op.stage = "add" /\ "block" \in faults
    /\ op' = NoOp
    /\ UNCHANGED <<stored, best, rows, phase, from, memVars, restarts, faults>>

\* The node stops; in between the writes of a block only if it crashes.
Stop ==
    /\ phase # "down" /\ restarts < MaxRestarts
    /\ \/ phase = "running" /\ op = NoOp
       \/ phase = "sync" /\ "interrupt" \in faults
       \/ op # NoOp /\ "crash" \in faults
    /\ phase' = "down" /\ from' = 0 /\ op' = NoOp /\ restarts' = restarts + 1
    /\ UNCHANGED <<stored, best, rows, memVars, faults>>

Next ==
    \/ \E skip \in {FALSE, "skip" \in faults} : Start(skip)
    \/ \E num \in {Number[b] : b \in Block} : SyncTo(num)
    \/ \E b \in Block \ {Genesis}, asBest \in BOOLEAN : Process(b, asBest)
    \/ CommitLogs
    \/ FailLogs
    \/ AddBlock
    \/ Abandon
    \/ Stop

Spec == Init /\ [][Next]_vars

-----------------------------------------------------------------------------
(* Properties *)

\* Rows are logs of the block they name; a sync starts at a block of the chain
\* (seekLogDBSyncPosition).
TypeOK ==
    /\ best \in stored /\ stored \subseteq Block
    /\ \A k \in DOMAIN rows : rows[k] \in Block /\ k \in Keys(rows[k])
    /\ phase = "sync" => from \in 1 .. Number[best]
    /\ op.stage \in {"idle", "logs", "add"} /\ op.block \in Block

Settled == phase = "running" /\ op = NoOp /\ ~skipLogs /\ ~logDBFailed

\* Between blocks the log database has exactly the logs of the best chain,
\* whatever forks and restarts there were, as long as nothing fails (writeLogs,
\* syncLogDB).
LogsMatchBest == Settled /\ faults = {} => rows = Expected(best)

\* The log database is that of one chain, without a gap, also when writing to
\* it fails, until the node restarts: no logs are written after those that are
\* missing (worker, logDBFailed).
NoGap ==
    phase = "running" /\ restarts = 0 /\ faults \subseteq {"logs"} =>
        \E b \in stored \cup {op.block} : rows = Expected(b)

\* What verifyLogDBPerBlock demands of every block of the best chain: the
\* rows of its number are its own logs and all of them.
VerifyPasses ==
    Settled => \A b \in Chain[best] \ {Genesis} :
        /\ Keys(b) = {k \in DOMAIN rows : k[1] = Number[b]}
        /\ \A k \in Keys(b) : rows[k] = b
=============================================================================
