------------------------------- MODULE TxPool -------------------------------
(***************************************************************************)
(* The transaction pool (txpool/): goroutines that add transactions, the   *)
(* packer that removes the ones it could not adopt, and the housekeeping   *)
(* goroutine that washes the pool once a second.                           *)
(*                                                                         *)
(* txObjectMap locks each operation by itself.  Between the snapshot a     *)
(* wash works on and the removals it ends with, the pool may change; and   *)
(* the wash writes to the shared transaction objects without a lock.       *)
(***************************************************************************)
EXTENDS Integers, FiniteSets, FiniteSetsExt, Functions

CONSTANTS
    Tx,             \* transactions, by hash
    ID,             \* of a transaction; one transaction signed by two delegators has it twice
    Account,
    Origin,         \* of a transaction
    Delegator,      \* of a transaction: a set, empty or one account
    Payer, Cost,    \* of a transaction, as BuyGas finds them
    Price,          \* overall gas price of a transaction
    Energy,         \* of an account
    SmallPool,      \* 200 in the code
    Adder,          \* goroutines that add transactions
    Scenarios       \* options and environments, see Scenario

ASSUME TxAssumption ==
    /\ IsFiniteSet(Tx)
    /\ Origin \in [Tx -> Account] /\ Payer \in [Tx -> Account]
    /\ Delegator \in [Tx -> SUBSET Account]
    /\ \A tx \in Tx : IsFiniteSet(Delegator[tx]) /\ Cardinality(Delegator[tx]) <= 1
    /\ Cost \in [Tx -> Nat] /\ Price \in [Tx -> Nat] /\ Energy \in [Account -> Nat]

\* What Executable says of a transaction.
Status == {"ready", "waiting", "bad"}

\* Options, what may happen around the pool, and bounds.
Scenario ==
    [Limit : Nat \ {0}, LimitPerAccount : Nat,
     Txs : SUBSET Tx, Adders : SUBSET Adder,    \* bound: those that are around
     Verdicts : SUBSET Status,                  \* bound: what heads make of them
     MaxGen : Nat,          \* bound: objects ever pooled for one transaction
     MaxHeads : Nat,        \* bound: head blocks after the first
     MaxFill : Nat,         \* bound: transactions in the stash
     MaxFailures : Nat,     \* bound: washes that fail
     Packs : BOOLEAN,       \* whether the node packs blocks
     FallsBehind : BOOLEAN, \* whether the node may get behind the chain
     Blocks : BOOLEAN]      \* whether the block list changes

ASSUME ScenarioAssumption == Scenarios \subseteq Scenario /\ SmallPool \in Nat

VARIABLES
    byHash, byID, quota, cost, \* txObjectMap (no entry in quota or cost: 0)
    objs,           \* the objects ever pooled: <<tx, 1>>, <<tx, 2>>, ...
    executables,    \* TxPool.executables
    addedAfterWash, \* whether the counter of that name is above 0
    adding,         \* what each adder is doing
    wash,           \* what the housekeeping goroutine is doing
    packing,        \* the transactions the packer is working on
    head,           \* number of the head block
    status,         \* what Executable says of a transaction on the head block
    synced,         \* isChainSynced of the head block
    blocked,        \* the block list
    filled,         \* whether the stash has been loaded
    failures,       \* washes that failed
    opt             \* the scenario, one of Scenarios

mapVars  == <<byHash, byID, quota, cost>>
poolVars == <<mapVars, objs, executables, addedAfterWash>>
envVars  == <<head, status, synced, blocked, filled, failures, opt>>
vars     == <<poolVars, adding, wash, packing, envVars>>

Pooled == DOMAIN byHash
PoolLen == Cardinality(Pooled)

\* How many of the transactions S count against the quota of an account.
Uses(S, a) == Cardinality({tx \in S : Origin[tx] = a}) + Cardinality({tx \in S : a \in Delegator[tx]})

\* The object the next call makes for a transaction.
Fresh(tx) == <<tx, Cardinality({o \in DOMAIN objs : o[1] = tx}) + 1>>

-----------------------------------------------------------------------------
(* txObjectMap *)

\* The writes of txObjectMap.Add (one transaction) and of Fill (several; last
\* tells which of those with an ID came last).  Only Add counts the cost.
Link(S, last, obj) ==
    /\ objs' = [o \in DOMAIN objs \cup {Fresh(tx) : tx \in S} |->
                  IF o \in DOMAIN objs THEN objs[o] ELSE obj]
    /\ byHash' = [tx \in Pooled \cup S |-> IF tx \in S THEN Fresh(tx) ELSE byHash[tx]]
    /\ byID' = [i \in DOMAIN byID \cup DOMAIN last |->
                  IF i \in DOMAIN last THEN Fresh(last[i]) ELSE byID[i]]
    /\ quota' = [a \in Account |-> quota[a] + Uses(S, a)]

\* The conditions of txObjectMap.Add for a transaction that is not there;
\* without a cost, or when the chain is not synced, the payer is not checked.
Admits(tx, counted) ==
    /\ \A a \in {Origin[tx]} \cup Delegator[tx] : quota[a] < opt.LimitPerAccount
    /\ counted => cost[Payer[tx]] + Cost[tx] <= Energy[Payer[tx]]

Remaining(n, k) == IF n > k THEN n - k ELSE 0

\* Mutant: the delegator's quota is not given back.
RemoveOrigin(tx) ==
    IF tx \notin Pooled THEN UNCHANGED mapVars
    ELSE /\ byHash' = Restrict(byHash, Pooled \ {tx})
         /\ byID' = Restrict(byID, DOMAIN byID \ {ID[tx]})
         /\ quota' = [quota EXCEPT ![Origin[tx]] = Remaining(@, 1)]
         /\ UNCHANGED cost
\* txObjectMap.RemoveByHash: it takes the object stored under the hash now,
\* and drops the entry of the ID whichever transaction that is.
RemoveByHash(tx) ==
    IF tx \notin Pooled THEN UNCHANGED mapVars
    ELSE /\ byHash' = Restrict(byHash, Pooled \ {tx})
         /\ byID' = Restrict(byID, DOMAIN byID \ {ID[tx]})
         /\ quota' = [a \in Account |-> Remaining(quota[a], Uses({tx}, a))]
         /\ cost' = IF objs[byHash[tx]].costed
                    THEN [cost EXCEPT ![Payer[tx]] = Remaining(@, Cost[tx])] ELSE cost

-----------------------------------------------------------------------------

Idle == [stage |-> "idle"]
AtRest(h) == [stage |-> "idle", head |-> h, view |-> <<>>, snap |-> {},
              toRemove |-> {}, toUpdate |-> {}, result |-> {}]

\* What the next head may make of the transactions around.
Statuses == {s \in [Tx -> Status] : \A tx \in Tx : s[tx] \in IF tx \in opt.Txs THEN opt.Verdicts ELSE {"bad"}}

\* New.
Init ==
    /\ byHash = <<>> /\ byID = <<>> /\ objs = <<>>
    /\ quota = [a \in Account |-> 0] /\ cost = [a \in Account |-> 0]
    /\ executables = {} /\ addedAfterWash = FALSE
    /\ adding = [a \in Adder |-> Idle]
    /\ wash = AtRest(0)
    /\ packing = {}
    /\ opt \in Scenarios
    /\ head = 0 /\ status \in Statuses
    /\ synced \in {~opt.FallsBehind, TRUE}
    /\ blocked = {} /\ filled = FALSE /\ failures = 0

FullLimit == (opt.Limit * 12) \div 10
NonExecutableLimit == (opt.Limit * 2) \div 10

\* Mutant: the size of the pool is not looked at.
RoomAlways(tx, local) == TRUE
\* The limits of TxPool.add.
Room(tx, local) ==
    IF synced
    THEN /\ ~local => PoolLen < FullLimit
         /\ status[tx] = "waiting" => PoolLen - Cardinality(executables) < NonExecutableLimit
    ELSE PoolLen < opt.Limit

\* TxPool.add up to txObjectMap.Add.  Add is neither local nor strict,
\* AddLocal is local, StrictlyAdd is strict.  A transaction that is pooled,
\* blocked or rejected changes nothing.
Check(a, tx, local, strict) ==
    /\ adding[a].stage = "idle" /\ ~(local /\ strict)
    /\ Cardinality({o \in DOMAIN objs : o[1] = tx}) < opt.MaxGen
    /\ tx \notin Pooled /\ Origin[tx] \notin blocked
    /\ synced => status[tx] # "bad" /\ (strict => status[tx] = "ready")
    /\ Room(tx, local)
    /\ adding' = [adding EXCEPT ![a] = [stage |-> "insert", tx |-> tx, local |-> local,
                                        executable |-> synced /\ status[tx] = "ready"]]
    /\ UNCHANGED <<poolVars, wash, packing, envVars>>

\* txObjectMap.Add: the transaction is there, is rejected, or is linked.
Insert(a) ==
    LET tx == adding[a].tx  counted == adding[a].executable
    IN  /\ adding[a].stage = "insert"
        /\ IF tx \in Pooled \/ ~Admits(tx, counted)
           THEN UNCHANGED <<mapVars, objs>>
           ELSE /\ Link({tx}, [i \in {ID[tx]} |-> tx],
                        [local |-> adding[a].local, executable |-> counted, costed |-> counted])
                /\ cost' = IF counted THEN [cost EXCEPT ![Payer[tx]] = @ + Cost[tx]] ELSE cost
        /\ adding' = [adding EXCEPT ![a] =
                        IF tx \in Pooled \/ Admits(tx, counted) THEN [stage |-> "count"] ELSE Idle]
        /\ UNCHANGED <<executables, addedAfterWash, wash, packing, envVars>>

\* The end of add: addedAfterWash is incremented.
CountAdded(a) ==
    /\ adding[a].stage = "count"
    /\ addedAfterWash' = TRUE
    /\ adding' = [adding EXCEPT ![a] = Idle]
    /\ UNCHANGED <<mapVars, objs, executables, wash, packing, envVars>>

\* Fill: the stashed transactions at the start of txStashLoop, none checked.
Fill(S) ==
    LET new == {tx \in S : tx \notin Pooled /\ Origin[tx] \notin blocked}
    IN  /\ ~filled
        /\ \A tx \in new : Cardinality({o \in DOMAIN objs : o[1] = tx}) < opt.MaxGen
        /\ \E last \in [{ID[tx] : tx \in new} -> new] :
              /\ \A i \in DOMAIN last : ID[last[i]] = i
              /\ Link(new, last, [local |-> FALSE, executable |-> FALSE, costed |-> FALSE])
        /\ filled' = TRUE
        /\ UNCHANGED <<cost, executables, addedAfterWash, adding, wash, packing,
                       head, status, synced, blocked, failures, opt>>

\* Node.pack takes the executables, and removes the ones it cannot adopt.
PackStart ==
    /\ opt.Packs /\ packing # executables
    /\ packing' = executables
    /\ UNCHANGED <<poolVars, adding, wash, envVars>>

Remove(tx) ==
    /\ tx \in packing
    /\ RemoveByHash(tx)
    /\ packing' = packing \ {tx}
    /\ UNCHANGED <<objs, executables, addedAfterWash, adding, wash, envVars>>

-----------------------------------------------------------------------------
(* Housekeeping *)

\* One tick of the loop, up to wash: when the chain is not synced, the new
\* head is taken note of and nothing else happens.
Tick ==
    /\ wash.stage = "idle"
    /\ \/ /\ ~synced /\ wash.head # head
          /\ wash' = AtRest(head)
          /\ UNCHANGED addedAfterWash
       \/ /\ synced
          /\ wash.head # head \/ PoolLen > opt.Limit \/ (PoolLen < SmallPool /\ addedAfterWash)
          /\ addedAfterWash' = FALSE
          /\ wash' = [AtRest(head) EXCEPT !.stage = "snapshot", !.view = status]
    /\ UNCHANGED <<mapVars, objs, executables, adding, packing, envVars>>

\* The beginning of wash: ToTxObjects.
Snapshot ==
    /\ wash.stage = "snapshot"
    /\ wash' = [wash EXCEPT !.stage = "evaluate", !.snap = {byHash[tx] : tx \in Pooled}]
    /\ UNCHANGED <<poolVars, adding, packing, envVars>>

\* Mutant: executables are not cut to the limit.
DropsNonExecutable(exec, nonExec) == {nonExec}
\* What a wash drops over the limits: the cheapest executables and any of
\* the others (the snapshot is in the order of a Go map).
Drops(exec, nonExec) ==
    LET e == Cardinality(exec)  n == Cardinality(nonExec)
        over == IF e > opt.Limit THEN n
                ELSE IF e + n > opt.Limit THEN n - (opt.Limit - e)
                ELSE Remaining(n, NonExecutableLimit)
    IN  {x \cup y : x \in {x \in kSubset(Remaining(e, opt.Limit), exec) :
                              \A o \in x, p \in exec \ x : Price[o[1]] <= Price[p[1]]},
                    y \in kSubset(over, nonExec)}

\* The body of wash: the objects of the snapshot are judged on the head of
\* the tick; old are out of lifetime.  An object found executable gets payer
\* and cost at once; it is marked executable only if it is kept.
Evaluate ==
    /\ wash.stage = "evaluate"
    /\ \E old \in SUBSET {o \in wash.snap : ~objs[o].local} :
         LET out    == {o \in wash.snap : \/ o \in old \/ Origin[o[1]] \in blocked
                                          \/ wash.view[o[1]] = "bad"}
             ready  == {o \in wash.snap \ out : wash.view[o[1]] = "ready"}
             remote == {o \in wash.snap \ out : ~objs[o].local}
         IN  \E d \in Drops(ready \cap remote, remote \ ready) :
               /\ objs' = [o \in DOMAIN objs |->
                             [objs[o] EXCEPT !.costed = @ \/ o \in ready,
                                             !.executable = @ \/ o \in ready \ d]]
               /\ wash' = [wash EXCEPT !.stage = "finish", !.view = <<>>,
                             !.toRemove = {o[1] : o \in out \cup d},
                             !.toUpdate = {o \in ready \ d : ~objs[o].executable},
                             !.result = {o[1] : o \in ready \ d}]
    /\ UNCHANGED <<mapVars, executables, addedAfterWash, adding, packing, envVars>>

\* The base gas price cannot be read: the pool is cut to the limit, and the
\* executables stay as they are.
WashFails ==
    /\ wash.stage = "evaluate" /\ failures < opt.MaxFailures
    /\ failures' = failures + 1
    /\ \E d \in kSubset(Remaining(Cardinality(wash.snap), opt.Limit), wash.snap) :
          wash' = [wash EXCEPT !.stage = "finish", !.view = <<>>, !.toRemove = {o[1] : o \in d},
                               !.result = executables]
    /\ UNCHANGED <<poolVars, adding, packing, head, status, synced, blocked, filled, opt>>

\* The deferred end of wash: the removals, then the new costs, one at a time.
WashRemove ==
    /\ wash.stage = "finish"
    /\ \E tx \in wash.toRemove :
          /\ RemoveByHash(tx)
          /\ wash' = [wash EXCEPT !.toRemove = @ \ {tx}]
    /\ UNCHANGED <<objs, executables, addedAfterWash, adding, packing, envVars>>

\* Mutant: the cost of a transaction that became executable is not counted.
UpdateNothing ==
    /\ wash.stage = "finish" /\ wash.toRemove = {} /\ wash.toUpdate # {}
    /\ wash' = [wash EXCEPT !.toUpdate = {}]
    /\ UNCHANGED <<poolVars, adding, packing, envVars>>
\* UpdatePendingCost: the object may have left the pool meanwhile.
WashUpdate ==
    /\ wash.stage = "finish" /\ wash.toRemove = {}
    /\ \E o \in wash.toUpdate :
          /\ cost' = [cost EXCEPT ![Payer[o[1]]] = @ + Cost[o[1]]]
          /\ wash' = [wash EXCEPT !.toUpdate = @ \ {o}]
    /\ UNCHANGED <<byHash, byID, quota, objs, executables, addedAfterWash, adding, packing, envVars>>

\* Mutant: the counter is reset when the wash is done.
DoneThenReset ==
    /\ wash.stage = "finish" /\ wash.toRemove = {} /\ wash.toUpdate = {}
    /\ executables' = wash.result
    /\ wash' = AtRest(wash.head)
    /\ addedAfterWash' = FALSE
    /\ UNCHANGED <<mapVars, objs, adding, packing, envVars>>
\* The end of the tick: the executables are published.
WashDone ==
    /\ wash.stage = "finish" /\ wash.toRemove = {} /\ wash.toUpdate = {}
    /\ executables' = wash.result
    /\ wash' = AtRest(wash.head)
    /\ UNCHANGED <<mapVars, objs, addedAfterWash, adding, packing, envVars>>

-----------------------------------------------------------------------------
(* New head blocks, time, the block list *)

\* Another best block: what is executable may change in any way.
NewHead ==
    /\ head < opt.MaxHeads
    /\ head' = head + 1
    /\ status' \in Statuses
    /\ synced' \in {~opt.FallsBehind, TRUE}
    /\ UNCHANGED <<poolVars, adding, wash, packing, blocked, filled, failures, opt>>

\* A minute without a new head; only a new head ends it, for a block from
\* the future is not processed.
FallBehind ==
    /\ opt.FallsBehind /\ synced
    /\ synced' = FALSE
    /\ UNCHANGED <<poolVars, adding, wash, packing, head, status, blocked, filled, failures, opt>>

\* blocklist.Load or Fetch replaces the list.
FetchBlocklist ==
    /\ opt.Blocks /\ blocked = {}
    /\ \E a \in Account : blocked' = {a}
    /\ UNCHANGED <<poolVars, adding, wash, packing, head, status, synced, filled, failures, opt>>

Housekeeping == Tick \/ Snapshot \/ Evaluate \/ WashFails \/ WashRemove \/ WashUpdate \/ WashDone

Next ==
    \/ \E a \in opt.Adders : \/ \E tx \in opt.Txs, local, strict \in BOOLEAN :
                                   Check(a, tx, local, strict)
                             \/ Insert(a)
                             \/ CountAdded(a)
    \/ \E S \in SUBSET opt.Txs : Cardinality(S) \in 1 .. opt.MaxFill /\ Fill(S)
    \/ PackStart
    \/ \E tx \in Tx : Remove(tx)
    \/ Tick
    \/ Snapshot
    \/ Evaluate
    \/ WashFails
    \/ WashRemove
    \/ WashUpdate
    \/ WashDone
    \/ NewHead
    \/ FallBehind
    \/ FetchBlocklist

Spec == Init /\ [][Next]_vars

\* The housekeeping goroutine and a started add keep running.
FairSpec == Spec /\ WF_vars(Housekeeping) /\ \A a \in Adder : WF_vars(Insert(a) \/ CountAdded(a))

-----------------------------------------------------------------------------
(* Properties *)

\* The quota of an account is the number of pooled transactions it sent or
\* delegates: whatever adds, fills, washes and removals overlap, none is
\* counted twice or given back twice (Add, Fill, RemoveByHash).
QuotaIsCount == \A a \in Account : quota[a] = Uses(Pooled, a)

\* Transactions from the network exceed the 120% of the limit at most by the
\* adds that were checked together, as the check and Add are not atomic (add).
RemoteBounded ==
    Cardinality({tx \in Pooled : ~objs[byHash[tx]].local})
        <= FullLimit + Cardinality(opt.Adders) - 1 + (IF filled THEN opt.MaxFill ELSE 0)

\* A wash that evaluated the pool leaves at most the limit of the remote
\* objects it looked at, although the pool was changing meanwhile (wash).
WashCutsToLimit ==
    wash.stage = "finish" /\ wash.toRemove = {} =>
        Cardinality({tx \in Pooled : byHash[tx] \in wash.snap /\ ~objs[byHash[tx]].local}) <= opt.Limit

\* Between washes, the pending cost of an account is the sum of the costs of
\* the pooled executable transactions it pays for (Add, UpdatePendingCost,
\* RemoveByHash).
CostIsSum ==
    wash.stage = "idle" =>
        \A a \in Account :
            cost[a] = MapThenSumSet(LAMBDA tx : Cost[tx],
                        {tx \in Pooled : objs[byHash[tx]].executable /\ Payer[tx] = a})

\* Pending costs are right as long as the pool has room for all transactions,
\* so that no wash drops one over the limit, and the packer removes none.
CostIsSumWithRoom == opt.Limit >= Cardinality(opt.Txs) /\ ~opt.Packs => CostIsSum

\* While the chain is synced, a pooled transaction that is ready becomes
\* executable or leaves the pool: no add slips between the reset of
\* addedAfterWash and the snapshot (housekeeping, add).
ReadyIsPublished ==
    \A tx \in Tx :
        (tx \in Pooled /\ status[tx] = "ready" /\ synced)
            ~> (tx \in executables \/ tx \notin Pooled \/ status[tx] # "ready" \/ ~synced)
=============================================================================
