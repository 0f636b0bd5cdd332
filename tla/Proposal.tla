------------------------------ MODULE Proposal ------------------------------
(***************************************************************************)
(* Who may propose a block and when: the packer's schedule                 *)
(* (packer.Schedule), the schedulers before and after VIP-214 (poa/), and  *)
(* the check of a received block (consensus, validateProposer) with its    *)
(* cache of candidates.                                                    *)
(*                                                                         *)
(* The packer reads the proposers from the parent's state; the validator   *)
(* takes them from what it remembers of the parent block.  The copies it   *)
(* remembers share their lists until one of them is written to.            *)
(***************************************************************************)
EXTENDS Authority, FiniteSetsExt, SequencesExt

CONSTANTS
    Endorsor,               \* of a node master
    Account,                \* endorsors
    Genesis,                \* node masters listed by the genesis block, in order
    InitialMaxBlockProposers,
    Limits,                 \* values the parameter max-block-proposers may be set to
    BlockInterval,
    VIP214s,                \* numbers the first block of the second scheduler may have
    EpochInterval,          \* blocks of a seeder epoch
    Dprp(_, _),             \* pseudo-random number of a block number and a time
    Hash(_, _, _),          \* order of a node master for a seed and a block number
    TargetGasLimit,         \* of a node master's packer, 0 when it is not set
    InitialGasLimit, MinGasLimit, GasLimitBoundDivisor,
    Self,                   \* the node master of this node
    MaxBlocks, MaxTime      \* bounds

ASSUME ProposalAssumption ==
    /\ Endorsor \in [Master -> Account] /\ TargetGasLimit \in [Master -> Nat]
    /\ Genesis \in Seq(Master) /\ Self \in Master
    /\ BlockInterval \in Nat \ {0} /\ EpochInterval \in Nat \ {0}
    /\ InitialMaxBlockProposers \in Nat \ {0}
    /\ GasLimitBoundDivisor \in Nat \ {0} /\ InitialGasLimit >= MinGasLimit

VARIABLES
    blocks,     \* repository: blocks by ID, 1 is genesis, with the state after each
    cache,      \* Consensus.candidatesCache: Candidates by block ID
    lists,      \* memory: the lists the Candidates point to
    VIP214      \* ForkConfig: number of the first block of the second scheduler

vars == <<blocks, cache, lists, VIP214>>

IDs == 1 .. Len(blocks)

-----------------------------------------------------------------------------
(* block.GasLimit *)

Min2(a, b) == IF a < b THEN a ELSE b

GasLimitIsValid(gl, parent) ==
    /\ gl >= MinGasLimit
    /\ (IF gl > parent THEN gl - parent ELSE parent - gl) <= parent \div GasLimitBoundDivisor

\* GasLimit.Qualify and Adjust (no gas limit gets near 2^64).
Qualify(gl, parent) ==
    LET most == parent \div GasLimitBoundDivisor
    IN  IF gl > parent THEN parent + Min2(gl - parent, most)
        ELSE LET diff == Min2(parent - gl, most)
             IN  IF MinGasLimit + diff > parent THEN MinGasLimit ELSE parent - diff

-----------------------------------------------------------------------------
(* Schedulers.  A proposer is a record of master and active. *)

\* The block with the given number on the chain of block b.
Ancestor(b, num) ==
    LET up[x \in IDs] == IF blocks[x].number <= num THEN x ELSE up[blocks[x].parent]
    IN  up[b]

\* Seeder.Generate: the block whose VRF output seeds the epoch, 0 for no seed
\* (a block before VIP-214 has no VRF output).
Seed(parent) ==
    LET epoch == (blocks[parent].number + 1) \div EpochInterval
        num   == (epoch - 1) * EpochInterval
    IN  IF epoch <= 1 \/ num < VIP214 THEN 0 ELSE Ancestor(parent, num)

IsListed(m, proposers) == \E i \in DOMAIN proposers : proposers[i].master = m
IsActive(m, proposers) == \E i \in DOMAIN proposers : proposers[i] = [master |-> m, active |-> TRUE]

\* NewSchedulerV1, NewSchedulerV2: those that take turns when m proposes; the
\* second scheduler shuffles them.
Turns(parent, m, proposers) ==
    LET in(p)      == p.active \/ p.master = m
        actives    == SelectSeq(proposers, in)
        masters    == [i \in DOMAIN actives |-> actives[i].master]
        num        == blocks[parent].number
        seed       == Seed(parent)
        less(a, b) == Hash(seed, num, a) < Hash(seed, num, b)
    IN  IF num + 1 < VIP214 THEN masters ELSE SortSeq(masters, less)

WhoseTurn(parent, turns, t) ==
    LET b == blocks[parent]
        n == IF b.number + 1 < VIP214 THEN Dprp(b.number, t)
             ELSE (t - b.time - BlockInterval) \div BlockInterval
    IN  turns[(n % Len(turns)) + 1]

\* Scheduler.IsTheTime.
IsTheTime(parent, m, turns, t) ==
    /\ t > blocks[parent].time
    /\ (t - blocks[parent].time) % BlockInterval = 0
    /\ WhoseTurn(parent, turns, t) = m

\* Scheduler.Schedule: the first time, not before now, that is m's turn; the
\* code's loop is cut off after MaxTime slots.
Schedule(parent, m, turns, now) ==
    LET first == blocks[parent].time + BlockInterval
        start == IF now > first
                 THEN first + ((now - first + BlockInterval - 1) \div BlockInterval) * BlockInterval
                 ELSE first
        mine  == {t \in {start + i * BlockInterval : i \in 0 .. MaxTime} :
                     WhoseTurn(parent, turns, t) = m}
    IN  IF mine = {} THEN {} ELSE {Min(mine)}

\* Mutant: the search stops at the proposer's own place.
MissedBeforePlace(parent, m, turns, t) ==
    {turns[i] : i \in {i \in DOMAIN turns : \A j \in 1 .. i : turns[j] # m}}

\* Scheduler.Updates: those who missed their turn.  The first scheduler looks
\* back from the new block, the second on from the parent.
Missed(parent, m, turns, t) ==
    LET b     == blocks[parent]
        slots == {s \in b.time + 1 .. t - 1 : (s - b.time) % BlockInterval = 0}
        seen  == IF b.number + 1 < VIP214
                 THEN {s \in slots : s >= t - InitialMaxBlockProposers * BlockInterval}
                 ELSE {s \in slots : s <= b.time + Len(turns) * BlockInterval}
    IN  {WhoseTurn(parent, turns, s) : s \in seen} \ {m}

Score(parent, m, turns, t) == Len(turns) - Cardinality(Missed(parent, m, turns, t))

-----------------------------------------------------------------------------
(* The packer *)

FirstN(s, n) == SubSeq(s, 1, Min2(n, Len(s)))

\* The parameter max-block-proposers, with its default and upper bound.
MaxBlockProposers(b) ==
    IF b.limit = 0 \/ b.limit > InitialMaxBlockProposers THEN InitialMaxBlockProposers ELSE b.limit

\* Authority.Candidates: the first of the list whose endorsors have the endorsement.
Candidates(b) ==
    LET endorsed(c) == Endorsor[c.master] \in b.funded
    IN  FirstN(SelectSeq(AllCandidates(b.au), endorsed), MaxBlockProposers(b))

\* Authority.Update for each of the scheduler's updates.
WithUpdates(au, m, missed) ==
    [au EXCEPT !.entry = [x \in Master |-> IF x = m THEN Update(au, x, TRUE).entry[x]
                                           ELSE IF x \in missed THEN Update(au, x, FALSE).entry[x]
                                           ELSE @[x]]]

\* Packer.Schedule: the headers m may make on the parent, at any time now; none
\* when m is not among the proposers.
Packed(parent, m) ==
    LET b         == blocks[parent]
        proposers == Candidates(b)
        turns     == Turns(parent, m, proposers)
    IN  IF ~IsListed(m, proposers) THEN {}
        ELSE {[signer |-> m, time |-> t, score |-> b.score + Score(parent, m, turns, t),
               gas |-> IF TargetGasLimit[m] = 0 THEN b.gas ELSE Qualify(TargetGasLimit[m], b.gas),
               au |-> WithUpdates(b.au, m, Missed(parent, m, turns, t))] :
                   t \in UNION {Schedule(parent, m, turns, now) : now \in 0 .. MaxTime}}

-----------------------------------------------------------------------------
(* The validator *)

\* Mutant: the copy is not marked as sharing its list.
CopyUnmarked(c) == c
\* Candidates.Copy marks both the copy and what is copied.
Copy(c) == [c EXCEPT !.referenced = TRUE]

Cached(parent) == parent \in DOMAIN cache
NewList == Min((1 .. Cardinality(DOMAIN lists) + 1) \ DOMAIN lists)

\* validateProposer: the Candidates of the parent, from the cache or from its state.
Taken(parent) ==
    IF Cached(parent) THEN Copy(cache[parent])
    ELSE [list |-> NewList, satisfied |-> <<>>, referenced |-> FALSE]
ListOf(parent) ==
    IF Cached(parent) THEN lists[cache[parent].list] ELSE AllCandidates(blocks[parent].au)

\* Candidates.Pick: places in the list, remembered when there are any.
Satisfied(parent) ==
    LET list == ListOf(parent)
        endorsed(i) == Endorsor[list[i].master] \in blocks[parent].funded
    IN  IF Taken(parent).satisfied # <<>> THEN Taken(parent).satisfied
        ELSE FirstN(SelectSeq([i \in DOMAIN list |-> i], endorsed), MaxBlockProposers(blocks[parent]))
Picked(parent) ==
    LET list == ListOf(parent)  places == Satisfied(parent)
    IN  [i \in DOMAIN places |-> list[places[i]]]

\* validateBlockHeader and validateProposer; the updates made to the state are
\* those the header's state root tells.  A block ahead of the clock is not
\* refused but comes again, which is left out.
Accepts(parent, h) ==
    LET b      == blocks[parent]
        picked == Picked(parent)
        turns  == Turns(parent, h.signer, picked)
    IN  /\ h.time > b.time /\ (h.time - b.time) % BlockInterval = 0
        /\ GasLimitIsValid(h.gas, b.gas)
        /\ h.score > b.score
        /\ IsListed(h.signer, picked)
        /\ IsTheTime(parent, h.signer, turns, h.time)
        /\ h.score = b.score + Score(parent, h.signer, turns, h.time)
        /\ h.au = WithUpdates(b.au, h.signer, Missed(parent, h.signer, turns, h.time))

\* Candidates.Update for each of the scheduler's updates: a list that is shared
\* is cloned before the first of them.
Updated(parent, h) ==
    LET c       == Taken(parent)
        old     == ListOf(parent)
        picked  == Picked(parent)
        missed  == Missed(parent, h.signer, Turns(parent, h.signer, picked), h.time)
        active(x) == IF x.master = h.signer THEN TRUE
                     ELSE IF x.master \in missed THEN FALSE ELSE x.active
        new     == [i \in DOMAIN old |-> [old[i] EXCEPT !.active = active(old[i])]]
        writes  == missed # {} \/ ~IsActive(h.signer, picked)
        place   == IF writes /\ c.referenced THEN NewList ELSE c.list
    IN  [candidates |-> [list |-> place, satisfied |-> Satisfied(parent),
                         referenced |-> c.referenced /\ ~writes],
         lists |-> [r \in DOMAIN lists \cup {place} |-> IF r = place THEN new ELSE lists[r]]]

\* The cache after the parent's entry was copied.
Marked(parent) == [x \in DOMAIN cache |-> IF x = parent THEN Taken(parent) ELSE cache[x]]

\* Lists nobody points to are forgotten.
Reachable(ls, c) == [r \in {c[x].list : x \in DOMAIN c} |-> ls[r]]

Block(parent, h, au, funded, limit) ==
    [parent |-> parent, number |-> blocks[parent].number + 1, time |-> h.time,
     score |-> h.score, gas |-> h.gas, au |-> au, funded |-> funded, limit |-> limit]

-----------------------------------------------------------------------------

GenesisStorage ==
    LET built[n \in 0 .. Len(Genesis)] == IF n = 0 THEN NoStorage ELSE Add(built[n - 1], Genesis[n])
    IN  built[Len(Genesis)]

Init ==
    /\ \E funded \in SUBSET Account, limit \in Limits :
          blocks = <<[parent |-> 1, number |-> 0, time |-> 0, score |-> 0, gas |-> InitialGasLimit,
                      au |-> GenesisStorage, funded |-> funded, limit |-> limit]>>
    /\ cache = <<>> /\ lists = <<>> /\ VIP214 \in VIP214s

WithinBounds(h) == Len(blocks) < MaxBlocks /\ h.time <= MaxTime

\* The end of validate: what is remembered for the new block.
Remember(c, keepPicked) == IF keepPicked THEN c ELSE [c EXCEPT !.satisfied = <<>>]

\* A block of another node is accepted; its transactions lead to the state
\* given.  Candidates are remembered unless the Authority contract emitted an
\* event.  The cache has room for 16 blocks: any of the others may be gone.
Process(parent, h, au, funded, limit, keepList, keepPicked) ==
    LET id == Len(blocks) + 1
        updated == Updated(parent, h)
    IN  /\ h.signer # Self /\ WithinBounds(h) /\ Accepts(parent, h)
        /\ blocks' = Append(blocks, Block(parent, h, au, funded, limit))
        /\ \E kept \in IF keepList THEN SUBSET DOMAIN cache ELSE {DOMAIN cache} :
              cache' = [x \in kept \cup (IF keepList THEN {id} ELSE {}) |->
                          IF x = id THEN Remember(updated.candidates, keepPicked) ELSE Marked(parent)[x]]
        /\ lists' = Reachable(updated.lists, cache')
        /\ UNCHANGED VIP214

\* A block passes validateProposer and fails later: only the cache and the
\* lists have been touched.  One that fails before touches no more of them.
Reject(parent, h) ==
    /\ Accepts(parent, h)
    /\ cache' = Marked(parent)
    /\ lists' = Reachable(Updated(parent, h).lists, cache')
    /\ UNCHANGED <<blocks, VIP214>>

\* The node's own block is not validated.
Pack(parent, h, au, funded, limit) ==
    /\ h.signer = Self /\ WithinBounds(h)
    /\ blocks' = Append(blocks, Block(parent, h, au, funded, limit))
    /\ UNCHANGED <<cache, lists, VIP214>>

\* What the transactions of a block may do, on the state after the updates.
Import(parent, h) ==
    LET b == blocks[parent]
        make(au, funded, limit, keepList, keepPicked) ==
            \/ Process(parent, h, au, funded, limit, keepList, keepPicked)
            \/ Pack(parent, h, au, funded, limit)
    IN  \/ make(h.au, b.funded, b.limit, TRUE, TRUE)
        \/ \E m \in Master : /\ Add(h.au, m) # h.au
                             /\ make(Add(h.au, m), b.funded, b.limit, FALSE, TRUE)
        \/ \E m \in Master : /\ Revoke(h.au, m) # h.au
                             /\ make(Revoke(h.au, m), b.funded, b.limit, FALSE, TRUE)
        \/ \E a \in Account :
              LET involved == \E i \in DOMAIN ListOf(parent) : Endorsor[ListOf(parent)[i].master] = a
              IN  make(h.au, (b.funded \ {a}) \cup ({a} \ b.funded), b.limit, TRUE, ~involved)
        \/ \E limit \in Limits \ {b.limit} : make(h.au, b.funded, limit, TRUE, FALSE)

Next ==
    \E parent \in IDs :
        \E h \in UNION {Packed(parent, m) : m \in Master} :
            Import(parent, h) \/ Reject(parent, h)

Spec == Init /\ [][Next]_vars

-----------------------------------------------------------------------------
(* Properties *)

\* The linked list of every block is one: head, tail and links agree in both
\* directions, and what Get calls listed is what a walk from the head meets
\* (Add, Revoke).
ListIsSound ==
    \A b \in IDs :
        LET au == blocks[b].au
            list == AllCandidates(au)
        IN  /\ {list[i].master : i \in DOMAIN list} = {m \in Master : Listed(au, m)}
            /\ Cardinality({m \in Master : Listed(au, m)}) = Len(list)
            /\ \A i \in DOMAIN list :
                  au.entry[list[i].master].prev = IF i = 1 THEN Nil ELSE list[i - 1].master
            /\ au.tail = IF list = <<>> THEN Nil ELSE list[Len(list)].master

\* Whatever the validator remembers, it accepts every block that a packer
\* schedules, at any time and on any parent: signer, time, score, gas limit and
\* the activity of the proposers; and it takes nobody to be on turn whom a
\* packer would not schedule (Schedule, validateProposer).
Agreement ==
    \A parent \in IDs, m \in Master :
        LET packed == Packed(parent, m)
            picked == Picked(parent)
            turns  == Turns(parent, m, picked)
        IN  /\ \A h \in packed : Accepts(parent, h)
            /\ IsListed(m, picked) =>
                  {t \in 1 .. MaxTime : IsTheTime(parent, m, turns, t)} \subseteq {h.time : h \in packed}

\* Of two active proposers, the one whose turn comes first does not score less:
\* waiting never makes a branch better (Updates of the second scheduler; the
\* first only looks back over a window).
EarlierScoresHigher ==
    \A parent \in IDs :
        LET p == Candidates(blocks[parent])
            active == {m \in Master : IsActive(m, p)}
        IN  blocks[parent].number + 1 >= VIP214 => \A m, n \in active, s, t \in 1 .. MaxTime :
              LET turns == Turns(parent, m, p)
              IN  s < t /\ IsTheTime(parent, m, turns, s) /\ IsTheTime(parent, n, turns, t) =>
                    Score(parent, m, turns, s) >= Score(parent, n, turns, t)
=============================================================================
