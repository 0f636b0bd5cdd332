------------------------------ MODULE LogQuery ------------------------------
(***************************************************************************)
(* Which logs a filter selects (logdb.FilterEvents, FilterTransfers) for a *)
(* range of block numbers or of timestamps that a client asks for          *)
(* (events.ConvertRange).                                                  *)
(***************************************************************************)
EXTENDS LogSync

CONSTANTS
    Time,           \* Header.Timestamp
    MaxBlockNumber, \* of a sequence number: 2^28 - 1 in the code
    Bounds          \* bound: the numbers and timestamps that are asked for

ASSUME TimeAssumption ==
    /\ Time \in [Block -> Nat] /\ \A b \in Block \ {Genesis} : Time[b] > Time[Parent[b]]
    /\ MaxBlockNumber \in Nat /\ Bounds \subseteq Nat
    /\ \A b \in Block : Number[b] < MaxBlockNumber

GetBlockHeader(head, num) == CHOOSE b \in Chain[head] : Number[b] = num

\* sort.Search: the first of 0 .. n - 1 for which it holds, or n.
Search(n, Holds(_)) == Min({i \in 0 .. n : i = n \/ Holds(i)})

\* Chain.FindBlockHeaderByTimestamp, not for an exact match.
FindBlockHeaderByTimestamp(head, ts, flag) ==
    LET headNum == Number[head]
        up(i)   == Time[GetBlockHeader(head, i)] >= ts
        down(i) == Time[GetBlockHeader(head, headNum - i)] <= ts
    IN  GetBlockHeader(head, IF flag > 0 THEN Search(headNum, up) ELSE headNum - Search(headNum, down))

EmptyRange == [from |-> MaxBlockNumber, to |-> MaxBlockNumber]

\* ConvertRange.  from and to are a set: of one bound, or of none (nil).
ConvertRange(head, r) ==
    IF r.unit = "time"
    THEN IF (\E to \in r.to : to < Time[Genesis]) \/ (\E fr \in r.from : fr > Time[head])
         THEN EmptyRange
         ELSE LET fr == {FindBlockHeaderByTimestamp(head, ts, 1) : ts \in r.from}
                  to == {FindBlockHeaderByTimestamp(head, ts, -1) : ts \in r.to}
              IN  [from |-> Max({0} \cup {Number[b] : b \in fr}),
                   to   |-> Min({Number[head]} \cup {Number[b] : b \in to})]
    ELSE IF \E fr \in r.from : fr > MaxBlockNumber THEN EmptyRange
         ELSE [from |-> Max({0} \cup r.from), to |-> Min({MaxBlockNumber} \cup r.to)]

\* Mutant: a range of one block has no upper bound.
FilterStrictly(rng) ==
    {k \in DOMAIN rows : k[1] >= rng.from /\ (rng.to > rng.from => k[1] <= rng.to)}
\* The rows that FilterEvents and FilterTransfers select.
Filter(rng) ==
    {k \in DOMAIN rows : k[1] >= rng.from /\ (rng.to >= rng.from => k[1] <= rng.to)}

-----------------------------------------------------------------------------
(* Properties *)

OneOrNil == {{}} \cup {{n} : n \in Bounds}

\* The ranges the handlers accept.
Ranges == {r \in [unit : {"block", "time"}, from : OneOrNil, to : OneOrNil] :
              \A fr \in r.from, to \in r.to : fr <= to}

Within(b, r) ==
    LET v == IF r.unit = "time" THEN Time[b] ELSE Number[b]
    IN  (\A fr \in r.from : fr <= v) /\ (\A to \in r.to : v <= to)

\* Whether the range lies between two blocks of the chain.
Between(head, r) ==
    /\ r.unit = "time"
    /\ \A b \in Chain[head] : ~Within(b, r)
    /\ \E b \in Chain[head] : \A to \in r.to : Time[b] < to
    /\ \E b \in Chain[head] : \A fr \in r.from : Time[b] > fr

\* A filter selects exactly the logs of the blocks within its range, be it in
\* numbers or timestamps, at and beyond both ends of the chain too.  Only for a
\* range of timestamps between two blocks it does not: the upper bound is below
\* the lower then and left out (ConvertRange, FilterEvents).
RangeIsExact ==
    Settled /\ faults = {} =>
        \A r \in Ranges : ~Between(best, r) =>
            Filter(ConvertRange(best, r)) = {k \in DOMAIN rows : Within(rows[k], r)}
=============================================================================
