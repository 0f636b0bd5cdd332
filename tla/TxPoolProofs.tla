---------------------------- MODULE TxPoolProofs ----------------------------
(***************************************************************************)
(* The quotas of the transaction pool, for any transactions, accounts,     *)
(* adders and options.                                                     *)
(***************************************************************************)
EXTENDS TxPool, FiniteSetTheorems, TLAPS

\* What the proof needs to know of the types of the variables.
QuotaTypes ==
    /\ Pooled \subseteq Tx
    /\ quota \in [Account -> Nat]
    /\ opt.Txs \subseteq Tx /\ opt.Adders \subseteq Adder
    /\ DOMAIN adding = Adder
    /\ \A a \in Adder : adding[a].stage = "insert" => adding[a].tx \in Tx

IInv == QuotaTypes /\ QuotaIsCount

-----------------------------------------------------------------------------

\* The cardinality of a union without common elements.
LEMMA DisjointUnion ==
    ASSUME NEW S, NEW T, IsFiniteSet(S), IsFiniteSet(T), S \cap T = {}
    PROVE  Cardinality(S \cup T) = Cardinality(S) + Cardinality(T)
<1>1. Cardinality(S \cup T) = Cardinality(S) + Cardinality(T) - Cardinality(S \cap T)
  BY FS_Union
<1>2. Cardinality(S \cap T) = 0
  BY FS_EmptySet
<1>3. Cardinality(S) \in Nat /\ Cardinality(T) \in Nat
  BY FS_CardinalityType
<1>. QED
  BY <1>1, <1>2, <1>3

\* The transactions of an account are a finite number.
LEMMA UsesType ==
    ASSUME NEW S \in SUBSET Tx, NEW a
    PROVE  /\ IsFiniteSet({tx \in S : Origin[tx] = a})
           /\ IsFiniteSet({tx \in S : a \in Delegator[tx]})
           /\ Uses(S, a) \in Nat
<1>1. IsFiniteSet(S)
  BY FS_Subset, TxAssumption
<1>2. IsFiniteSet({tx \in S : Origin[tx] = a})
  BY <1>1, FS_Subset
<1>3. IsFiniteSet({tx \in S : a \in Delegator[tx]})
  BY <1>1, FS_Subset
<1>. QED
  BY <1>2, <1>3, FS_CardinalityType DEF Uses

\* What two sets without a common transaction count is the sum.
LEMMA UsesUnion ==
    ASSUME NEW S \in SUBSET Tx, NEW T \in SUBSET Tx, S \cap T = {}, NEW a
    PROVE  Uses(S \cup T, a) = Uses(S, a) + Uses(T, a)
<1> DEFINE O(X) == {tx \in X : Origin[tx] = a}
           D(X) == {tx \in X : a \in Delegator[tx]}
<1>1. /\ IsFiniteSet(O(S)) /\ IsFiniteSet(O(T))
      /\ IsFiniteSet(D(S)) /\ IsFiniteSet(D(T))
  BY UsesType
<1>2. Cardinality(O(S \cup T)) = Cardinality(O(S)) + Cardinality(O(T))
  <2>1. O(S \cup T) = O(S) \cup O(T) /\ O(S) \cap O(T) = {}
    OBVIOUS
  <2>. HIDE DEF O
  <2>. QED
    BY <1>1, <2>1, DisjointUnion
<1>3. Cardinality(D(S \cup T)) = Cardinality(D(S)) + Cardinality(D(T))
  <2>1. D(S \cup T) = D(S) \cup D(T) /\ D(S) \cap D(T) = {}
    OBVIOUS
  <2>. HIDE DEF D
  <2>. QED
    BY <1>1, <2>1, DisjointUnion
<1>4. /\ Cardinality(O(S)) \in Nat /\ Cardinality(O(T)) \in Nat
      /\ Cardinality(D(S)) \in Nat /\ Cardinality(D(T)) \in Nat
  BY <1>1, FS_CardinalityType
<1>5. Uses(S \cup T, a) = Cardinality(O(S \cup T)) + Cardinality(D(S \cup T))
  BY DEF Uses
<1>6. Uses(S, a) = Cardinality(O(S)) + Cardinality(D(S))
  BY DEF Uses
<1>7. Uses(T, a) = Cardinality(O(T)) + Cardinality(D(T))
  BY DEF Uses
<1> HIDE DEF O, D
<1>. QED
  BY <1>2, <1>3, <1>4, <1>5, <1>6, <1>7

\* An empty pool uses nothing.
LEMMA UsesEmpty == \A a : Uses({}, a) = 0
<1>. TAKE a
<1>1. {tx \in {} : Origin[tx] = a} = {} /\ {tx \in {} : a \in Delegator[tx]} = {}
  OBVIOUS
<1>. QED
  BY <1>1, FS_EmptySet DEF Uses

\* Add and Fill count what they put into the pool.
LEMMA LinkCounts ==
    ASSUME IInv, NEW S \in SUBSET Tx, S \cap Pooled = {}, NEW last, NEW obj, Link(S, last, obj)
    PROVE  Pooled' \subseteq Tx /\ quota' \in [Account -> Nat] /\ QuotaIsCount'
<1>1. Pooled' = Pooled \cup S
  BY DEF Link, Pooled
<1>2. quota' = [a \in Account |-> quota[a] + Uses(S, a)]
  BY DEF Link
<1>3. \A a \in Account : Uses(S, a) \in Nat
  BY UsesType
<1>4. \A a \in Account : Uses(Pooled \cup S, a) = Uses(Pooled, a) + Uses(S, a)
  BY UsesUnion DEF IInv, QuotaTypes
<1>5. \A a \in Account : quota'[a] = Uses(Pooled', a)
  BY <1>1, <1>2, <1>4 DEF IInv, QuotaIsCount
<1>6. \A a \in Account : Uses(Pooled', a) = Uses(Pooled, a)'
  BY DEF Uses
<1>. QED
  BY <1>1, <1>2, <1>3, <1>5 DEF IInv, QuotaTypes, QuotaIsCount, Uses

\* RemoveByHash gives back what the transaction took, and no more than there is.
LEMMA RemoveCounts ==
    ASSUME IInv, NEW tx, RemoveByHash(tx)
    PROVE  Pooled' \subseteq Tx /\ quota' \in [Account -> Nat] /\ QuotaIsCount'
<1>1. CASE tx \notin Pooled
  BY <1>1 DEF RemoveByHash, mapVars, IInv, QuotaTypes, QuotaIsCount, Pooled, Uses
<1>2. CASE tx \in Pooled
  <2>1. Pooled' = Pooled \ {tx}
    BY <1>2 DEF RemoveByHash, Restrict, Pooled
  <2>2. quota' = [a \in Account |-> Remaining(quota[a], Uses({tx}, a))]
    BY <1>2 DEF RemoveByHash
  <2>3. /\ Pooled \subseteq Tx /\ {tx} \in SUBSET Tx /\ Pooled \ {tx} \in SUBSET Tx
        /\ (Pooled \ {tx}) \cap {tx} = {} /\ (Pooled \ {tx}) \cup {tx} = Pooled
    BY <1>2 DEF IInv, QuotaTypes
  <2>4. \A a \in Account : Uses(Pooled, a) = Uses(Pooled \ {tx}, a) + Uses({tx}, a)
    <3>. TAKE a \in Account
    <3>1. Uses((Pooled \ {tx}) \cup {tx}, a) = Uses(Pooled \ {tx}, a) + Uses({tx}, a)
      BY <2>3, UsesUnion
    <3>. QED
      BY <2>3, <3>1
  <2>5. \A a \in Account : Uses({tx}, a) \in Nat /\ Uses(Pooled \ {tx}, a) \in Nat
    BY <2>3, UsesType
  <2>6. \A a \in Account : quota[a] = Uses(Pooled \ {tx}, a) + Uses({tx}, a)
    BY <2>4 DEF IInv, QuotaIsCount
  <2>7. \A a \in Account : quota'[a] = Uses(Pooled \ {tx}, a)
    <3>. TAKE a \in Account
    <3>1. \A m, n \in Nat : Remaining(m + n, n) = m
      BY DEF Remaining
    <3>2. quota'[a] = Remaining(quota[a], Uses({tx}, a))
      BY <2>2
    <3>. QED
      BY <2>5, <2>6, <3>1, <3>2
  <2>8. quota' \in [Account -> Nat]
    BY <2>2, <2>5, <2>7
  <2>9. QuotaIsCount'
    BY <2>1, <2>7 DEF QuotaIsCount, Uses
  <2>. QED
    BY <2>1, <2>3, <2>8, <2>9
<1>. QED
  BY <1>1, <1>2

-----------------------------------------------------------------------------

LEMMA Initially == Init => IInv
<1>. SUFFICES ASSUME Init PROVE IInv
  OBVIOUS
<1>1. Pooled = {}
  BY DEF Init, Pooled
<1>2. opt.Txs \subseteq Tx /\ opt.Adders \subseteq Adder
  BY ScenarioAssumption DEF Init, Scenario
<1>3. QuotaTypes
  BY <1>1, <1>2 DEF Init, QuotaTypes, Idle
<1>4. QuotaIsCount
  BY <1>1, UsesEmpty DEF Init, QuotaIsCount
<1>. QED
  BY <1>3, <1>4 DEF IInv

LEMMA Steps == IInv /\ [Next]_vars => IInv'
<1>. SUFFICES ASSUME IInv, [Next]_vars PROVE IInv'
  OBVIOUS
<1>. USE DEF IInv
<1>1. ASSUME NEW a \in opt.Adders, NEW tx \in opt.Txs, NEW local, NEW strict, Check(a, tx, local, strict)
      PROVE  IInv'
  BY <1>1 DEF Check, QuotaTypes, QuotaIsCount, poolVars, mapVars, envVars, Pooled, Uses
<1>2. ASSUME NEW a \in opt.Adders, Insert(a)
      PROVE  IInv'
  <2>1. /\ DOMAIN adding' = Adder
        /\ \A b \in Adder : adding'[b].stage = "insert" => adding'[b].tx \in Tx
    BY <1>2 DEF Insert, QuotaTypes, Idle
  <2>2. opt' = opt
    BY <1>2 DEF Insert, envVars
  <2>3. CASE adding[a].tx \in Pooled \/ ~Admits(adding[a].tx, adding[a].executable)
    BY <1>2, <2>1, <2>2, <2>3 DEF Insert, mapVars, QuotaTypes, QuotaIsCount, Pooled, Uses
  <2>4. CASE ~(adding[a].tx \in Pooled \/ ~Admits(adding[a].tx, adding[a].executable))
    BY <1>2, <2>1, <2>2, <2>4, LinkCounts DEF Insert, QuotaTypes
  <2>. QED
    BY <2>3, <2>4
<1>3. ASSUME NEW a \in opt.Adders, CountAdded(a)
      PROVE  IInv'
  BY <1>3 DEF CountAdded, Idle, QuotaTypes, QuotaIsCount, mapVars, envVars, Pooled, Uses
<1>4. ASSUME NEW S \in SUBSET opt.Txs, Fill(S)
      PROVE  IInv'
  <2>. DEFINE new == {tx \in S : tx \notin Pooled /\ Origin[tx] \notin blocked}
  <2>1. PICK last : Link(new, last, [local |-> FALSE, executable |-> FALSE, costed |-> FALSE])
    BY <1>4 DEF Fill
  <2>2. new \in SUBSET Tx /\ new \cap Pooled = {}
    BY DEF QuotaTypes
  <2>3. adding' = adding /\ opt' = opt
    BY <1>4 DEF Fill
  <2>. QED
    BY <2>1, <2>2, <2>3, LinkCounts DEF QuotaTypes
<1>5. ASSUME NEW tx \in Tx, Remove(tx)
      PROVE  IInv'
  BY <1>5, RemoveCounts DEF Remove, envVars, QuotaTypes
<1>6. ASSUME WashRemove
      PROVE  IInv'
  BY <1>6, RemoveCounts DEF WashRemove, envVars, QuotaTypes
<1>7. CASE PackStart
  BY <1>7 DEF PackStart, QuotaTypes, QuotaIsCount, poolVars, mapVars, envVars, Pooled, Uses
<1>8. CASE Tick
  BY <1>8 DEF Tick, QuotaTypes, QuotaIsCount, mapVars, envVars, Pooled, Uses
<1>9. CASE Snapshot
  BY <1>9 DEF Snapshot, QuotaTypes, QuotaIsCount, poolVars, mapVars, envVars, Pooled, Uses
<1>10. CASE Evaluate
  BY <1>10 DEF Evaluate, QuotaTypes, QuotaIsCount, mapVars, envVars, Pooled, Uses
<1>11. CASE WashFails
  BY <1>11 DEF WashFails, QuotaTypes, QuotaIsCount, poolVars, mapVars, Pooled, Uses
<1>12. CASE WashUpdate
  BY <1>12 DEF WashUpdate, QuotaTypes, QuotaIsCount, envVars, Pooled, Uses
<1>13. CASE WashDone
  BY <1>13 DEF WashDone, QuotaTypes, QuotaIsCount, mapVars, envVars, Pooled, Uses
<1>14. CASE NewHead
  BY <1>14 DEF NewHead, QuotaTypes, QuotaIsCount, poolVars, mapVars, Pooled, Uses
<1>15. CASE FallBehind
  BY <1>15 DEF FallBehind, QuotaTypes, QuotaIsCount, poolVars, mapVars, Pooled, Uses
<1>16. CASE FetchBlocklist
  BY <1>16 DEF FetchBlocklist, QuotaTypes, QuotaIsCount, poolVars, mapVars, Pooled, Uses
<1>17. CASE UNCHANGED vars
  BY <1>17 DEF vars, QuotaTypes, QuotaIsCount, poolVars, mapVars, envVars, Pooled, Uses
<1>. QED
  BY <1>1, <1>2, <1>3, <1>4, <1>5, <1>6, <1>7, <1>8, <1>9, <1>10, <1>11, <1>12, <1>13,
     <1>14, <1>15, <1>16, <1>17 DEF Next

\* Whatever adds, fills, washes and removals overlap, the quota of every
\* account is the number of pooled transactions it sent or delegates (Add,
\* Fill, RemoveByHash).
THEOREM QuotaIsRight == Spec => []QuotaIsCount
<1>1. IInv => QuotaIsCount
  BY DEF IInv
<1>. QED
  BY <1>1, Initially, Steps, PTL DEF Spec
=============================================================================
