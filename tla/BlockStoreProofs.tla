-------------------------- MODULE BlockStoreProofs --------------------------
(***************************************************************************)
(* Proofs, for every tree of blocks and any number of goroutines, that the *)
(* block store gives a version to one block only and that what is stored   *)
(* under it is that block's own.                                           *)
(***************************************************************************)
EXTENDS BlockStore, FiniteSetTheorems, TLAPS

-----------------------------------------------------------------------------
(* The inductive invariant *)

\* A goroutine in the middle of a block holds processLock.
LockInv == \A g \in Goroutine : op[g].stage # "idle" => lock = g

\* The stored blocks are a finite tree, none above maxBlockNum.
TreeInv ==
    /\ IsFiniteSet(Stored)
    /\ Genesis \in Stored
    /\ \A b \in Stored \ {Genesis} : Parent[b] \in Stored
    /\ \A b \in Stored : Number[b] <= maxBlockNum

\* The conflicts of the blocks of a number stay below their count.
ConflictsInv == \A b \in Stored : conflicts[b] < ScanConflicts(Number[b])

\* The index saved under version v is the path to b.
Path(v, b) ==
    /\ v \in DOMAIN index
    /\ DOMAIN index[v] = 0 .. Number[b]
    /\ index[v][0] = Genesis /\ index[v][Number[b]] = b
    /\ \A n \in 0 .. Number[b] : Number[index[v][n]] = n
    /\ \A n \in 0 .. Number[b] : n # Number[b] => index[v][n] \in Stored
    /\ \A n \in 1 .. Number[b] :
          index[v][n] # Genesis /\ Parent[index[v][n]] = index[v][n - 1]

PathInv == \A b \in Stored : Path(Version(b), b)

StateIs(v, b) == v \in DOMAIN state /\ state[v] = b
BodyIs(v, b) == v \in DOMAIN bodies /\ bodies[v] = b

\* What a goroutine knows of its block at each stage.
OpInv(g) ==
    /\ op[g].stage \in {"guarded", "validated", "committed", "indexed"}
          => op[g].conflicts = ScanConflicts(Number[op[g].block])
    /\ op[g].stage \in {"guarded", "validated", "committed", "indexed"}
          => Number[op[g].block] <= maxBlockNum
    /\ op[g].stage \in {"validated", "committed", "indexed"}
          => /\ op[g].block \notin Stored
             /\ Parent[op[g].block] \in Stored
    /\ op[g].stage \in {"committed", "indexed"} => StateIs(OpVersion(g), op[g].block)
    /\ op[g].stage = "indexed" => Path(OpVersion(g), op[g].block)
    /\ op[g].stage = "saved" => op[g].block \in Stored

OpsInv == \A g \in Goroutine : OpInv(g)

IInv ==
    /\ TypeOK
    /\ LockInv
    /\ TreeInv
    /\ ConflictsInv
    /\ VersionsUnique
    /\ PathInv
    /\ DataIsOwn
    /\ OpsInv

-----------------------------------------------------------------------------
(* Lemmas *)

\* ScanConflicts counts, and counts nothing only when there is nothing.
LEMMA ScanFacts ==
    ASSUME IsFiniteSet(Stored), NEW num
    PROVE  /\ IsFiniteSet(SameNumber(num))
           /\ ScanConflicts(num) \in Nat
           /\ ScanConflicts(num) = 0 => \A b \in Stored : Number[b] # num
           /\ (\A b \in Stored : Number[b] # num) => ScanConflicts(num) = 0
<1>1. SameNumber(num) \in SUBSET Stored
    BY DEF SameNumber
<1>2. IsFiniteSet(SameNumber(num))
    BY <1>1, FS_Subset
<1>3. ScanConflicts(num) \in Nat
    BY <1>2, FS_CardinalityType DEF ScanConflicts
<1>4. ScanConflicts(num) = 0 <=> SameNumber(num) = {}
    BY <1>2, FS_EmptySet DEF ScanConflicts
<1> QED
    BY <1>2, <1>3, <1>4 DEF SameNumber

\* Saving a block adds one to the count of its number, and to no other.
LEMMA ScanAdd ==
    ASSUME IsFiniteSet(Stored), NEW b, b \notin Stored, Stored' = Stored \cup {b}
    PROVE  /\ IsFiniteSet(Stored')
           /\ ScanConflicts(Number[b])' = ScanConflicts(Number[b]) + 1
           /\ \A num : num # Number[b] => ScanConflicts(num)' = ScanConflicts(num)
<1>1. IsFiniteSet(Stored')
    BY FS_AddElement
<1>2. ScanConflicts(Number[b])' = ScanConflicts(Number[b]) + 1
    <2>1. SameNumber(Number[b])' = SameNumber(Number[b]) \cup {b}
        BY DEF SameNumber
    <2>2. b \notin SameNumber(Number[b]) /\ IsFiniteSet(SameNumber(Number[b]))
        BY ScanFacts DEF SameNumber
    <2> QED
        BY <2>1, <2>2, FS_AddElement DEF ScanConflicts
<1>3. ASSUME NEW num, num # Number[b]
      PROVE  ScanConflicts(num)' = ScanConflicts(num)
    <2>1. SameNumber(num)' = SameNumber(num)
        BY <1>3 DEF SameNumber
    <2> QED
        BY <2>1 DEF ScanConflicts
<1> QED
    BY <1>1, <1>2, <1>3

\* A step that writes nothing to disk keeps all that is said of the disk.
LEMMA DiskUnchanged ==
    ASSUME UNCHANGED diskVars
    PROVE  /\ Stored' = Stored
           /\ \A num : ScanConflicts(num)' = ScanConflicts(num)
           /\ \A v, b : Path(v, b) => Path(v, b)'
           /\ \A v, b : StateIs(v, b) => StateIs(v, b)'
           /\ ConflictsInv => ConflictsInv'
           /\ VersionsUnique => VersionsUnique'
           /\ PathInv => PathInv'
           /\ DataIsOwn => DataIsOwn'
<1>1. /\ conflicts' = conflicts /\ index' = index
      /\ state' = state /\ bodies' = bodies
    BY DEF diskVars
<1>2. Stored' = Stored
    BY <1>1 DEF Stored
<1>3. \A num : ScanConflicts(num)' = ScanConflicts(num)
    BY <1>2 DEF ScanConflicts, SameNumber
<1>4. \A v, b : Path(v, b) => Path(v, b)'
    BY <1>1, <1>2 DEF Path
<1>5. \A b : Version(b)' = Version(b)
    BY <1>1 DEF Version
<1>6. ConflictsInv => ConflictsInv'
    BY <1>1, <1>2, <1>3 DEF ConflictsInv
<1>7. VersionsUnique => VersionsUnique'
    BY <1>2, <1>5 DEF VersionsUnique
<1>8. PathInv => PathInv'
    BY <1>2, <1>4, <1>5 DEF PathInv
<1>9. DataIsOwn => DataIsOwn'
    BY <1>1, <1>2, <1>5 DEF DataIsOwn
<1> QED
    BY <1>1, <1>2, <1>3, <1>4, <1>6, <1>7, <1>8, <1>9 DEF StateIs

\* Nothing is claimed of a goroutine that is idle.
LEMMA IdleOp ==
    ASSUME NEW g, op[g].stage = "idle"
    PROVE  OpInv(g)
BY DEF OpInv

\* While one goroutine holds the lock, or none does, the others are idle.
LEMMA OthersIdle ==
    ASSUME LockInv, NEW g \in Goroutine, lock \in {g, NoOne}, NEW h \in Goroutine, h # g
    PROVE  op[h].stage = "idle"
BY GoroutineAssumption DEF LockInv

\* A new block's version is used by no stored block.
LEMMA FreshVersion ==
    ASSUME IInv, NEW g \in Goroutine,
           op[g].stage \in {"validated", "committed", "indexed"}
    PROVE  \A b \in Stored : Version(b) # OpVersion(g)
<1> SUFFICES ASSUME NEW b \in Stored, Number[b] = Number[op[g].block]
             PROVE  conflicts[b] # op[g].conflicts
    BY DEF Version, OpVersion
<1>1. op[g].conflicts = ScanConflicts(Number[op[g].block])
    BY DEF IInv, OpsInv, OpInv
<1>2. conflicts[b] < ScanConflicts(Number[b]) /\ conflicts[b] \in Nat
    BY DEF IInv, ConflictsInv, TypeOK
<1>3. ScanConflicts(Number[b]) \in Nat
    BY ScanFacts DEF IInv, TreeInv
<1> QED
    BY <1>1, <1>2, <1>3

-----------------------------------------------------------------------------
(* The initial states *)

\* The invariant holds of the store NewRepository creates.
LEMMA InitInv == Init => IInv
<1> SUFFICES ASSUME Init PROVE IInv
    OBVIOUS
<1> USE BlockAssumption DEF Init
<1>1. Stored = {Genesis} /\ conflicts[Genesis] = 0 /\ Version(Genesis) = <<0, 0>>
    BY DEF Stored, Version
<1>2. TypeOK
    <2>1. op \in [Goroutine -> Op]
        BY DEF Idle, Stages, Op
    <2>2. Function(conflicts) /\ Function(index) /\ Function(state) /\ Function(bodies)
        BY DEF Function
    <2>3. \A v \in DOMAIN index : Function(index[v]) /\ \A n \in DOMAIN index[v] : index[v][n] \in Block
        BY DEF Function
    <2> QED
        BY <1>1, <2>1, <2>2, <2>3 DEF TypeOK
<1>3. LockInv
    BY DEF LockInv, Idle
<1>4. TreeInv
    <2>1. IsFiniteSet({Genesis})
        BY FS_Singleton
    <2> QED
        BY <1>1, <2>1 DEF TreeInv
<1>5. ConflictsInv
    <2>1. SameNumber(0) = {Genesis}
        BY <1>1 DEF SameNumber
    <2>2. ScanConflicts(0) = 1
        BY <2>1, FS_Singleton DEF ScanConflicts
    <2> QED
        BY <1>1, <2>2 DEF ConflictsInv
<1>6. VersionsUnique
    BY <1>1 DEF VersionsUnique
<1>7. PathInv
    BY <1>1 DEF PathInv, Path
<1>8. DataIsOwn
    BY <1>1 DEF DataIsOwn
<1>9. OpsInv
    BY IdleOp DEF OpsInv, Idle
<1> QED
    BY <1>2, <1>3, <1>4, <1>5, <1>6, <1>7, <1>8, <1>9 DEF IInv

-----------------------------------------------------------------------------
(* Steps that write nothing to disk *)

\* guardBlockProcessing hands out the count of the blocks of the number.
LEMMA GuardInv ==
    ASSUME IInv, NEW g \in Goroutine, NEW b \in Block, Guard(g, b)
    PROVE  IInv'
<1> USE DEF IInv
<1>0. UNCHANGED diskVars
    BY DEF Guard
<1>1. ScanConflicts(Number[b]) \in Nat /\ Number[b] \in Nat /\ maxBlockNum \in Nat
    BY ScanFacts, BlockAssumption DEF TreeInv, TypeOK
<1>2. Number[b] > maxBlockNum => ScanConflicts(Number[b]) = 0
    <2>1. ASSUME Number[b] > maxBlockNum PROVE \A a \in Stored : Number[a] # Number[b]
        BY <2>1, <1>1 DEF TreeInv
    <2> QED
        BY <2>1, ScanFacts DEF TreeInv
<1>3. op' = [op EXCEPT ![g] = [stage |-> "guarded", block |-> b,
                               conflicts |-> ScanConflicts(Number[b]), asBest |-> FALSE]]
    BY <1>2 DEF Guard
<1>4. maxBlockNum' \in Nat /\ maxBlockNum' >= maxBlockNum /\ Number[b] <= maxBlockNum'
    BY <1>1 DEF Guard
<1>5. TypeOK'
    BY <1>0, <1>1, <1>3, <1>4 DEF TypeOK, Guard, diskVars, Stages, Stored, Op
<1>6. \A h \in Goroutine : h # g => op'[h] = op[h] /\ op[h].stage = "idle"
    BY <1>3, OthersIdle DEF Guard, TypeOK
<1>7. LockInv'
    BY <1>6 DEF LockInv, Guard
<1>8. TreeInv'
    <2>1. Stored' = Stored
        BY <1>0, DiskUnchanged
    <2> QED
        BY <2>1, <1>4, <1>1, BlockAssumption DEF TreeInv, TypeOK
<1>9. OpsInv'
    <2> SUFFICES ASSUME NEW h \in Goroutine PROVE OpInv(h)'
        BY DEF OpsInv
    <2>1. CASE h # g
        BY <2>1, <1>6, IdleOp DEF OpInv
    <2>2. CASE h = g
        <3>1. op'[g].stage = "guarded" /\ op'[g].block = b
              /\ op'[g].conflicts = ScanConflicts(Number[b])
            BY <1>3 DEF TypeOK
        <3>2. ScanConflicts(Number[b])' = ScanConflicts(Number[b])
            BY <1>0, DiskUnchanged
        <3> QED
            BY <2>2, <3>1, <3>2, <1>4 DEF OpInv
    <2> QED
        BY <2>1, <2>2
<1> QED
    BY <1>0, <1>5, <1>7, <1>8, <1>9, DiskUnchanged

\* Going idle, with the lock released, keeps the invariant.
LEMMA ReleaseInv ==
    ASSUME IInv, NEW g \in Goroutine, op[g].stage # "idle", Release(g),
           UNCHANGED <<diskVars, maxBlockNum>>, bestSummary' \in Stored
    PROVE  IInv'
<1> USE DEF IInv
<1>0. UNCHANGED diskVars /\ maxBlockNum' = maxBlockNum /\ Stored' = Stored
    BY DiskUnchanged
<1>1. \A h \in Goroutine : op'[h].stage = "idle"
    BY OthersIdle DEF Release, Idle, TypeOK, LockInv
<1>2. TypeOK'
    <2>1. Idle \in Op
        BY BlockAssumption DEF Idle, Stages, Op
    <2> QED
        BY <1>0, <2>1 DEF TypeOK, Release, diskVars
<1>3. LockInv'
    BY <1>1 DEF LockInv
<1>4. TreeInv'
    BY <1>0 DEF TreeInv
<1>5. OpsInv'
    BY <1>1 DEF OpsInv, OpInv
<1> QED
    BY <1>0, <1>2, <1>3, <1>4, <1>5, DiskUnchanged

\* The checks of processBlock leave a block that is new and has its parent.
LEMMA ValidateInv ==
    ASSUME IInv, NEW g \in Goroutine, Validate(g)
    PROVE  IInv'
<1> USE DEF IInv
<1>0. UNCHANGED diskVars /\ maxBlockNum' = maxBlockNum /\ Stored' = Stored
    BY DiskUnchanged DEF Validate
<1>1. /\ op' \in [Goroutine -> Op]
      /\ op'[g].stage = "validated" /\ op'[g].block = op[g].block
      /\ op'[g].conflicts = op[g].conflicts
      /\ \A h \in Goroutine : h # g => op'[h] = op[h]
    <2>1. PICK asBest \in BOOLEAN :
             op' = [op EXCEPT ![g].stage = "validated", ![g].asBest = asBest]
        BY DEF Validate
    <2> QED
        BY <2>1 DEF TypeOK, Stages, Op
<1>2. TypeOK'
    BY <1>0, <1>1 DEF TypeOK, Validate, diskVars
<1>3. LockInv'
    BY <1>1 DEF LockInv, Validate
<1>4. TreeInv'
    BY <1>0 DEF TreeInv
<1>5. OpInv(g)'
    <2>1. op[g].block \notin Stored /\ Parent[op[g].block] \in Stored
        <3>1. CASE op[g].conflicts > 0
            BY <3>1 DEF Validate
        <3>2. CASE op[g].conflicts = 0
            BY <3>2, ScanFacts DEF Validate, TreeInv, OpsInv, OpInv
        <3> QED
            BY <3>1, <3>2 DEF TypeOK, Validate, Op
    <2> QED
        BY <2>1, <1>0, <1>1, DiskUnchanged DEF OpsInv, OpInv, Validate
<1>6. \A h \in Goroutine : h # g => OpInv(h)'
    BY <1>1, OthersIdle DEF OpInv, LockInv, Validate
<1>7. OpsInv'
    BY <1>5, <1>6 DEF OpsInv
<1> QED
    BY <1>0, <1>2, <1>3, <1>4, <1>7, DiskUnchanged

\* A restart finds the greatest number again.
LEMMA CrashInv ==
    ASSUME IInv, Crash
    PROVE  IInv'
<1> USE DEF IInv
<1>0. UNCHANGED diskVars /\ Stored' = Stored
    BY DiskUnchanged DEF Crash
<1>1. \A h \in Goroutine : op'[h].stage = "idle"
    BY DEF Crash, Idle
<1>2. maxBlockNum' \in Nat /\ \A b \in Stored : Number[b] <= maxBlockNum'
    BY BlockAssumption DEF Crash, IsMaxBlockNum, TypeOK
<1>3. TypeOK'
    <2>1. Idle \in Op
        BY BlockAssumption DEF Idle, Stages, Op
    <2> QED
        BY <1>0, <1>2, <2>1 DEF TypeOK, Crash, diskVars
<1>4. LockInv'
    BY <1>1 DEF LockInv
<1>5. TreeInv'
    BY <1>0, <1>2 DEF TreeInv
<1>6. OpsInv'
    BY <1>1 DEF OpsInv, OpInv
<1> QED
    BY <1>0, <1>3, <1>4, <1>5, <1>6, DiskUnchanged

-----------------------------------------------------------------------------
(* Steps that write *)

\* A goroutine that moves on to the next stage holds the lock, alone.
LEMMA ToStage ==
    ASSUME IInv, NEW g \in Goroutine, op[g].stage # "idle", NEW stage \in Stages, To(g, stage),
           lock' = lock
    PROVE  /\ op' \in [Goroutine -> Op]
           /\ op'[g].stage = stage /\ op'[g].block = op[g].block
           /\ op'[g].conflicts = op[g].conflicts
           /\ OpVersion(g)' = OpVersion(g)
           /\ LockInv'
           /\ \A h \in Goroutine : h # g => OpInv(h)'
<1> USE DEF IInv
<1>1. /\ op' \in [Goroutine -> Op]
      /\ op'[g].stage = stage /\ op'[g].block = op[g].block
      /\ op'[g].conflicts = op[g].conflicts
      /\ \A h \in Goroutine : h # g => op'[h] = op[h]
    BY DEF To, TypeOK, Op
<1>2. lock = g /\ \A h \in Goroutine : h # g => op'[h].stage = "idle"
    BY <1>1, OthersIdle DEF LockInv
<1> QED
    BY <1>1, <1>2 DEF LockInv, OpInv, OpVersion

\* stage.Commit writes the state under a version nobody reads.
LEMMA CommitStateInv ==
    ASSUME IInv, NEW g \in Goroutine, CommitState(g)
    PROVE  IInv'
<1> USE DEF IInv
<1> DEFINE b == op[g].block
<1>1. /\ op[g].stage = "validated" /\ To(g, "committed") /\ "committed" \in Stages
      /\ conflicts' = conflicts /\ index' = index /\ bodies' = bodies
      /\ maxBlockNum' = maxBlockNum /\ lock' = lock
      /\ state' = Put(state, OpVersion(g), b)
    BY DEF CommitState, Stages
<1>2. Stored' = Stored /\ (\A c : Version(c)' = Version(c))
      /\ \A num : ScanConflicts(num)' = ScanConflicts(num)
    BY <1>1 DEF Stored, Version, ScanConflicts, SameNumber
<1>3. /\ op' \in [Goroutine -> Op]
      /\ op'[g].stage = "committed" /\ op'[g].block = b
      /\ op'[g].conflicts = op[g].conflicts
      /\ OpVersion(g)' = OpVersion(g)
      /\ LockInv'
      /\ \A h \in Goroutine : h # g => OpInv(h)'
    BY <1>1, ToStage
<1>4. /\ Function(state') /\ DOMAIN state' = DOMAIN state \cup {OpVersion(g)}
      /\ state'[OpVersion(g)] = b
      /\ \A v \in DOMAIN state : v # OpVersion(g) => state'[v] = state[v]
    BY <1>1 DEF Put, Function
<1>5. TypeOK'
    <2>1. b \in Block
        BY DEF TypeOK, Op
    <2>2. \A v \in DOMAIN state' : state'[v] \in Block
        BY <2>1, <1>4 DEF TypeOK
    <2>3. heads' = heads /\ bestKey' = bestKey /\ bestSummary' = bestSummary
        BY DEF CommitState
    <2> QED
        BY <1>1, <1>2, <1>3, <1>4, <2>2, <2>3 DEF TypeOK
<1>6. TreeInv' /\ ConflictsInv' /\ VersionsUnique'
    BY <1>1, <1>2 DEF TreeInv, ConflictsInv, VersionsUnique
<1>7. PathInv'
    BY SMTT(30), <1>1, <1>2 DEF PathInv, Path
<1>8. DataIsOwn'
    BY SMTT(30), <1>1, <1>2, <1>4, FreshVersion DEF DataIsOwn
<1>9. OpInv(g)'
    BY <1>1, <1>2, <1>3, <1>4 DEF OpsInv, OpInv, StateIs
<1>10. OpsInv'
    BY <1>3, <1>9 DEF OpsInv
<1> QED
    BY <1>3, <1>5, <1>6, <1>7, <1>8, <1>10

\* indexBlock writes, under that version, the path to the new block.
LEMMA IndexBlockInv ==
    ASSUME IInv, NEW g \in Goroutine, IndexBlock(g)
    PROVE  IInv'
<1> USE DEF IInv
<1> DEFINE b == op[g].block
           p == Parent[b]
           idx == Put(index[Version(p)], Number[b], b)
<1>1. /\ op[g].stage = "committed" /\ To(g, "indexed") /\ "indexed" \in Stages
      /\ conflicts' = conflicts /\ state' = state /\ bodies' = bodies
      /\ maxBlockNum' = maxBlockNum /\ lock' = lock
      /\ index' = Put(index, OpVersion(g), idx)
    BY ZenonT(40) DEF IndexBlock, Stages
<1>2. Stored' = Stored /\ (\A c : Version(c)' = Version(c))
      /\ \A num : ScanConflicts(num)' = ScanConflicts(num)
    BY <1>1 DEF Stored, Version, ScanConflicts, SameNumber
<1>3. /\ op' \in [Goroutine -> Op]
      /\ op'[g].stage = "indexed" /\ op'[g].block = b
      /\ op'[g].conflicts = op[g].conflicts
      /\ OpVersion(g)' = OpVersion(g)
      /\ LockInv'
      /\ \A h \in Goroutine : h # g => OpInv(h)'
    BY Zenon, <1>1, ToStage
<1>4. /\ Function(index') /\ DOMAIN index' = DOMAIN index \cup {OpVersion(g)}
      /\ index'[OpVersion(g)] = idx
      /\ \A v \in DOMAIN index : v # OpVersion(g) => index'[v] = index[v]
    BY ZenonT(40), <1>1 DEF Put, Function
<1>5. b \in Block \ {Genesis} /\ b \notin Stored /\ p \in Stored
    BY <1>1 DEF TypeOK, OpsInv, OpInv, TreeInv, Op
<1>6. Path(Version(p), p) /\ Number[b] = Number[p] + 1 /\ Number[p] \in Nat /\ p \in Block
    BY <1>5, BlockAssumption DEF PathInv
<1>7. /\ Function(idx) /\ DOMAIN idx = 0 .. Number[b]
      /\ idx[Number[b]] = b
      /\ \A n \in 0 .. Number[p] : idx[n] = index[Version(p)][n]
    <2>1. /\ Function(idx) /\ DOMAIN idx = (DOMAIN index[Version(p)]) \cup {Number[b]}
          /\ idx[Number[b]] = b
          /\ \A n \in DOMAIN index[Version(p)] : n # Number[b] => idx[n] = index[Version(p)][n]
        BY Zenon DEF Put, Function
    <2>2. DOMAIN index[Version(p)] = 0 .. Number[p]
        BY Zenon, <1>6 DEF Path
    <2> HIDE DEF idx, b, p
    <2>3. DOMAIN idx = 0 .. Number[b]
        BY <2>1, <2>2, <1>6
    <2>4. \A n \in 0 .. Number[p] : idx[n] = index[Version(p)][n]
        BY <2>1, <2>2, <1>6
    <2> QED
        BY <2>1, <2>3, <2>4
<1>8. Path(OpVersion(g), op[g].block)'
    <2> HIDE DEF idx, b, p
    <2>1. /\ OpVersion(g) \in DOMAIN index' /\ DOMAIN idx = 0 .. Number[b]
          /\ idx[0] = Genesis /\ idx[Number[b]] = b
        BY <1>4, <1>6, <1>7 DEF Path
    <2>2. \A n \in 0 .. Number[b] : Number[idx[n]] = n
        BY <1>6, <1>7 DEF Path
    <2>3. \A n \in 0 .. Number[b] : n # Number[b] => idx[n] \in Stored
        <3> SUFFICES ASSUME NEW n \in 0 .. Number[p] PROVE index[Version(p)][n] \in Stored
            BY <1>6, <1>7
        <3> QED
            BY <1>5, <1>6 DEF Path
    <2>4. \A n \in 1 .. Number[b] : idx[n] # Genesis /\ Parent[idx[n]] = idx[n - 1]
        <3> SUFFICES ASSUME NEW n \in 1 .. Number[b]
                     PROVE  idx[n] # Genesis /\ Parent[idx[n]] = idx[n - 1]
            OBVIOUS
        <3>1. CASE n = Number[b]
            <4>1. idx[n] = b /\ idx[n - 1] = p
                BY <3>1, <1>6, <1>7 DEF Path
            <4> QED
                BY <4>1, <1>5 DEF p
        <3>2. CASE n \in 1 .. Number[p]
            BY <3>2, <1>6, <1>7 DEF Path
        <3> QED
            BY <3>1, <3>2, <1>6
    <2> QED
        BY Zenon, <2>1, <2>2, <2>3, <2>4, <1>2, <1>3, <1>4 DEF Path, b
<1>9. TypeOK'
    <2>1. \A n \in DOMAIN idx : idx[n] \in Block
        <3> HIDE DEF idx, b, p
        <3>1. \A n \in 0 .. Number[p] : index[Version(p)][n] \in Block
            BY <1>6 DEF TypeOK, Path
        <3>2. \A n \in 0 .. Number[b] : n \in 0 .. Number[p] \/ n = Number[b]
            BY <1>6
        <3> QED
            BY <3>1, <3>2, <1>5, <1>7
    <2> QED
        BY ZenonT(40), <1>1, <1>2, <1>3, <1>4, <1>7, <2>1 DEF TypeOK, IndexBlock
<1>10. TreeInv' /\ ConflictsInv' /\ VersionsUnique' /\ DataIsOwn'
    BY SMTT(30), <1>1, <1>2 DEF TreeInv, ConflictsInv, VersionsUnique, DataIsOwn
<1>11. PathInv'
    <2> SUFFICES ASSUME NEW c \in Stored PROVE Path(Version(c), c)'
        BY <1>2 DEF PathInv
    <2>1. Path(Version(c), c) /\ Version(c) # OpVersion(g)
        BY <1>1, FreshVersion DEF PathInv
    <2> QED
        BY ZenonT(40), <2>1, <1>2, <1>4 DEF Path
<1>12. OpInv(g)'
    BY Zenon, <1>1, <1>2, <1>3, <1>8 DEF OpsInv, OpInv, StateIs
<1>13. OpsInv'
    BY SMTT(30), <1>3, <1>12 DEF OpsInv
<1> QED
    BY Zenon, <1>3, <1>9, <1>10, <1>11, <1>13

\* What saveBlock writes, seen from the other stored blocks.
LEMMA SaveBlockFacts ==
    ASSUME IInv, NEW g \in Goroutine, SaveBlock(g)
    PROVE  /\ op[g].block \in Block \ {Genesis} /\ op[g].block \notin Stored
           /\ Parent[op[g].block] \in Stored
           /\ Stored' = Stored \cup {op[g].block}
           /\ \A c \in Stored : conflicts'[c] = conflicts[c] /\ Version(c)' = Version(c)
           /\ conflicts'[op[g].block] = op[g].conflicts
           /\ Function(conflicts')
<1>1. /\ op[g].block \in Block /\ op[g].block \notin Stored
      /\ Parent[op[g].block] \in Stored /\ Genesis \in Stored
    BY DEF IInv, TypeOK, OpsInv, OpInv, TreeInv, SaveBlock, Op
<1>2. conflicts' = Put(conflicts, op[g].block, op[g].conflicts)
    BY Zenon DEF SaveBlock
<1>3. /\ Stored' = Stored \cup {op[g].block}
      /\ \A c \in Stored : conflicts'[c] = conflicts[c]
      /\ conflicts'[op[g].block] = op[g].conflicts
      /\ Function(conflicts')
    BY <1>1, <1>2 DEF Put, Function, Stored
<1> QED
    BY SMTT(30), <1>1, <1>3 DEF Version

\* saveBlock adds the block under its version, in one write.
LEMMA SaveBlockInv ==
    ASSUME IInv, NEW g \in Goroutine, SaveBlock(g)
    PROVE  IInv'
<1> USE DEF IInv
<1>0. PICK b \in Block : b = op[g].block
    BY SMTT(30) DEF TypeOK, Op
<1>1. /\ op[g].stage = "indexed" /\ To(g, "saved") /\ "saved" \in Stages
      /\ index' = index /\ state' = state
      /\ maxBlockNum' = maxBlockNum /\ lock' = lock
      /\ bodies' = Put(bodies, OpVersion(g), b)
    BY <1>0 DEF SaveBlock, Stages
<1>2. /\ b \in Block \ {Genesis} /\ b \notin Stored /\ Parent[b] \in Stored
      /\ Stored' = Stored \cup {b}
      /\ \A c \in Stored : conflicts'[c] = conflicts[c] /\ Version(c)' = Version(c)
      /\ conflicts'[b] = op[g].conflicts
      /\ Function(conflicts')
    BY <1>0, SaveBlockFacts
<1>3. /\ op' \in [Goroutine -> Op]
      /\ op'[g].stage = "saved" /\ op'[g].block = b
      /\ LockInv'
      /\ \A h \in Goroutine : h # g => OpInv(h)'
    BY <1>0, <1>1, ToStage
<1>4. /\ Function(bodies') /\ DOMAIN bodies' = DOMAIN bodies \cup {OpVersion(g)}
      /\ bodies'[OpVersion(g)] = b
      /\ \A v \in DOMAIN bodies : v # OpVersion(g) => bodies'[v] = bodies[v]
    BY SMTT(30), <1>1 DEF Put, Function
<1>5. /\ op[g].conflicts = ScanConflicts(Number[b]) /\ op[g].conflicts \in Nat
      /\ Number[b] <= maxBlockNum
      /\ StateIs(OpVersion(g), b) /\ Path(OpVersion(g), b)
    BY <1>0, <1>1 DEF OpsInv, OpInv, TypeOK, Op
<1>6. Version(b)' = OpVersion(g)
    BY <1>0, <1>2 DEF Version, OpVersion
<1>7. TypeOK'
    <2>1. bestKey' \in Stored' /\ bestSummary' \in Stored' /\ heads' \subseteq Block
        BY Zenon, <1>0, <1>2 DEF SaveBlock, TypeOK, IndexChainHead
    <2> QED
        BY Zenon, <1>1, <1>2, <1>3, <1>4, <1>5, <2>1 DEF TypeOK
<1>8. TreeInv' /\ ConflictsInv'
    <2>1. /\ IsFiniteSet(Stored')
          /\ ScanConflicts(Number[b])' = ScanConflicts(Number[b]) + 1
          /\ \A num : num # Number[b] => ScanConflicts(num)' = ScanConflicts(num)
        BY Zenon, <1>2, ScanAdd DEF TreeInv
    <2>2. TreeInv'
        BY Zenon, <2>1, <1>1, <1>2, <1>5 DEF TreeInv
    <2>3. \A c \in Stored : conflicts[c] < ScanConflicts(Number[c]) /\ conflicts[c] \in Nat
                            /\ ScanConflicts(Number[c]) \in Nat
        BY ScanFacts DEF ConflictsInv, TypeOK, TreeInv
    <2>4. ConflictsInv'
        <3> SUFFICES ASSUME NEW c \in Stored \cup {b}
                     PROVE  conflicts'[c] < ScanConflicts(Number[c])'
            BY SMTT(30), <1>2 DEF ConflictsInv
        <3>1. CASE c = b
            BY <3>1, <2>1, <1>2, <1>5
        <3>2. CASE c \in Stored /\ Number[c] = Number[b]
            BY <3>2, <2>1, <2>3, <1>2, <1>5
        <3>3. CASE c \in Stored /\ Number[c] # Number[b]
            BY <3>3, <2>1, <2>3, <1>2
        <3> QED
            BY <3>1, <3>2, <3>3
    <2> QED
        BY <2>2, <2>4
<1>9. \A c \in Stored : Version(c) # OpVersion(g)
    BY <1>1, FreshVersion
<1>10. VersionsUnique'
    BY SMTT(30), <1>2, <1>6, <1>9 DEF VersionsUnique
<1>11. PathInv'
    <2>1. \A v, c : Path(v, c) => Path(v, c)'
        BY SMTT(30), <1>1, <1>2 DEF Path
    <2> QED
        BY SMTT(30), <2>1, <1>2, <1>5, <1>6 DEF PathInv
<1>12. DataIsOwn'
    BY <1>1, <1>2, <1>4, <1>5, <1>6, <1>9 DEF DataIsOwn, StateIs
<1>13. OpsInv'
    BY Zenon, <1>2, <1>3 DEF OpsInv, OpInv
<1> QED
    BY <1>3, <1>7, <1>8, <1>10, <1>11, <1>12, <1>13

-----------------------------------------------------------------------------
(* Theorems *)

\* Every step of the store keeps the invariant.
LEMMA StepInv == IInv /\ [Next]_vars => IInv'
<1> SUFFICES ASSUME IInv, [Next]_vars PROVE IInv'
    OBVIOUS
<1>1. ASSUME NEW g \in Goroutine, NEW b \in Block, Guard(g, b) PROVE IInv'
    BY <1>1, GuardInv
<1>2. ASSUME NEW g \in Goroutine, Fail(g) PROVE IInv'
    <2>1. op[g].stage # "idle" /\ Release(g) /\ UNCHANGED <<diskVars, maxBlockNum>>
        BY <1>2 DEF Fail
    <2>2. bestSummary' \in Stored
        BY <1>2 DEF Fail, IInv, TypeOK
    <2> QED
        BY <2>1, <2>2, ReleaseInv
<1>3. ASSUME NEW g \in Goroutine, Validate(g) PROVE IInv'
    BY <1>3, ValidateInv
<1>4. ASSUME NEW g \in Goroutine, CommitState(g) PROVE IInv'
    BY <1>4, CommitStateInv
<1>5. ASSUME NEW g \in Goroutine, IndexBlock(g) PROVE IInv'
    BY <1>5, IndexBlockInv
<1>6. ASSUME NEW g \in Goroutine, SaveBlock(g) PROVE IInv'
    BY <1>6, SaveBlockInv
<1>7. ASSUME NEW g \in Goroutine, Publish(g) PROVE IInv'
    <2>1. op[g].stage # "idle" /\ Release(g) /\ UNCHANGED <<diskVars, maxBlockNum>>
        BY SMTT(30), <1>7 DEF Publish
    <2>2. bestSummary' \in Stored
        BY <1>7 DEF Publish, IInv, TypeOK, OpsInv, OpInv
    <2> QED
        BY <2>1, <2>2, ReleaseInv
<1>8. CASE Crash
    BY <1>8, CrashInv
<1>9. CASE UNCHANGED vars
    <2>1. UNCHANGED diskVars /\ UNCHANGED memVars
        BY <1>9 DEF vars
    <2>2. TypeOK' /\ LockInv' /\ TreeInv'
        BY <2>1 DEF IInv, TypeOK, LockInv, TreeInv, diskVars, memVars, Stored
    <2>3. OpsInv'
        BY Zenon, <2>1, DiskUnchanged DEF IInv, OpsInv, OpInv, OpVersion, memVars
    <2> QED
        BY <2>1, <2>2, <2>3, DiskUnchanged DEF IInv
<1> QED
    BY <1>1, <1>2, <1>3, <1>4, <1>5, <1>6, <1>7, <1>8, <1>9 DEF Next

\* The invariant holds in every reachable state.
THEOREM Invariance == Spec => []IInv
BY InitInv, StepInv, PTL DEF Spec

\* Types are respected in every reachable state of the store.
THEOREM TypeCorrect == Spec => []TypeOK
<1>1. IInv => TypeOK
    BY DEF IInv
<1> QED
    BY <1>1, Invariance, PTL

\* No two stored blocks ever share a version <<number, conflicts>>.
THEOREM VersionsAreUnique == Spec => []VersionsUnique
<1>1. IInv => VersionsUnique
    BY DEF IInv
<1> QED
    BY <1>1, Invariance, PTL

\* The index trie of a stored block is always the path from Genesis to it.
THEOREM IndexIsRight == Spec => []IndexIsPath
<1>1. IInv => IndexIsPath
    BY DEF IInv, PathInv, Path, IndexIsPath, GetBlockID
<1> QED
    BY <1>1, Invariance, PTL

\* State, transactions and receipts of a stored block are always its own.
THEOREM DataIsRight == Spec => []DataIsOwn
<1>1. IInv => DataIsOwn
    BY DEF IInv
<1> QED
    BY <1>1, Invariance, PTL

\* A stored block is never dropped and never gets another version.
THEOREM NothingIsLost == Spec => StoredStays
<1>1. ASSUME IInv, [Next]_vars
      PROVE  \A b \in Stored : b \in Stored' /\ conflicts'[b] = conflicts[b]
    <2>1. CASE \E g \in Goroutine : SaveBlock(g)
        BY <1>1, <2>1, SaveBlockFacts
    <2>2. CASE ~ \E g \in Goroutine : SaveBlock(g)
        <3>1. conflicts' = conflicts
            BY <1>1, <2>2 DEF Next, Guard, Fail, Validate, CommitState, IndexBlock, Publish,
                              Crash, vars, diskVars
        <3> QED
            BY <3>1 DEF Stored
    <2> QED
        BY <2>1, <2>2
<1> QED
    BY <1>1, Invariance, PTL DEF Spec, StoredStays

\* The heads are always the leaves of the stored tree.
THEOREM HeadsAreRight == Spec => []HeadsAreLeaves
<1>1. Init => HeadsAreLeaves
    BY BlockAssumption DEF Init, HeadsAreLeaves, Stored
<1>2. ASSUME IInv, HeadsAreLeaves, [Next]_vars
      PROVE  HeadsAreLeaves'
    <2>1. ASSUME NEW g \in Goroutine, SaveBlock(g)
          PROVE  HeadsAreLeaves'
        <3>1. PICK b \in Block \ {Genesis} : b = op[g].block
            BY <1>2, <2>1, SaveBlockFacts
        <3>2. b \notin Stored /\ Parent[b] \in Stored /\ Stored' = Stored \cup {b}
            BY <1>2, <2>1, <3>1, SaveBlockFacts
        <3>3. heads' = (heads \ {Parent[b]}) \cup {b}
            BY <2>1, <3>1 DEF SaveBlock, IndexChainHead
        <3>4. \A c \in Stored \ {Genesis} : Parent[c] # b
            BY <1>2, <3>2 DEF IInv, TreeInv
        <3>5. Parent[b] # b
            BY <3>2
        <3> QED
            BY <1>2, <3>2, <3>3, <3>4, <3>5 DEF HeadsAreLeaves
    <2>2. CASE ~ \E g \in Goroutine : SaveBlock(g)
        <3>1. conflicts' = conflicts /\ heads' = heads
            BY <1>2, <2>2 DEF Next, Guard, Fail, Validate, CommitState, IndexBlock, Publish,
                              Crash, vars, diskVars
        <3> QED
            BY <1>2, <3>1 DEF HeadsAreLeaves, Stored
    <2> QED
        BY <2>1, <2>2
<1> QED
    BY <1>1, <1>2, Invariance, PTL DEF Spec

\* The transaction index holds the transactions of the stored blocks.
TxInv == txIndex = UNION {{<<tx, Version(b)>> : tx \in TxsOf[b]} : b \in Stored}

\* saveBlock keeps the transaction index in step with the stored blocks.
LEMMA TxIndexInv == Spec => []TxInv
<1>1. Init => TxInv
    BY TxAssumption DEF Init, TxInv, Stored
<1>2. ASSUME IInv, TxInv, [Next]_vars
      PROVE  TxInv'
    <2>1. ASSUME NEW g \in Goroutine, SaveBlock(g)
          PROVE  TxInv'
        <3>1. PICK b \in Block \ {Genesis} : b = op[g].block
            BY <1>2, <2>1, SaveBlockFacts
        <3>2. /\ b \notin Stored /\ Stored' = Stored \cup {b}
              /\ \A c \in Stored : Version(c)' = Version(c)
              /\ Version(b)' = OpVersion(g)
            BY SMTT(30), <1>2, <2>1, <3>1, SaveBlockFacts DEF Version, OpVersion
        <3>3. txIndex' = txIndex \cup {<<tx, OpVersion(g)>> : tx \in TxsOf[b]}
            BY <2>1, <3>1 DEF SaveBlock
        <3> QED
            BY <1>2, <3>2, <3>3 DEF TxInv
    <2>2. CASE ~ \E g \in Goroutine : SaveBlock(g)
        <3>1. conflicts' = conflicts /\ txIndex' = txIndex
            BY ZenonT(40), <1>2, <2>2 DEF Next, Guard, Fail, Validate, CommitState, IndexBlock, Publish,
                              Crash, vars, diskVars
        <3> QED
            BY <1>2, <3>1 DEF TxInv, Stored, Version
    <2> QED
        BY <2>1, <2>2
<1> QED
    BY <1>1, <1>2, Invariance, PTL DEF Spec

\* A version found at a number of a chain is the one of the chain's block.
LEMMA OnChain ==
    ASSUME IInv, NEW head \in Stored, NEW b \in Stored
    PROVE  HasBlock(head, b) <=>
              Number[b] <= Number[head] /\ conflicts[GetBlockID(head, Number[b])] = conflicts[b]
<1>1. /\ DOMAIN index[Version(head)] = 0 .. Number[head]
      /\ GetBlockID(head, Number[head]) = head
      /\ \A n \in 0 .. Number[head] : Number[GetBlockID(head, n)] = n
      /\ \A n \in 0 .. Number[head] : n # Number[head] => GetBlockID(head, n) \in Stored
    BY DEF IInv, PathInv, Path, GetBlockID
<1>2. Number[b] \in Nat /\ Number[head] \in Nat
    BY SMTT(30), BlockAssumption DEF IInv, TypeOK
<1>3. ASSUME HasBlock(head, b)
      PROVE  Number[b] <= Number[head] /\ conflicts[GetBlockID(head, Number[b])] = conflicts[b]
    <2>1. Number[b] \in 0 .. Number[head] /\ GetBlockID(head, Number[b]) = b
        BY <1>1, <1>3 DEF HasBlock
    <2> QED
        BY <2>1, <1>2
<1>4. ASSUME Number[b] <= Number[head], conflicts[GetBlockID(head, Number[b])] = conflicts[b]
      PROVE  HasBlock(head, b)
    <2>1. Number[b] \in 0 .. Number[head]
        BY <1>2, <1>4
    <2>2. PICK c : c = GetBlockID(head, Number[b])
        OBVIOUS
    <2>3. c \in Stored /\ Number[c] = Number[b]
        BY <2>1, <2>2, <1>1
    <2>4. Version(c) = Version(b)
        BY <2>2, <2>3, <1>4 DEF Version
    <2>5. c = b
        BY <2>3, <2>4 DEF IInv, VersionsUnique
    <2> QED
        BY <2>1, <2>2, <2>5, <1>1 DEF HasBlock
<1> QED
    BY <1>3, <1>4

\* A transaction is always found on exactly the chains that include it, and
\* is read from the block that has it.
THEOREM TxLookupIsRight == Spec => []TxLookupExact
<1>1. ASSUME IInv, TxInv
      PROVE  TxLookupExact
    <2> SUFFICES ASSUME NEW head \in Stored, NEW tx \in Tx
                 PROVE  {bodies[v] : v \in GetTransactionMeta(head, tx)}
                            = {b \in Stored : HasBlock(head, b) /\ tx \in TxsOf[b]}
        BY DEF TxLookupExact
    <2>1. \A b \in Stored : bodies[Version(b)] = b
        BY <1>1 DEF IInv, DataIsOwn
    <2>2. \A b \in Stored : Version(b)[1] = Number[b] /\ Version(b)[2] = conflicts[b]
        BY DEF Version
    <2>3. ASSUME NEW v \in GetTransactionMeta(head, tx)
          PROVE  bodies[v] \in {b \in Stored : HasBlock(head, b) /\ tx \in TxsOf[b]}
        <3>1. PICK e \in txIndex : e[1] = tx /\ v = e[2]
            BY <2>3 DEF GetTransactionMeta
        <3>2. PICK b \in Stored : \E x \in TxsOf[b] : e = <<x, Version(b)>>
            BY <1>1, <3>1 DEF TxInv
        <3>3. v = Version(b) /\ tx \in TxsOf[b]
            BY <3>1, <3>2
        <3>4. Number[b] <= Number[head] /\ conflicts[GetBlockID(head, Number[b])] = conflicts[b]
            BY <2>2, <2>3, <3>3 DEF GetTransactionMeta
        <3> QED
            BY <1>1, <2>1, <3>3, <3>4, OnChain
    <2>4. ASSUME NEW b \in Stored, HasBlock(head, b), tx \in TxsOf[b]
          PROVE  Version(b) \in GetTransactionMeta(head, tx)
        <3>1. <<tx, Version(b)>> \in txIndex
            BY <1>1, <2>4 DEF TxInv
        <3>2. Number[b] <= Number[head] /\ conflicts[GetBlockID(head, Number[b])] = conflicts[b]
            BY <1>1, <2>4, OnChain
        <3> QED
            BY <2>2, <3>1, <3>2 DEF GetTransactionMeta
    <2> QED
        BY <2>1, <2>3, <2>4
<1> QED
    BY <1>1, Invariance, TxIndexInv, PTL

\* The store, with its locks, failures and crashes, implements BlockTree.
THEOREM Refinement == Spec => ImplementsTree
<1>1. Init => Tree!Init
    BY DEF Init, Tree!Init, Stored
<1>2. ASSUME IInv, [Next]_vars
      PROVE  [Tree!Next]_(Tree!treeVars)
    <2>1. ASSUME NEW g \in Goroutine, SaveBlock(g)
          PROVE  Tree!Next
        <3>1. PICK b \in Block \ {Genesis} : b = op[g].block
            BY <1>2, <2>1, SaveBlockFacts
        <3>2. b \notin Stored /\ Parent[b] \in Stored /\ Stored' = Stored \cup {b}
            BY <1>2, <2>1, <3>1, SaveBlockFacts
        <3>3. bestKey' \in {bestKey, b}
            BY <2>1, <3>1 DEF SaveBlock
        <3>4. Tree!AddBlock(b)
            BY <3>2, <3>3 DEF Tree!AddBlock
        <3> QED
            BY <3>2, <3>4 DEF Tree!Next
    <2>2. CASE ~ \E g \in Goroutine : SaveBlock(g)
        <3>1. conflicts' = conflicts /\ bestKey' = bestKey
            BY <1>2, <2>2 DEF Next, Guard, Fail, Validate, CommitState, IndexBlock, Publish,
                              Crash, vars, diskVars
        <3> QED
            BY <3>1 DEF Tree!treeVars, Stored
    <2> QED
        BY <2>1, <2>2
<1> QED
    BY <1>1, <1>2, Invariance, PTL DEF Spec, ImplementsTree, Tree!Spec
=============================================================================
