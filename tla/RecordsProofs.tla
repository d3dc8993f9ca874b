--------------------------- MODULE RecordsProofs ----------------------------
(***************************************************************************)
(* Proofs about DatasetStore, for every set of processes, data sets and keys*)
(* and any number of writes and retries; about MetadataBatch, for any      *)
(* threads, keys and size of a flush; about QlibSync, for every sequence of*)
(* releases; about BaostockClient, for any queries and bounds; and about   *)
(* ValuationPercentile, for any bars, leap years and windows.              *)
(***************************************************************************)
EXTENDS DatasetStore, MetadataBatch, QlibSync, BaostockClient, ValuationPercentile,
        SequenceTheorems, FiniteSetTheorems, WellFoundedInduction, TLAPS

-----------------------------------------------------------------------------
(* The store                                                               *)

Partitions == [RowKeys -> Nat]
Upsert == [set : DataSets, key : RowKeys, version : Nat, existing : Partitions, tries : Nat]
Replaced == [set : DataSets, key : RowKeys, version : Nat, readBy : Nat]
Stages == {"idle", "merged", "written", "replaced", "refreshing"}

\* The types, and that a process in the middle of an upsert has one.
StoreTypeOK ==
    /\ partition \in [DataSets -> Partitions] /\ inventory \in [DataSets -> Partitions]
    /\ writing \in [StoreProcs -> Stages]
    /\ \A p \in StoreProcs :
          writing[p] \in {"merged", "written", "replaced"} => write[p] \in Upsert
    /\ DOMAIN write = StoreProcs
    /\ tmpFile \in [StoreProcs -> BOOLEAN]
    /\ dirty \in [StoreProcs -> SUBSET DataSets]
    /\ copy \in [StoreProcs -> [DataSets -> Partitions]]
    /\ versions \in Nat /\ replaced \in Seq(Replaced) /\ told \subseteq Nat
    /\ behind \subseteq DataSets
    /\ touched \in [StoreProcs -> SUBSET DataSets]

LEMMA CombinedType == ASSUME NEW w \in Upsert PROVE Combined(w) \in Partitions
BY DEF Combined, Upsert, Partitions

LEMMA OneMoreTry == ASSUME NEW w \in Upsert PROVE [w EXCEPT !.tries = @ + 1] \in Upsert
BY DEF Upsert

LEMMA NoInventoryType == NoInventory \in [DataSets -> Partitions]
BY StoreAssumption DEF NoInventory, Partitions

\* Each step of _write_dataset_upsert_partition and of refresh_inventory keeps the types.
LEMMA TypeStep == StoreTypeOK /\ [StoreNext]_storeVars => StoreTypeOK'
<1> SUFFICES ASSUME StoreTypeOK, [StoreNext]_storeVars PROVE StoreTypeOK'
    OBVIOUS
<1> USE StoreAssumption DEF StoreTypeOK, Stages, Goes
<1>1. CASE UNCHANGED storeVars
    BY <1>1 DEF storeVars, fileVars, processVars, pastVars
<1>2. ASSUME NEW p \in StoreProcs, NEW d \in DataSets, NEW k \in RowKeys, UpsertReads(p, d, k)
      PROVE  StoreTypeOK'
    <2>1. write'[p] \in Upsert
        BY <1>2 DEF UpsertReads, Upsert
    <2>2. \A q \in StoreProcs \ {p} : write'[q] = write[q] /\ writing'[q] = writing[q]
        BY <1>2 DEF UpsertReads
    <2>3. DOMAIN write' = StoreProcs /\ writing' \in [StoreProcs -> Stages] /\ versions' \in Nat
        BY <1>2 DEF UpsertReads
    <2>4. QED
        BY <1>2, <2>1, <2>2, <2>3 DEF UpsertReads, fileVars
<1>3. ASSUME NEW p \in StoreProcs, WriteTmp(p) PROVE StoreTypeOK'
    <2>1. write'[p] \in Upsert
        <3>1. write[p] \in Upsert /\ write'[p] = [write[p] EXCEPT !.tries = @ + 1]
            BY <1>3 DEF WriteTmp
        <3>2. QED
            BY <3>1, OneMoreTry
    <2>2. \A q \in StoreProcs \ {p} : write'[q] = write[q] /\ writing'[q] = writing[q]
        BY <1>3 DEF WriteTmp
    <2>3. QED
        BY <1>3, <2>1, <2>2 DEF WriteTmp, pastVars, fileVars
<1>4. ASSUME NEW p \in StoreProcs, ReplaceFile(p) PROVE StoreTypeOK'
    <2> DEFINE w == write[p]
    <2>1. w \in Upsert /\ w.set \in DataSets /\ w.key \in RowKeys /\ w.version \in Nat
        BY <1>4 DEF ReplaceFile, Upsert
    <2>2. partition' \in [DataSets -> Partitions]
        BY <1>4, <2>1, CombinedType DEF ReplaceFile
    <2>3. replaced' \in Seq(Replaced)
        BY <1>4, <2>1, AppendProperties DEF ReplaceFile, Replaced
    <2>4. QED
        BY <1>4, <2>2, <2>3 DEF ReplaceFile
<1>5. ASSUME NEW p \in StoreProcs, ReplaceFails(p) PROVE StoreTypeOK'
    BY <1>5 DEF ReplaceFails, pastVars, fileVars
<1>6. ASSUME NEW p \in StoreProcs, CleanUp(p) PROVE StoreTypeOK'
    BY <1>6 DEF CleanUp, pastVars, fileVars
<1>7. ASSUME NEW p \in StoreProcs, MarkDirty(p) PROVE StoreTypeOK'
    BY <1>7 DEF MarkDirty, pastVars, fileVars, Upsert
<1>8. ASSUME NEW p \in StoreProcs, ManifestFails(p) PROVE StoreTypeOK'
    <2>1. write[p].set \in DataSets
        BY <1>8 DEF ManifestFails, Upsert
    <2>2. QED
        BY <1>8, <2>1 DEF ManifestFails, LeavesBehind, Touched, fileVars
<1>9. ASSUME NEW p \in StoreProcs, RefreshReads(p) PROVE StoreTypeOK'
    <2>1. copy' \in [StoreProcs -> [DataSets -> Partitions]]
        BY <1>9 DEF RefreshReads, Scanned, Others
    <2>2. QED
        BY <1>9, <2>1 DEF RefreshReads, fileVars
<1>10. ASSUME NEW p \in StoreProcs, RefreshWrites(p) PROVE StoreTypeOK'
    BY <1>10, NoInventoryType DEF RefreshWrites, Touched
<1>11. ASSUME NEW p \in StoreProcs, NEW tears \in BOOLEAN, StoreStops(p, tears)
       PROVE  StoreTypeOK'
    <2>1. writing[p] = "replaced" => write[p].set \in DataSets
        BY DEF Upsert
    <2> DEFINE sets == IF tears THEN DataSets
                       ELSE dirty[p] \cup (IF writing[p] = "replaced" THEN {write[p].set} ELSE {})
    <2>2. sets \subseteq DataSets
        BY <2>1
    <2>3. behind' \subseteq DataSets /\ touched' \in [StoreProcs -> SUBSET DataSets]
        BY <1>11, <2>2 DEF StoreStops, LeavesBehind, Touched
    <2>4. QED
        BY <1>11, <2>3, NoInventoryType DEF StoreStops, LeavesBehind
<1>12. QED
    BY <1>1, <1>2, <1>3, <1>4, <1>5, <1>6, <1>7, <1>8, <1>9, <1>10, <1>11 DEF StoreNext

LEMMA TypeInit == StoreInit => StoreTypeOK
BY StoreAssumption, NoInventoryType
DEF StoreInit, StoreTypeOK, Stages, Partitions, Empty

LEMMA TypeCorrect == StoreSpec => []StoreTypeOK
BY TypeInit, TypeStep, PTL DEF StoreSpec

-----------------------------------------------------------------------------
(* Rows.  The version an upsert writes is its place in the order of reads, *)
(* so what it has read holds every row replaced before, unless that row    *)
(* was overlapped already; those replaced since have more readers, of      *)
(* which it is one.                                                        *)

\* What an upsert on its way has read has the rows replaced by then.
HasRead(p) ==
    writing[p] \in {"merged", "written"} =>
        /\ write[p].version <= versions
        /\ \A i \in DOMAIN replaced :
              replaced[i].set = write[p].set /\ replaced[i].readBy < write[p].version =>
                  \/ write[p].existing[replaced[i].key] >= replaced[i].version
                  \/ Overlapped(i)

HasReplaced(p) ==
    writing[p] = "replaced" =>
        \E i \in DOMAIN replaced : replaced[i].version = write[p].version

RowInv ==
    /\ NoRowLost
    /\ \A i \in DOMAIN replaced :
          replaced[i].version <= replaced[i].readBy /\ replaced[i].readBy <= versions
    /\ \A p \in StoreProcs : HasRead(p) /\ HasReplaced(p)

LEMMA RowReplaceStep ==
    ASSUME StoreTypeOK, RowInv, NEW p \in StoreProcs, ReplaceFile(p)
    PROVE  RowInv'
<1> DEFINE w == write[p]
           n == Len(replaced) + 1
           e == [set |-> w.set, key |-> w.key, version |-> w.version, readBy |-> versions]
<1>1. /\ w \in Upsert /\ w.set \in DataSets /\ w.key \in RowKeys /\ w.version \in Nat
      /\ w.version <= versions /\ versions \in Nat
    BY DEF ReplaceFile, StoreTypeOK, Upsert, RowInv, HasRead
<1>2. /\ replaced' = Append(replaced, e) /\ e \in Replaced
      /\ partition' = [partition EXCEPT ![w.set] = Combined(w)]
      /\ writing' = [writing EXCEPT ![p] = "replaced"]
      /\ UNCHANGED <<write, versions, told>>
    BY <1>1 DEF ReplaceFile, Replaced, Goes
<1>3. /\ replaced \in Seq(Replaced) /\ Len(replaced) \in Nat
      /\ DOMAIN replaced = 1..Len(replaced) /\ DOMAIN replaced' = 1..n
      /\ \A i \in DOMAIN replaced : replaced'[i] = replaced[i] /\ replaced[i] \in Replaced
      /\ replaced'[n] = e
    <2>1. replaced \in Seq(Replaced)
        BY DEF StoreTypeOK
    <2>2. replaced' \in Seq(Replaced) /\ Len(replaced') = n
        BY <1>2, <2>1, AppendProperties
    <2>3. QED
        BY <1>2, <2>1, <2>2, AppendProperties, LenProperties, ElementOfSeq
<1> HIDE DEF n, e
<1>4. n = Len(replaced) + 1 /\ e.set = w.set /\ e.key = w.key /\ e.version = w.version
      /\ e.readBy = versions /\ n \in DOMAIN replaced'
      /\ \A i \in DOMAIN replaced : i \in DOMAIN replaced'
    BY <1>3 DEF n, e
<1>5. \A i \in DOMAIN replaced : Overlapped(i) => Overlapped(i)'
    BY <1>3, <1>4 DEF Overlapped
<1>6. ASSUME NEW i \in DOMAIN replaced, replaced[i].set = w.set, ~ Overlapped(i)'
      PROVE  Combined(w)[replaced[i].key] >= replaced[i].version
    <2>1. /\ replaced[i].version \in Nat /\ replaced[i].readBy \in Nat
          /\ replaced[i].key \in RowKeys
        BY <1>3, <1>6 DEF Replaced
    <2>2. n > i /\ n \in DOMAIN replaced' /\ i \in DOMAIN replaced'
        BY <1>3, <1>4, <1>6
    <2>3. replaced[i].readBy < w.version
        BY <1>1, <1>3, <1>4, <1>6, <2>1, <2>2 DEF Overlapped
    <2>4. w.existing[replaced[i].key] >= replaced[i].version
        BY <1>5, <1>6, <2>3 DEF RowInv, HasRead, ReplaceFile
    <2>5. replaced[i].version <= replaced[i].readBy
        BY <1>6 DEF RowInv
    <2>6. CASE replaced[i].key = w.key
        <3>1. Combined(w)[w.key] = w.version
            BY <1>1 DEF Combined, Upsert, Partitions
        <3>2. QED
            BY <1>1, <2>1, <2>3, <2>5, <2>6, <3>1
    <2>7. CASE replaced[i].key # w.key
        BY <1>1, <2>1, <2>4, <2>7 DEF Combined, Upsert, Partitions
    <2>8. QED
        BY <2>6, <2>7
<1>7. NoRowLost'
    <2>1. \A v \in told : \E i \in DOMAIN replaced' : replaced'[i].version = v
        BY <1>3, <1>4 DEF RowInv, NoRowLost
    <2>2. ASSUME NEW i \in DOMAIN replaced
          PROVE  \/ partition'[replaced'[i].set][replaced'[i].key] >= replaced'[i].version
                 \/ Overlapped(i)'
        <3>1. CASE replaced[i].set = w.set
            BY <1>1, <1>2, <1>3, <1>6, <3>1 DEF StoreTypeOK
        <3>2. CASE replaced[i].set # w.set
            BY <1>2, <1>3, <1>5, <3>2 DEF StoreTypeOK, RowInv, NoRowLost, Replaced
        <3>3. QED
            BY <3>1, <3>2
    <2>3. partition'[replaced'[n].set][replaced'[n].key] >= replaced'[n].version
        BY <1>1, <1>2, <1>3, <1>4 DEF StoreTypeOK, Combined, Upsert, Partitions
    <2>4. QED
        BY <1>2, <1>3, <1>4, <2>1, <2>2, <2>3 DEF NoRowLost
<1>8. \A i \in DOMAIN replaced' :
          replaced'[i].version <= replaced'[i].readBy /\ replaced'[i].readBy <= versions'
    BY <1>1, <1>2, <1>3, <1>4 DEF RowInv
<1>9. ASSUME NEW q \in StoreProcs PROVE HasRead(q)' /\ HasReplaced(q)'
    <2>1. CASE q = p
        <3>1. writing'[q] = "replaced" /\ write'[q].version = replaced'[n].version
            BY <1>2, <1>3, <1>4, <2>1 DEF StoreTypeOK
        <3>2. QED
            BY <1>4, <3>1 DEF HasRead, HasReplaced
    <2>2. CASE q # p
        <3>1. writing'[q] = writing[q] /\ write'[q] = write[q]
            BY <1>2, <2>2 DEF StoreTypeOK
        <3>2. HasReplaced(q)'
            <4> SUFFICES ASSUME writing[q] = "replaced"
                         PROVE  \E i \in DOMAIN replaced' : replaced'[i].version = write[q].version
                BY <3>1 DEF HasReplaced
            <4>1. PICK i \in DOMAIN replaced : replaced[i].version = write[q].version
                BY DEF RowInv, HasReplaced
            <4>2. QED
                BY <1>3, <1>4, <4>1
        <3>3. ASSUME writing[q] \in {"merged", "written"}
              PROVE  \A i \in DOMAIN replaced' :
                        replaced'[i].set = write[q].set /\ replaced'[i].readBy < write[q].version =>
                            \/ write[q].existing[replaced'[i].key] >= replaced'[i].version
                            \/ Overlapped(i)'
            <4>1. write[q].version <= versions /\ write[q].version \in Nat
                BY <3>3 DEF RowInv, HasRead, StoreTypeOK, Upsert
            <4>2. ~ (replaced'[n].readBy < write[q].version)
                BY <1>1, <1>3, <1>4, <4>1
            <4>3. QED
                BY <1>3, <1>4, <1>5, <3>3, <4>2 DEF RowInv, HasRead
        <3>4. HasRead(q)'
            BY <1>2, <3>1, <3>3 DEF RowInv, HasRead
        <3>5. QED
            BY <3>2, <3>4
    <2>3. QED
        BY <2>1, <2>2
<1>10. QED
    BY <1>7, <1>8, <1>9 DEF RowInv

LEMMA RowReadStep ==
    ASSUME StoreTypeOK, RowInv, NEW p \in StoreProcs, NEW d \in DataSets, NEW k \in RowKeys,
           UpsertReads(p, d, k)
    PROVE  RowInv'
<1>1. /\ versions' = versions + 1 /\ versions \in Nat
      /\ write' = [write EXCEPT ![p] = [set |-> d, key |-> k, version |-> versions',
                                        existing |-> partition[d], tries |-> 0]]
      /\ writing' = [writing EXCEPT ![p] = "merged"]
      /\ UNCHANGED <<partition, replaced, told>>
    BY DEF UpsertReads, fileVars, Goes, StoreTypeOK
<1>2. \A i \in DOMAIN replaced :
          /\ replaced[i].readBy \in Nat /\ replaced[i].version <= replaced[i].readBy
          /\ replaced[i].readBy <= versions
    <2>1. \A i \in DOMAIN replaced : replaced[i] \in Replaced
        BY LenProperties, ElementOfSeq DEF StoreTypeOK
    <2>2. QED
        BY <2>1 DEF RowInv, Replaced
<1>3. NoRowLost' /\ \A i \in DOMAIN replaced : Overlapped(i)' <=> Overlapped(i)
    BY <1>1 DEF RowInv, NoRowLost, Overlapped
<1>4. ASSUME NEW q \in StoreProcs PROVE HasRead(q)' /\ HasReplaced(q)'
    <2>1. CASE q = p
        <3>1. /\ writing'[q] = "merged" /\ write'[q].set = d /\ write'[q].version = versions'
              /\ write'[q].existing = partition[d]
            BY <1>1, <2>1 DEF StoreTypeOK
        <3>2. QED
            BY <1>1, <1>3, <3>1 DEF RowInv, NoRowLost, HasRead, HasReplaced
    <2>2. CASE q # p
        <3>1. writing'[q] = writing[q] /\ write'[q] = write[q]
            BY <1>1, <2>2 DEF StoreTypeOK
        <3>2. writing[q] \in {"merged", "written"} => write[q].version \in Nat
            BY DEF StoreTypeOK, Upsert
        <3>3. QED
            BY <1>1, <1>3, <3>1, <3>2 DEF RowInv, HasRead, HasReplaced
    <2>3. QED
        BY <2>1, <2>2
<1>5. QED
    BY <1>1, <1>2, <1>3, <1>4 DEF RowInv

\* A step that leaves the partitions and what was replaced: no upsert is further than
\* before, and only one that has replaced its partition is told so.
LEMMA RowOtherStep ==
    ASSUME StoreTypeOK, RowInv, UNCHANGED <<partition, replaced, versions>>,
           \A v \in told' : v \in told \/ \E p \in StoreProcs :
                writing[p] = "replaced" /\ write[p].version = v,
           \A p \in StoreProcs :
              \/ writing'[p] \in {"idle", "refreshing"}
              \/ /\ writing'[p] = writing[p] \/ {writing'[p], writing[p]} \subseteq {"merged", "written"}
                 /\ write'[p].set = write[p].set /\ write'[p].version = write[p].version
                 /\ write'[p].existing = write[p].existing
    PROVE  RowInv'
<1>1. \A i \in DOMAIN replaced : Overlapped(i)' <=> Overlapped(i)
    BY DEF Overlapped
<1>2. NoRowLost'
    BY <1>1 DEF RowInv, NoRowLost, HasReplaced
<1>3. \A p \in StoreProcs : HasRead(p)' /\ HasReplaced(p)'
    BY <1>1 DEF RowInv, HasRead, HasReplaced
<1>4. QED
    BY <1>2, <1>3 DEF RowInv

LEMMA RowStep == StoreTypeOK /\ RowInv /\ [StoreNext]_storeVars => RowInv'
<1> SUFFICES ASSUME StoreTypeOK, RowInv, [StoreNext]_storeVars PROVE RowInv'
    OBVIOUS
<1>1. CASE UNCHANGED storeVars
    BY <1>1, RowOtherStep DEF storeVars, fileVars, processVars, pastVars
<1>2. ASSUME NEW p \in StoreProcs, WriteTmp(p) PROVE RowInv'
    <2>1. /\ writing[p] = "merged" /\ write[p] \in Upsert
          /\ write'[p].set = write[p].set /\ write'[p].version = write[p].version
          /\ write'[p].existing = write[p].existing /\ writing'[p] = "written"
        BY <1>2 DEF WriteTmp, Goes, StoreTypeOK, Upsert
    <2>2. \A q \in StoreProcs \ {p} : writing'[q] = writing[q] /\ write'[q] = write[q]
        BY <1>2 DEF WriteTmp, Goes, StoreTypeOK
    <2>3. UNCHANGED <<partition, replaced, versions, told>>
        BY <1>2 DEF WriteTmp, fileVars, pastVars
    <2>4. QED
        BY <2>1, <2>2, <2>3, RowOtherStep
<1>3. ASSUME NEW p \in StoreProcs,
             \/ ReplaceFails(p) \/ CleanUp(p) \/ MarkDirty(p) \/ ManifestFails(p)
             \/ RefreshReads(p) \/ RefreshWrites(p)
             \/ \E tears \in BOOLEAN : StoreStops(p, tears)
      PROVE  RowInv'
    <2>1. UNCHANGED <<partition, replaced, versions>>
        BY <1>3 DEF ReplaceFails, CleanUp, MarkDirty, ManifestFails, RefreshReads, RefreshWrites,
                    StoreStops, LeavesBehind, fileVars, pastVars
    <2>2. told' = told \/ (writing[p] = "replaced" /\ told' = told \cup {write[p].version})
        BY <1>3 DEF ReplaceFails, CleanUp, MarkDirty, ManifestFails, RefreshReads, RefreshWrites,
                    StoreStops, LeavesBehind, pastVars
    <2>3. \A q \in StoreProcs \ {p} : writing'[q] = writing[q] /\ write'[q] = write[q]
        BY <1>3 DEF ReplaceFails, CleanUp, MarkDirty, ManifestFails, RefreshReads, RefreshWrites,
                    StoreStops, Goes, StoreTypeOK
    <2>4. \/ writing'[p] \in {"idle", "refreshing"}
          \/ /\ writing'[p] = writing[p] \/ {writing'[p], writing[p]} \subseteq {"merged", "written"}
             /\ write'[p] = write[p]
        BY <1>3 DEF ReplaceFails, CleanUp, MarkDirty, ManifestFails, RefreshReads, RefreshWrites,
                    StoreStops, Goes, StoreTypeOK
    <2>5. QED
        BY <2>1, <2>2, <2>3, <2>4, RowOtherStep
<1>4. QED
    BY <1>1, <1>2, <1>3, RowReplaceStep, RowReadStep DEF StoreNext

\* A row whose caller was told it is stored was put there, whatever replacements fail and
\* temporary files are removed, and it or a newer one of its key stays, unless an upsert
\* that read the partition before replaced it after (_write_dataset_upsert_partition); for
\* any number of processes, data sets, keys, retries and upserts.
THEOREM RowsKept == StoreSpec => []NoRowLost
<1>1. StoreInit => RowInv
    BY DEF StoreInit, RowInv, NoRowLost, HasRead, HasReplaced
<1>2. RowInv => NoRowLost
    BY DEF RowInv
<1>3. QED
    BY <1>1, <1>2, RowStep, TypeCorrect, PTL DEF StoreSpec

-----------------------------------------------------------------------------
(* Inventory: a process that writes its copy back replaces every row, so   *)
(* what has to be known is what its copy is worth, row by row.             *)

\* q has still to refresh d.
Owes(q, d) == d \in dirty[q] \/ (writing[q] = "replaced" /\ write[q].set = d)

\* The row d of the copy of p is right, or it is known who makes up for it.
CopyRow(p, d) ==
    \/ copy[p][d] = partition[d]
    \/ d \in touched[p]
    \/ \E q \in StoreProcs \ {p} : Owes(q, d)
    \/ d \in behind \ dirty[p]

CopyAgrees ==
    \A p \in StoreProcs, d \in DataSets : writing[p] = "refreshing" => CopyRow(p, d)

\* The row d of the inventory is right, or it is known who makes up for it.
InventoryRow(d) ==
    d \in behind \/ inventory[d] = partition[d] \/ \E q \in StoreProcs : Owes(q, d)

LEMMA InventoryByRow == InventoryAgrees <=> \A d \in DataSets : InventoryRow(d)
BY DEF InventoryAgrees, InventoryRow, Owes

\* Where nothing but the stage of a process changes, and no replacement is left.
StageOnly(p) ==
    /\ writing[p] # "replaced" /\ writing'[p] \notin {"replaced", "refreshing"}
    /\ \A q \in StoreProcs \ {p} : writing'[q] = writing[q] /\ write'[q] = write[q]
    /\ UNCHANGED <<partition, inventory, dirty, copy, behind, touched>>

LEMMA StageStep ==
    ASSUME CopyAgrees, InventoryAgrees, NEW p \in StoreProcs, StageOnly(p)
    PROVE  CopyAgrees' /\ InventoryAgrees'
<1>1. \A q \in StoreProcs, d \in DataSets : Owes(q, d) => Owes(q, d)'
    BY DEF StageOnly, Owes
<1>2. CopyAgrees'
    BY <1>1 DEF CopyAgrees, CopyRow, StageOnly
<1>3. \A d \in DataSets : InventoryRow(d)'
    BY <1>1, InventoryByRow DEF InventoryRow, StageOnly
<1>4. QED
    BY <1>2, <1>3 DEF InventoryAgrees, InventoryRow, Owes

LEMMA AgreeStep ==
    StoreTypeOK /\ CopyAgrees /\ InventoryAgrees /\ [StoreNext]_storeVars
    => CopyAgrees' /\ InventoryAgrees'
<1> SUFFICES ASSUME StoreTypeOK, CopyAgrees, InventoryAgrees, [StoreNext]_storeVars
             PROVE  CopyAgrees' /\ InventoryAgrees'
    OBVIOUS
<1>a. \A d \in DataSets : InventoryRow(d)
    BY InventoryByRow
<1>b. (\A d \in DataSets : InventoryRow(d)') => InventoryAgrees'
    BY DEF InventoryAgrees, InventoryRow, Owes
<1>t. /\ DOMAIN writing = StoreProcs /\ DOMAIN write = StoreProcs /\ DOMAIN dirty = StoreProcs
      /\ DOMAIN copy = StoreProcs /\ DOMAIN touched = StoreProcs
      /\ \A q \in StoreProcs : DOMAIN copy[q] = DataSets
      /\ DOMAIN partition = DataSets
    BY DEF StoreTypeOK
<1>1. CASE UNCHANGED storeVars
    BY <1>1 DEF storeVars, fileVars, processVars, pastVars, CopyAgrees, CopyRow,
        InventoryAgrees, Owes
<1>2. ASSUME NEW p \in StoreProcs, NEW d \in DataSets, NEW k \in RowKeys, UpsertReads(p, d, k)
      PROVE  CopyAgrees' /\ InventoryAgrees'
    <2>1. StageOnly(p)
        BY <1>2, <1>t DEF UpsertReads, StageOnly, Goes, fileVars
    <2>2. QED
        BY <2>1, StageStep
<1>3. ASSUME NEW p \in StoreProcs, WriteTmp(p) PROVE CopyAgrees' /\ InventoryAgrees'
    <2>1. StageOnly(p)
        BY <1>3, <1>t DEF WriteTmp, StageOnly, Goes, fileVars, pastVars
    <2>2. QED
        BY <2>1, StageStep
<1>4. ASSUME NEW p \in StoreProcs, ReplaceFile(p) PROVE CopyAgrees' /\ InventoryAgrees'
    <2> DEFINE e == write[p].set
    <2>1. /\ writing[p] = "written" /\ writing' = [writing EXCEPT ![p] = "replaced"]
          /\ UNCHANGED <<inventory, write, dirty, copy, behind, touched>>
        BY <1>4 DEF ReplaceFile, Goes
    <2>2. \A d \in DataSets : d # e => partition'[d] = partition[d]
        BY <1>4, <1>t DEF ReplaceFile
    <2>3. Owes(p, e)'
        BY <2>1, <1>t DEF Owes
    <2>4. \A q \in StoreProcs, d \in DataSets : Owes(q, d) => Owes(q, d)'
        BY <2>1, <1>t DEF Owes
    <2>5. CopyAgrees'
        BY <2>1, <2>2, <2>3, <2>4, <1>t DEF CopyAgrees, CopyRow
    <2>6. \A d \in DataSets : InventoryRow(d)'
        BY <1>a, <2>1, <2>2, <2>3, <2>4 DEF InventoryRow
    <2>7. QED
        BY <1>b, <2>5, <2>6
<1>5. ASSUME NEW p \in StoreProcs, ReplaceFails(p) PROVE CopyAgrees' /\ InventoryAgrees'
    <2>1. StageOnly(p)
        BY <1>5, <1>t DEF ReplaceFails, StageOnly, Goes, fileVars, pastVars
    <2>2. QED
        BY <2>1, StageStep
<1>6. ASSUME NEW p \in StoreProcs, CleanUp(p) PROVE CopyAgrees' /\ InventoryAgrees'
    BY <1>6 DEF CleanUp, fileVars, pastVars, CopyAgrees, CopyRow, InventoryAgrees, Owes
<1>7. ASSUME NEW p \in StoreProcs, MarkDirty(p) PROVE CopyAgrees' /\ InventoryAgrees'
    <2>1. \A q \in StoreProcs, d \in DataSets : Owes(q, d) => Owes(q, d)'
        BY <1>7, <1>t DEF MarkDirty, Goes, Owes
    <2>2. CopyAgrees'
        BY <1>7, <2>1, <1>t DEF MarkDirty, Goes, CopyAgrees, CopyRow, fileVars, pastVars
    <2>3. \A d \in DataSets : InventoryRow(d)'
        BY <1>7, <1>a, <2>1 DEF MarkDirty, InventoryRow, fileVars, pastVars
    <2>4. QED
        BY <1>b, <2>2, <2>3
<1>8. ASSUME NEW p \in StoreProcs, ManifestFails(p) PROVE CopyAgrees' /\ InventoryAgrees'
    <2> DEFINE e == write[p].set
    <2>1. \A q \in StoreProcs, d \in DataSets : Owes(q, d) => Owes(q, d)' \/ d = e
        BY <1>8, <1>t DEF ManifestFails, Goes, Owes
    <2>2. e \in behind' /\ \A q \in StoreProcs \ {p} : e \in touched'[q]
        BY <1>8 DEF ManifestFails, LeavesBehind, Touched
    <2>3. /\ behind \subseteq behind' /\ UNCHANGED <<partition, inventory, dirty, copy>>
          /\ writing' = [writing EXCEPT ![p] = "idle"]
          /\ \A q \in StoreProcs \ {p} : touched[q] \subseteq touched'[q]
        BY <1>8 DEF ManifestFails, LeavesBehind, Touched, Goes, fileVars
    <2>4. CopyAgrees'
        BY <2>1, <2>2, <2>3, <1>t DEF CopyAgrees, CopyRow
    <2>5. \A d \in DataSets : InventoryRow(d)'
        BY <1>a, <2>1, <2>2, <2>3 DEF InventoryRow
    <2>6. QED
        BY <1>b, <2>4, <2>5
<1>9. ASSUME NEW p \in StoreProcs, RefreshReads(p) PROVE CopyAgrees' /\ InventoryAgrees'
    <2>1. /\ writing[p] = "idle" /\ writing' = [writing EXCEPT ![p] = "refreshing"]
          /\ touched' = [touched EXCEPT ![p] = {}]
          /\ UNCHANGED <<partition, inventory, write, dirty, behind>>
        BY <1>9 DEF RefreshReads, Goes, fileVars
    <2>2. \A q \in StoreProcs, d \in DataSets : Owes(q, d) <=> Owes(q, d)'
        BY <2>1, <1>t DEF Owes
    <2>3. \A d \in DataSets : CopyRow(p, d)'
        <3> SUFFICES ASSUME NEW d \in DataSets PROVE CopyRow(p, d)'
            OBVIOUS
        <3>1. copy'[p][d] = IF d \in dirty[p] THEN partition[d] ELSE inventory[d]
            BY <1>9, <1>t DEF RefreshReads, Scanned, Others
        <3>2. CASE d \in dirty[p]
            BY <3>1, <3>2, <2>1 DEF CopyRow
        <3>3. CASE d \notin dirty[p]
            <4>1. ~ Owes(p, d)
                BY <3>3, <2>1 DEF Owes
            <4>2. QED
                BY <3>1, <3>3, <4>1, <1>a, <2>1, <2>2 DEF CopyRow, InventoryRow
        <3>4. QED
            BY <3>2, <3>3
    <2>4. \A q \in StoreProcs \ {p} : copy'[q] = copy[q]
        BY <1>9, <1>t DEF RefreshReads
    <2>5. CopyAgrees'
        BY <2>1, <2>2, <2>3, <2>4, <1>t DEF CopyAgrees, CopyRow
    <2>6. \A d \in DataSets : InventoryRow(d)'
        BY <1>a, <2>1, <2>2 DEF InventoryRow
    <2>7. QED
        BY <1>b, <2>5, <2>6
<1>10. ASSUME NEW p \in StoreProcs, RefreshWrites(p) PROVE CopyAgrees' /\ InventoryAgrees'
    <2>1. /\ writing[p] = "refreshing" /\ writing' = [writing EXCEPT ![p] = "idle"]
          /\ inventory' = copy[p] /\ behind' = (behind \ dirty[p]) \cup touched[p]
          /\ dirty' = [dirty EXCEPT ![p] = {}] /\ UNCHANGED <<partition, write>>
          /\ \A q \in StoreProcs \ {p} : copy'[q] = copy[q]
        BY <1>10, <1>t DEF RefreshWrites, Goes
    <2>2. \A q \in StoreProcs \ {p} : touched'[q] = touched[q] \cup dirty[p]
        BY <1>10 DEF RefreshWrites, Touched
    <2>3. \A q \in StoreProcs \ {p}, d \in DataSets : Owes(q, d) => Owes(q, d)'
        BY <2>1, <1>t DEF Owes
    <2>4. \A d \in DataSets : Owes(p, d) => d \in dirty[p]
        BY <2>1 DEF Owes
    <2>5. CopyAgrees'
        BY <2>1, <2>2, <2>3, <2>4, <1>t DEF CopyAgrees, CopyRow
    <2>6. \A d \in DataSets : InventoryRow(d)'
        BY <2>1, <2>3 DEF CopyAgrees, CopyRow, InventoryRow
    <2>7. QED
        BY <1>b, <2>5, <2>6
<1>11. ASSUME NEW p \in StoreProcs, NEW tears \in BOOLEAN, StoreStops(p, tears)
       PROVE  CopyAgrees' /\ InventoryAgrees'
    <2> DEFINE left == IF tears THEN DataSets
                       ELSE dirty[p] \cup (IF writing[p] = "replaced" THEN {write[p].set} ELSE {})
    <2>1. /\ writing' = [writing EXCEPT ![p] = "idle"] /\ partition' = partition
          /\ dirty' = [dirty EXCEPT ![p] = {}] /\ write' = [write EXCEPT ![p] = NoWrite]
          /\ behind' = behind \cup left /\ (~ tears => inventory' = inventory)
          /\ \A q \in StoreProcs \ {p} : copy'[q] = copy[q]
          /\ \A q \in StoreProcs \ {p} : touched'[q] = touched[q] \cup left
        BY <1>11, <1>t DEF StoreStops, LeavesBehind, Touched, Goes
    <2>2. \A q \in StoreProcs \ {p}, d \in DataSets : Owes(q, d) => Owes(q, d)'
        BY <2>1, <1>t DEF Owes
    <2>3. \A d \in DataSets : Owes(p, d) => d \in left
        BY DEF Owes
    <2> HIDE DEF left
    <2>4. CopyAgrees'
        BY <2>1, <2>2, <2>3, <1>t DEF CopyAgrees, CopyRow
    <2>5. \A d \in DataSets : InventoryRow(d)'
        <3>1. CASE tears
            BY <3>1, <2>1 DEF left, InventoryRow
        <3>2. CASE ~ tears
            BY <3>2, <1>a, <2>1, <2>2, <2>3 DEF InventoryRow
        <3>3. QED
            BY <3>1, <3>2
    <2>6. QED
        BY <1>b, <2>4, <2>5
<1>12. QED
    BY <1>1, <1>2, <1>3, <1>4, <1>5, <1>6, <1>7, <1>8, <1>9, <1>10, <1>11 DEF StoreNext

\* The inventory describes every data set that no process has still to refresh, none left
\* behind and no older copy replaced (refresh_inventory, data_registry.py:128): the copy
\* a process holds is right, row by row, unless somebody is known to make up for the row.
THEOREM InventoryFollows == StoreSpec => []InventoryAgrees
<1>1. StoreInit => CopyAgrees /\ InventoryAgrees
    BY DEF StoreInit, CopyAgrees, InventoryAgrees
<1>2. QED
    BY <1>1, AgreeStep, TypeCorrect, PTL DEF StoreSpec

-----------------------------------------------------------------------------
(* The metadata batch                                                      *)

CheckRow == [key : CheckpointKeys, n : Nat]

BatchTypes ==
    /\ runRows \in Seq(Nat) /\ checkRows \in Seq(CheckRow)
    /\ doingFlush \in [Threads -> {"no", "asked", "storing"}]
    /\ taken \in [Threads -> [runs : Seq(Nat), checks : Seq(CheckRow)]]
    /\ runTable \in Seq(Nat) /\ checkTable \subseteq CheckRow
    /\ added \in Seq(CheckpointKeys) /\ Len(added) <= MaxAdds

\* One thread at a time has rows in its hands.
OneFlush ==
    /\ \A t \in Threads : doingFlush[t] # "storing" => taken[t] = NoRows
    /\ \A t \in Threads : doingFlush[t] = "storing" => flushLock
    /\ \A t, u \in Threads : doingFlush[t] = "storing" /\ doingFlush[u] = "storing" => t = u

\* The rows being stored.
InFlight(doing, rows) ==
    IF \E t \in Threads : doing[t] = "storing"
    THEN rows[CHOOSE t \in Threads : doing[t] = "storing"] ELSE NoRows

\* The run rows in the table, being stored and waiting are those added, in that order.
InOrder(table, storing, waiting, count) ==
    /\ Len(table) + Len(storing) + Len(waiting) = count
    /\ \A i \in 1..Len(table) : table[i] = i
    /\ \A i \in 1..Len(storing) : storing[i] = Len(table) + i
    /\ \A i \in 1..Len(waiting) : waiting[i] = Len(table) + Len(storing) + i

Earlier(a, b) == a.key = b.key => a.n < b.n

\* So are the checkpoint rows of each key, of which the last is kept.
Outcomes(table, storing, waiting, log) ==
    /\ \A a \in table : a.n <= Len(log)
    /\ \A i \in 1..Len(storing) : storing[i].n <= Len(log)
    /\ \A i \in 1..Len(waiting) : waiting[i].n <= Len(log)
    /\ \A a, b \in table : a.key = b.key /\ a.key \notin NullKeys => a = b
    /\ \A i, j \in 1..Len(storing) : storing[i].key = storing[j].key => i = j
    /\ \A i, j \in 1..Len(waiting) : i < j => Earlier(waiting[i], waiting[j])
    /\ \A a \in table, i \in 1..Len(storing) : Earlier(a, storing[i])
    /\ \A a \in table, i \in 1..Len(waiting) : Earlier(a, waiting[i])
    /\ \A i \in 1..Len(storing), j \in 1..Len(waiting) : Earlier(storing[i], waiting[j])
    /\ \A n \in 1..Len(log) :
        \/ \E a \in table : a.key = log[n] /\ a.n >= n
        \/ \E i \in 1..Len(storing) : storing[i].key = log[n] /\ storing[i].n >= n
        \/ \E i \in 1..Len(waiting) : waiting[i].key = log[n] /\ waiting[i].n >= n

BatchInv ==
    /\ BatchTypes /\ OneFlush
    /\ InOrder(runTable, InFlight(doingFlush, taken).runs, runRows, Len(added))
    /\ Outcomes(checkTable, InFlight(doingFlush, taken).checks, checkRows, added)

LEMMA LeastOf ==
    ASSUME NEW S \in SUBSET Nat, S # {}
    PROVE  \E n \in S : \A m \in S : n <= m
<1> DEFINE R == OpToRel(<, Nat)
<1>1. IsWellFoundedOn(R, Nat)
    BY NatLessThanWellFounded
<1> HIDE DEF R
<1>2. PICK n \in S : \A m \in S : ~ (<<m, n>> \in R)
    BY <1>1, WFMin
<1>3. \A m \in S : ~ (m < n)
    BY <1>2 DEF R, OpToRel
<1>4. QED
    BY <1>3

LEMMA GreatestOf ==
    ASSUME NEW N \in Nat, NEW S \in SUBSET (1..N), S # {}
    PROVE  \E n \in S : \A m \in S : m <= n
<1> DEFINE T == {N - n : n \in S}
<1>1. T \in SUBSET Nat /\ T # {}
    <2>1. \A n \in S : N - n \in Nat
        OBVIOUS
    <2>2. QED
        BY <2>1
<1>2. PICK t \in T : \A u \in T : t <= u
    BY <1>1, LeastOf
<1>3. PICK n \in S : t = N - n
    BY <1>2
<1>4. \A m \in S : N - n <= N - m
    BY <1>2, <1>3
<1>5. QED
    BY <1>4

LEMMA FirstRowOf ==
    ASSUME NEW rows \in Seq(CheckRow), NEW j \in 1..Len(rows)
    PROVE  \E n \in FirstRows(rows) : rows[n].key = rows[j].key
<1> DEFINE S == {n \in 1..Len(rows) : rows[n].key = rows[j].key}
<1>1. S \in SUBSET Nat /\ S # {} /\ Len(rows) \in Nat /\ DOMAIN rows = 1..Len(rows)
    OBVIOUS
<1>2. PICK n \in S : \A m \in S : n <= m
    BY <1>1, LeastOf
<1>3. \A m \in 1..n - 1 : m \in 1..Len(rows) /\ ~ (n <= m)
    BY <1>1, <1>2
<1>4. \A m \in 1..n - 1 : rows[m].key # rows[n].key
    BY <1>2, <1>3
<1>5. QED
    BY <1>1, <1>2, <1>4 DEF FirstRows

LEMMA LastRowOf ==
    ASSUME NEW rows \in Seq(CheckRow), NEW j \in 1..Len(rows)
    PROVE  \E n \in 1..Len(rows) :
              /\ LastRow(rows, rows[j].key) = rows[n] /\ rows[n].key = rows[j].key
              /\ \A m \in 1..Len(rows) : rows[m].key = rows[j].key => m <= n
<1> DEFINE S == {n \in 1..Len(rows) : rows[n].key = rows[j].key}
           IsLast(n) == rows[n].key = rows[j].key
                        /\ \A m \in n + 1..Len(rows) : rows[m].key # rows[j].key
<1>1. S \in SUBSET (1..Len(rows)) /\ S # {} /\ Len(rows) \in Nat /\ DOMAIN rows = 1..Len(rows)
    OBVIOUS
<1>2. PICK n \in S : \A m \in S : m <= n
    BY <1>1, GreatestOf
<1>3. \A m \in n + 1..Len(rows) : m \in 1..Len(rows) /\ ~ (m <= n)
    BY <1>1, <1>2
<1>4. n \in 1..Len(rows) /\ IsLast(n)
    BY <1>2, <1>3
<1>5. \E x \in DOMAIN rows : IsLast(x)
    BY <1>1, <1>4
<1> DEFINE l == CHOOSE x \in DOMAIN rows : IsLast(x)
<1>6. l \in DOMAIN rows /\ IsLast(l)
    BY <1>5
<1>7. LastRow(rows, rows[j].key) = rows[l]
    BY DEF LastRow
<1> HIDE DEF l, IsLast, S
<1>8. \A m \in 1..Len(rows) : rows[m].key = rows[j].key => m <= l
    <2> SUFFICES ASSUME NEW m \in 1..Len(rows), rows[m].key = rows[j].key, m > l PROVE FALSE
        BY <1>1, <1>6
    <2>1. m \in l + 1..Len(rows)
        BY <1>1, <1>6
    <2>2. QED
        BY <1>6, <2>1 DEF IsLast
<1>9. QED
    BY <1>1, <1>6, <1>7, <1>8 DEF IsLast

\* The ranks of a finite set of numbers are 1 to their number.
LEMMA RanksAre ==
    ASSUME NEW F \in SUBSET Int, IsFiniteSet(F)
    PROVE  LET rank(n) == Cardinality({m \in F : m <= n}) IN
           /\ Cardinality(F) \in Nat
           /\ \A n \in F : rank(n) \in 1..Cardinality(F)
           /\ \A i \in 1..Cardinality(F) : \E n \in F : rank(n) = i
           /\ \A n, m \in F : n < m => rank(n) < rank(m)
<1> DEFINE upTo(n) == {m \in F : m <= n}
           rank == [n \in F |-> Cardinality(upTo(n))]
           K == Cardinality(F)
<1>1. K \in Nat
    BY FS_CardinalityType
<1>2. \A n \in F : IsFiniteSet(upTo(n)) /\ n \in upTo(n) /\ Cardinality(upTo(n)) <= K
    BY FS_Subset
<1>3. \A n \in F : Cardinality(upTo(n)) \in 1..K
    <2> SUFFICES ASSUME NEW n \in F PROVE Cardinality(upTo(n)) \in 1..K
        OBVIOUS
    <2>1. Cardinality(upTo(n)) # 0 /\ Cardinality(upTo(n)) \in Nat
        BY <1>2, FS_EmptySet, FS_CardinalityType
    <2>2. QED
        BY <1>1, <1>2, <2>1
<1>4. ASSUME NEW n \in F, NEW m \in F, n < m
      PROVE  Cardinality(upTo(n)) < Cardinality(upTo(m))
    <2>1. \A x \in F : x \in Int
        OBVIOUS
    <2>2. \A x \in F : x <= n => x <= m
        BY <1>4, <2>1
    <2>3. m <= m /\ ~ (m <= n)
        BY <1>4, <2>1
    <2>4. upTo(n) \in SUBSET upTo(m) /\ m \in upTo(m) /\ m \notin upTo(n)
        BY <2>2, <2>3
    <2>5. Cardinality(upTo(n)) <= Cardinality(upTo(m))
          /\ Cardinality(upTo(n)) # Cardinality(upTo(m))
        BY <1>2, <2>4, FS_Subset
    <2> HIDE DEF upTo
    <2>6. QED
        BY <1>1, <1>3, <2>5
<1>5. \A n, m \in F : n # m => Cardinality(upTo(n)) # Cardinality(upTo(m))
    <2> SUFFICES ASSUME NEW n \in F, NEW m \in F, n # m
                 PROVE  Cardinality(upTo(n)) # Cardinality(upTo(m))
        OBVIOUS
    <2>1. n < m \/ m < n
        OBVIOUS
    <2> HIDE DEF upTo
    <2>2. QED
        BY <1>1, <1>3, <1>4, <2>1
<1>6. rank \in Injection(F, 1..K)
    BY <1>3, <1>5 DEF Injection, IsInjective
<1>7. IsFiniteSet(1..K) /\ Cardinality(1..K) = K
    BY <1>1, FS_Interval
<1>8. rank \in Surjection(F, 1..K)
    <2> HIDE DEF rank
    <2>1. QED
        BY <1>6, <1>7, FS_Injection
<1>9. \A i \in 1..K : \E n \in F : Cardinality(upTo(n)) = i
    BY <1>8 DEF Surjection
<1>10. QED
    BY <1>1, <1>3, <1>4, <1>9

\* Every place of the result is that of one first row.
LEMMA RankIsOnto ==
    ASSUME NEW N \in Nat, NEW F \in SUBSET (1..N)
    PROVE  /\ Cardinality(F) \in Nat
           /\ \A n \in F : Cardinality(F \cap 1..n) \in 1..Cardinality(F)
           /\ \A i \in 1..Cardinality(F) : \E n \in F : Cardinality(F \cap 1..n) = i
           /\ \A n, m \in F : Cardinality(F \cap 1..n) = Cardinality(F \cap 1..m) => n = m
<1> DEFINE rank(n) == Cardinality({m \in F : m <= n})
<1>1. F \in SUBSET Int /\ IsFiniteSet(F)
    <2>1. IsFiniteSet(1..N)
        BY FS_Interval
    <2>2. IsFiniteSet(F)
        BY <2>1, FS_Subset
    <2>3. QED
        BY <2>2
<1>2. /\ Cardinality(F) \in Nat
      /\ \A n \in F : rank(n) \in 1..Cardinality(F)
      /\ \A i \in 1..Cardinality(F) : \E n \in F : rank(n) = i
      /\ \A n, m \in F : n < m => rank(n) < rank(m)
    BY <1>1, RanksAre
<1>3. \A n \in F : {m \in F : m <= n} = F \cap 1..n
    <2>1. \A n, m \in F : n \in Nat /\ (m <= n <=> m \in 1..n)
        OBVIOUS
    <2>2. QED
        BY <2>1
<1>4. \A n \in F : rank(n) = Cardinality(F \cap 1..n)
    BY <1>3
<1> HIDE DEF rank
<1>5. \A n, m \in F : rank(n) = rank(m) => n = m
    <2> SUFFICES ASSUME NEW n \in F, NEW m \in F, n < m PROVE rank(n) # rank(m)
        OBVIOUS
    <2>1. rank(n) < rank(m) /\ rank(n) \in Int
        BY <1>2
    <2>2. QED
        BY <2>1
<1>6. QED
    BY <1>2, <1>4, <1>5

\* What _dedupe_rows returns: for each key the last row, and no other.
LEMMA DedupedFacts ==
    ASSUME NEW rows \in Seq(CheckRow)
    PROVE  /\ Deduped(rows) \in Seq(CheckRow)
           /\ \A i \in 1..Len(Deduped(rows)) : \E n \in 1..Len(rows) :
                /\ Deduped(rows)[i] = rows[n]
                /\ \A m \in 1..Len(rows) : rows[m].key = rows[n].key => m <= n
           /\ \A i, j \in 1..Len(Deduped(rows)) :
                Deduped(rows)[i].key = Deduped(rows)[j].key => i = j
           /\ \A n \in 1..Len(rows) : \E i \in 1..Len(Deduped(rows)) :
                Deduped(rows)[i].key = rows[n].key
<1> DEFINE F == FirstRows(rows)
           K == Cardinality(F)
           rank(n) == Cardinality(F \cap 1..n)
           nth(i) == CHOOSE n \in F : rank(n) = i
           D == Deduped(rows)
<1>1. Len(rows) \in Nat /\ DOMAIN rows = 1..Len(rows) /\ F \in SUBSET (1..Len(rows))
    BY DEF FirstRows
<1>2. /\ K \in Nat /\ \A n \in F : rank(n) \in 1..K
      /\ \A i \in 1..K : \E n \in F : rank(n) = i
      /\ \A n, m \in F : rank(n) = rank(m) => n = m
    BY <1>1, RankIsOnto
<1>3. D = [i \in 1..K |-> LastRow(rows, rows[nth(i)].key)]
    BY DEF Deduped
<1> HIDE DEF F, K, rank, D
<1>4. \A i \in 1..K : nth(i) \in F /\ rank(nth(i)) = i
    BY <1>2
<1> HIDE DEF nth
<1>5. \A n, m \in F : rows[n].key = rows[m].key => n = m
    <2> SUFFICES ASSUME NEW n \in F, NEW m \in F, rows[n].key = rows[m].key, n < m PROVE FALSE
        BY <1>1
    <2>1. n \in 1..m - 1
        BY <1>1
    <2>2. QED
        BY <2>1 DEF F, FirstRows
<1>6. \A i \in 1..K : \E n \in 1..Len(rows) :
        /\ D[i] = rows[n] /\ rows[n].key = rows[nth(i)].key
        /\ \A m \in 1..Len(rows) : rows[m].key = rows[n].key => m <= n
    <2> SUFFICES ASSUME NEW i \in 1..K
                 PROVE  \E n \in 1..Len(rows) :
                          /\ D[i] = rows[n] /\ rows[n].key = rows[nth(i)].key
                          /\ \A m \in 1..Len(rows) : rows[m].key = rows[n].key => m <= n
        OBVIOUS
    <2>1. nth(i) \in 1..Len(rows) /\ D[i] = LastRow(rows, rows[nth(i)].key)
        BY <1>1, <1>3, <1>4
    <2>2. QED
        BY <2>1, LastRowOf
<1>7. D \in Seq(CheckRow) /\ Len(D) = K
    <2>1. \A i \in 1..K : D[i] \in CheckRow
        BY <1>1, <1>6, ElementOfSeq
    <2>2. D \in [1..K -> CheckRow]
        BY <1>3, <2>1
    <2>3. QED
        BY <1>2, <2>2
<1>8. \A i \in 1..K : \E n \in 1..Len(rows) :
        D[i] = rows[n] /\ \A m \in 1..Len(rows) : rows[m].key = rows[n].key => m <= n
    BY <1>6
<1>9. \A i, j \in 1..K : D[i].key = D[j].key => i = j
    <2> SUFFICES ASSUME NEW i \in 1..K, NEW j \in 1..K, D[i].key = D[j].key PROVE i = j
        OBVIOUS
    <2>1. rows[nth(i)].key = rows[nth(j)].key
        BY <1>6
    <2>2. QED
        BY <1>4, <1>5, <2>1
<1>10. \A n \in 1..Len(rows) : \E i \in 1..K : D[i].key = rows[n].key
    <2> SUFFICES ASSUME NEW n \in 1..Len(rows) PROVE \E i \in 1..K : D[i].key = rows[n].key
        OBVIOUS
    <2>1. PICK f \in F : rows[f].key = rows[n].key
        BY FirstRowOf DEF F
    <2>2. rank(f) \in 1..K /\ nth(rank(f)) = f
        BY <1>2, <1>4
    <2>3. QED
        BY <1>6, <2>1, <2>2
<1>11. QED
    BY <1>7, <1>8, <1>9, <1>10 DEF D

-----------------------------------------------------------------------------
(* The rows, wherever they are                                             *)

LEMMA InFlightFacts ==
    ASSUME NEW doing \in [Threads -> {"no", "asked", "storing"}], NEW rows
    PROVE  /\ (\A u \in Threads : doing[u] # "storing") => InFlight(doing, rows) = NoRows
           /\ \A t \in Threads :
                (/\ doing[t] = "storing"
                 /\ \A u \in Threads : doing[u] = "storing" => u = t)
                => InFlight(doing, rows) = rows[t]
<1>1. ASSUME NEW t \in Threads, doing[t] = "storing",
             \A u \in Threads : doing[u] = "storing" => u = t
      PROVE  InFlight(doing, rows) = rows[t]
    <2> DEFINE w == CHOOSE u \in Threads : doing[u] = "storing"
    <2>1. w \in Threads /\ doing[w] = "storing"
        BY <1>1
    <2>2. w = t
        BY <1>1, <2>1
    <2> HIDE DEF w
    <2>3. InFlight(doing, rows) = rows[w]
        BY <1>1 DEF InFlight, w
    <2>4. QED
        BY <2>2, <2>3
<1>2. QED
    BY <1>1 DEF InFlight

LEMMA RowFactsOf ==
    ASSUME NEW rows \in Seq(CheckRow)
    PROVE  \A i \in 1..Len(rows) : rows[i] \in CheckRow /\ rows[i].n \in Nat
<1>1. \A i \in 1..Len(rows) : rows[i] \in CheckRow
    BY ElementOfSeq
<1>2. QED
    BY <1>1 DEF CheckRow

LEMMA OutcomesAdd ==
    ASSUME NEW table \in SUBSET CheckRow, NEW storing \in Seq(CheckRow),
           NEW waiting \in Seq(CheckRow), NEW log \in Seq(CheckpointKeys), NEW k \in CheckpointKeys,
           Outcomes(table, storing, waiting, log)
    PROVE  Outcomes(table, storing, Append(waiting, [key |-> k, n |-> Len(log) + 1]),
                    Append(log, k))
<1> DEFINE row == [key |-> k, n |-> Len(log) + 1]
           more == Append(waiting, row)
           longer == Append(log, k)
<1>1. /\ Len(log) \in Nat /\ Len(waiting) \in Nat /\ Len(storing) \in Nat
      /\ row \in CheckRow /\ row.key = k /\ row.n = Len(log) + 1
    BY DEF CheckRow
<1> HIDE DEF row
<1>2. /\ Len(more) = Len(waiting) + 1 /\ more[Len(waiting) + 1] = row
      /\ \A i \in 1..Len(waiting) : more[i] = waiting[i]
    BY <1>1
<1>3. /\ Len(longer) = Len(log) + 1 /\ longer[Len(log) + 1] = k
      /\ \A i \in 1..Len(log) : longer[i] = log[i]
    BY <1>1
<1> HIDE DEF more, longer
<1>4. /\ \A i \in 1..Len(more) : i \in 1..Len(waiting) \/ i = Len(waiting) + 1
      /\ \A i \in 1..Len(longer) : i \in 1..Len(log) \/ i = Len(log) + 1
      /\ \A i \in 1..Len(waiting) : i \in 1..Len(more)
      /\ Len(waiting) + 1 \in 1..Len(more)
    BY <1>1, <1>2, <1>3
<1>5. /\ \A a \in table : a.n \in Nat /\ a.n <= Len(log)
      /\ \A i \in 1..Len(storing) : storing[i].n \in Nat /\ storing[i].n <= Len(log)
      /\ \A i \in 1..Len(waiting) : waiting[i].n \in Nat /\ waiting[i].n <= Len(log)
    BY RowFactsOf DEF Outcomes, CheckRow
<1>6. /\ \A a \in table : a.n <= Len(longer) /\ Earlier(a, row)
      /\ \A i \in 1..Len(storing) : storing[i].n <= Len(longer) /\ Earlier(storing[i], row)
      /\ \A i \in 1..Len(waiting) : waiting[i].n <= Len(longer) /\ Earlier(waiting[i], row)
      /\ row.n <= Len(longer)
    BY <1>1, <1>3, <1>5 DEF Earlier
<1>7. /\ \A i \in 1..Len(more) : more[i].n <= Len(longer)
      /\ \A a \in table, i \in 1..Len(more) : Earlier(a, more[i])
      /\ \A i \in 1..Len(storing), j \in 1..Len(more) : Earlier(storing[i], more[j])
    BY <1>2, <1>4, <1>6 DEF Outcomes
<1>8. \A i, j \in 1..Len(more) : i < j => Earlier(more[i], more[j])
    <2> SUFFICES ASSUME NEW i \in 1..Len(more), NEW j \in 1..Len(more), i < j
                 PROVE  Earlier(more[i], more[j])
        OBVIOUS
    <2>1. i \in 1..Len(waiting) /\ more[i] = waiting[i]
        BY <1>1, <1>2, <1>4
    <2>2. CASE j \in 1..Len(waiting)
        BY <1>2, <2>1, <2>2 DEF Outcomes
    <2>3. CASE j = Len(waiting) + 1
        BY <1>2, <1>6, <2>1, <2>3
    <2>4. QED
        BY <1>4, <2>2, <2>3
<1>9. ASSUME NEW m \in 1..Len(longer)
      PROVE  \/ \E a \in table : a.key = longer[m] /\ a.n >= m
             \/ \E i \in 1..Len(storing) : storing[i].key = longer[m] /\ storing[i].n >= m
             \/ \E i \in 1..Len(more) : more[i].key = longer[m] /\ more[i].n >= m
    <2>1. CASE m = Len(log) + 1
        BY <1>1, <1>2, <1>3, <1>4, <2>1
    <2>2. CASE m \in 1..Len(log)
        <3>1. longer[m] = log[m]
            BY <1>3, <2>2
        <3>2. \/ \E a \in table : a.key = log[m] /\ a.n >= m
              \/ \E i \in 1..Len(storing) : storing[i].key = log[m] /\ storing[i].n >= m
              \/ \E i \in 1..Len(waiting) : waiting[i].key = log[m] /\ waiting[i].n >= m
            BY <2>2 DEF Outcomes
        <3>3. QED
            BY <1>2, <1>4, <3>1, <3>2
    <2>3. QED
        BY <1>4, <2>1, <2>2
<1>10. QED
    BY <1>6, <1>7, <1>8, <1>9 DEF Outcomes, more, longer, row

LEMMA OutcomesTake ==
    ASSUME NEW table \in SUBSET CheckRow, NEW waiting \in Seq(CheckRow),
           NEW log \in Seq(CheckpointKeys), Outcomes(table, <<>>, waiting, log)
    PROVE  Outcomes(table, Deduped(waiting), <<>>, log)
<1> DEFINE D == Deduped(waiting)
<1>1. /\ \A i \in 1..Len(D) : \E n \in 1..Len(waiting) :
            D[i] = waiting[n] /\ \A m \in 1..Len(waiting) : waiting[m].key = waiting[n].key => m <= n
      /\ \A i, j \in 1..Len(D) : D[i].key = D[j].key => i = j
      /\ \A n \in 1..Len(waiting) : \E i \in 1..Len(D) : D[i].key = waiting[n].key
    BY DedupedFacts
<1> HIDE DEF D
<1>2. Len(<<>>) = 0 /\ 1..0 = {}
    OBVIOUS
<1>3. /\ \A i \in 1..Len(D) : D[i].n <= Len(log)
      /\ \A a \in table, i \in 1..Len(D) : Earlier(a, D[i])
    BY <1>1 DEF Outcomes
<1>4. \A n \in 1..Len(waiting) : waiting[n].n \in Nat
    BY RowFactsOf
<1>5. ASSUME NEW m \in 1..Len(log), NEW n \in 1..Len(waiting),
             waiting[n].key = log[m], waiting[n].n >= m
      PROVE  \E i \in 1..Len(D) : D[i].key = log[m] /\ D[i].n >= m
    <2>1. PICK i \in 1..Len(D) : D[i].key = waiting[n].key
        BY <1>1
    <2>2. PICK l \in 1..Len(waiting) :
            D[i] = waiting[l] /\ \A x \in 1..Len(waiting) : waiting[x].key = waiting[l].key => x <= l
        BY <1>1
    <2>3. n <= l /\ waiting[n].key = waiting[l].key
        BY <2>1, <2>2
    <2>4. n < l => waiting[n].n < waiting[l].n
        BY <2>3 DEF Outcomes, Earlier
    <2>5. waiting[l].n >= m
        BY <1>4, <1>5, <2>3, <2>4
    <2>6. QED
        BY <1>5, <2>1, <2>2, <2>5
<1>6. ASSUME NEW m \in 1..Len(log)
      PROVE  \/ \E a \in table : a.key = log[m] /\ a.n >= m
             \/ \E i \in 1..Len(D) : D[i].key = log[m] /\ D[i].n >= m
    <2>1. \/ \E a \in table : a.key = log[m] /\ a.n >= m
          \/ \E i \in 1..Len(waiting) : waiting[i].key = log[m] /\ waiting[i].n >= m
        BY <1>2 DEF Outcomes
    <2>2. QED
        BY <1>5, <2>1
<1>7. Outcomes(table, D, <<>>, log)
    BY <1>1, <1>2, <1>3, <1>6 DEF Outcomes
<1>8. QED
    BY <1>7 DEF D

LEMMA OutcomesFail ==
    ASSUME NEW table \in SUBSET CheckRow, NEW storing \in Seq(CheckRow),
           NEW waiting \in Seq(CheckRow), NEW log \in Seq(CheckpointKeys),
           Outcomes(table, storing, waiting, log)
    PROVE  Outcomes(table, <<>>, storing \o waiting, log)
<1> DEFINE all == storing \o waiting
<1>1. Len(storing) \in Nat /\ Len(waiting) \in Nat
    OBVIOUS
<1>2. /\ Len(all) = Len(storing) + Len(waiting)
      /\ \A i \in 1..Len(storing) : all[i] = storing[i]
      /\ \A i \in 1..Len(waiting) : all[Len(storing) + i] = waiting[i]
    BY <1>1
<1> HIDE DEF all
<1>3. /\ \A i \in 1..Len(all) :
            i \in 1..Len(storing) \/ \E j \in 1..Len(waiting) : i = Len(storing) + j
      /\ \A i \in 1..Len(storing) : i \in 1..Len(all)
      /\ \A i \in 1..Len(waiting) : Len(storing) + i \in 1..Len(all)
    <2>1. ASSUME NEW i \in 1..Len(all), i \notin 1..Len(storing)
          PROVE  \E j \in 1..Len(waiting) : i = Len(storing) + j
        <3>1. i - Len(storing) \in 1..Len(waiting) /\ i = Len(storing) + (i - Len(storing))
            BY <1>1, <1>2, <2>1
        <3>2. QED
            BY <3>1
    <2>2. \A i \in 1..Len(storing) : i \in 1..Len(all)
        BY <1>1, <1>2
    <2>3. \A i \in 1..Len(waiting) : Len(storing) + i \in 1..Len(all)
        BY <1>1, <1>2
    <2>4. QED
        BY <2>1, <2>2, <2>3
<1>4. /\ \A i \in 1..Len(all) : all[i].n <= Len(log)
      /\ \A a \in table, i \in 1..Len(all) : Earlier(a, all[i])
    <2> SUFFICES ASSUME NEW i \in 1..Len(all)
                 PROVE  all[i].n <= Len(log) /\ \A a \in table : Earlier(a, all[i])
        OBVIOUS
    <2>1. \/ \E j \in 1..Len(storing) : all[i] = storing[j]
          \/ \E j \in 1..Len(waiting) : all[i] = waiting[j]
        BY <1>2, <1>3
    <2>2. QED
        BY <2>1 DEF Outcomes
<1>5. \A i, j \in 1..Len(all) : i < j => Earlier(all[i], all[j])
    <2> SUFFICES ASSUME NEW i \in 1..Len(all), NEW j \in 1..Len(all), i < j
                 PROVE  Earlier(all[i], all[j])
        OBVIOUS
    <2>1. CASE j \in 1..Len(storing)
        <3>1. i \in 1..Len(storing)
            BY <1>1, <1>3, <2>1
        <3>2. storing[i].key # storing[j].key
            BY <2>1, <3>1 DEF Outcomes
        <3>3. QED
            BY <1>2, <2>1, <3>1, <3>2 DEF Earlier
    <2>2. ASSUME i \in 1..Len(storing), NEW m \in 1..Len(waiting), j = Len(storing) + m
          PROVE  Earlier(all[i], all[j])
        BY <1>2, <2>2 DEF Outcomes
    <2>3. ASSUME NEW l \in 1..Len(waiting), i = Len(storing) + l,
                 NEW m \in 1..Len(waiting), j = Len(storing) + m
          PROVE  Earlier(all[i], all[j])
        <3>1. l < m
            BY <1>1, <2>3
        <3>2. QED
            BY <1>2, <2>3, <3>1 DEF Outcomes
    <2>4. QED
        BY <1>3, <2>1, <2>2, <2>3
<1>6. Len(<<>>) = 0 /\ 1..0 = {}
    OBVIOUS
<1>7. ASSUME NEW m \in 1..Len(log)
      PROVE  \/ \E a \in table : a.key = log[m] /\ a.n >= m
             \/ \E i \in 1..Len(all) : all[i].key = log[m] /\ all[i].n >= m
    <2>1. \/ \E a \in table : a.key = log[m] /\ a.n >= m
          \/ \E i \in 1..Len(storing) : storing[i].key = log[m] /\ storing[i].n >= m
          \/ \E i \in 1..Len(waiting) : waiting[i].key = log[m] /\ waiting[i].n >= m
        BY DEF Outcomes
    <2>2. QED
        BY <1>2, <1>3, <2>1
<1>8. Outcomes(table, <<>>, all, log)
    BY <1>4, <1>5, <1>6, <1>7 DEF Outcomes
<1>9. QED
    BY <1>8 DEF all

LEMMA OutcomesCommit ==
    ASSUME checkTable \subseteq CheckRow, NEW storing \in Seq(CheckRow),
           NEW waiting \in Seq(CheckRow), NEW log \in Seq(CheckpointKeys),
           Outcomes(checkTable, storing, waiting, log)
    PROVE  /\ Upserted(storing) \subseteq CheckRow
           /\ Outcomes(Upserted(storing), <<>>, waiting, log)
<1> DEFINE new == Upserted(storing)
<1>1. \A row : row \in new <=>
        \/ /\ row \in checkTable
           /\ ~ \E n \in 1..Len(storing) : storing[n].key = row.key /\ row.key \notin NullKeys
        \/ \E n \in 1..Len(storing) : row = storing[n]
    BY DEF Upserted, ToSet
<1> HIDE DEF new
<1>2. \A n \in 1..Len(storing) : storing[n] \in CheckRow /\ storing[n] \in new
    BY <1>1, ElementOfSeq
<1>3. new \subseteq CheckRow
    BY <1>1, <1>2
<1>4. /\ \A a \in new : a.n <= Len(log)
      /\ \A a \in new, i \in 1..Len(waiting) : Earlier(a, waiting[i])
    BY <1>1 DEF Outcomes
<1>5. \A a, b \in new : a.key = b.key /\ a.key \notin NullKeys => a = b
    <2> SUFFICES ASSUME NEW a \in new, NEW b \in new, a.key = b.key, a.key \notin NullKeys
                 PROVE  a = b
        OBVIOUS
    <2>1. CASE \E n \in 1..Len(storing) : storing[n].key = a.key
        <3>1. PICK n \in 1..Len(storing) : a = storing[n]
            BY <1>1, <2>1
        <3>2. PICK m \in 1..Len(storing) : b = storing[m]
            BY <1>1, <2>1
        <3>3. QED
            BY <3>1, <3>2 DEF Outcomes
    <2>2. CASE ~ \E n \in 1..Len(storing) : storing[n].key = a.key
        BY <1>1, <2>2 DEF Outcomes
    <2>3. QED
        BY <2>1, <2>2
<1>6. Len(<<>>) = 0 /\ 1..0 = {}
    OBVIOUS
<1>7. ASSUME NEW m \in 1..Len(log)
      PROVE  \/ \E a \in new : a.key = log[m] /\ a.n >= m
             \/ \E i \in 1..Len(waiting) : waiting[i].key = log[m] /\ waiting[i].n >= m
    <2>1. \/ \E a \in checkTable : a.key = log[m] /\ a.n >= m
          \/ \E i \in 1..Len(storing) : storing[i].key = log[m] /\ storing[i].n >= m
          \/ \E i \in 1..Len(waiting) : waiting[i].key = log[m] /\ waiting[i].n >= m
        BY DEF Outcomes
    <2>2. ASSUME NEW a \in checkTable, a.key = log[m], a.n >= m
          PROVE  \E b \in new : b.key = log[m] /\ b.n >= m
        <3>1. CASE a \in new
            BY <2>2, <3>1
        <3>2. CASE a \notin new
            <4>1. PICK i \in 1..Len(storing) : storing[i].key = a.key
                BY <1>1, <3>2
            <4>2. a.n < storing[i].n
                BY <4>1 DEF Outcomes, Earlier
            <4>3. a.n \in Nat /\ storing[i].n \in Nat /\ m \in Nat
                <5>1. a \in CheckRow /\ storing[i] \in CheckRow
                    BY <1>2, <4>1
                <5>2. QED
                    BY <5>1 DEF CheckRow
            <4>4. storing[i].n >= m
                BY <2>2, <4>2, <4>3
            <4>5. QED
                BY <1>2, <2>2, <4>1, <4>4
        <3>3. QED
            BY <3>1, <3>2
    <2>3. QED
        BY <1>2, <2>1, <2>2
<1>8. Outcomes(new, <<>>, waiting, log)
    BY <1>4, <1>5, <1>6, <1>7 DEF Outcomes
<1>9. QED
    BY <1>3, <1>8 DEF new

-----------------------------------------------------------------------------
(* The steps                                                               *)

LEMMA BatchInitially == BatchInit => BatchInv
<1> SUFFICES ASSUME BatchInit PROVE BatchInv
    OBVIOUS
<1>1. /\ runRows = <<>> /\ checkRows = <<>> /\ runTable = <<>> /\ checkTable = {} /\ added = <<>>
      /\ doingFlush = [t \in Threads |-> "no"] /\ taken = [t \in Threads |-> NoRows]
    BY DEF BatchInit, NoTables
<1>2. /\ Len(<<>>) = 0 /\ 1..0 = {} /\ <<>> \in Seq(Nat) /\ <<>> \in Seq(CheckRow)
      /\ <<>> \in Seq(CheckpointKeys) /\ 0 <= MaxAdds
    BY BatchAssumption
<1>3. BatchTypes
    BY <1>1, <1>2 DEF BatchTypes, NoRows
<1>4. OneFlush
    BY <1>1 DEF OneFlush
<1>5. InFlight(doingFlush, taken) = NoRows
    BY <1>1 DEF InFlight
<1>6. InFlight(doingFlush, taken).runs = <<>> /\ InFlight(doingFlush, taken).checks = <<>>
    BY <1>5 DEF NoRows
<1>7. InOrder(<<>>, <<>>, <<>>, 0)
    BY <1>2 DEF InOrder
<1>8. Outcomes({}, <<>>, <<>>, <<>>)
    BY <1>2 DEF Outcomes
<1>9. QED
    BY <1>1, <1>2, <1>3, <1>4, <1>6, <1>7, <1>8 DEF BatchInv

\* Steps in which no thread takes rows or gives them back.
LEMMA SameFlight ==
    ASSUME BatchTypes, BatchTypes', OneFlush, taken' = taken, flushLock' = flushLock,
           \A t \in Threads : doingFlush'[t] = "storing" <=> doingFlush[t] = "storing"
    PROVE  OneFlush' /\ InFlight(doingFlush', taken') = InFlight(doingFlush, taken)
<1>1. OneFlush'
    BY DEF OneFlush, NoRows
<1>2. /\ doingFlush \in [Threads -> {"no", "asked", "storing"}]
      /\ doingFlush' \in [Threads -> {"no", "asked", "storing"}]
    BY DEF BatchTypes
<1>3. CASE \A t \in Threads : doingFlush[t] # "storing"
    <2>1. InFlight(doingFlush, taken) = NoRows
        BY <1>2, <1>3, InFlightFacts
    <2>2. \A t \in Threads : doingFlush'[t] # "storing"
        BY <1>3
    <2>3. InFlight(doingFlush', taken') = NoRows
        BY <1>2, <2>2, InFlightFacts
    <2>4. QED
        BY <1>1, <2>1, <2>3
<1>4. ASSUME NEW t \in Threads, doingFlush[t] = "storing"
      PROVE  InFlight(doingFlush', taken') = InFlight(doingFlush, taken)
    <2>1. \A u \in Threads : doingFlush[u] = "storing" => u = t
        BY <1>4 DEF OneFlush
    <2>2. InFlight(doingFlush, taken) = taken[t]
        BY <1>2, <1>4, <2>1, InFlightFacts
    <2>3. InFlight(doingFlush', taken') = taken'[t]
        BY <1>2, <1>4, <2>1, InFlightFacts
    <2>4. QED
        BY <2>2, <2>3
<1>5. QED
    BY <1>1, <1>3, <1>4

LEMMA InFlightTypes ==
    ASSUME BatchTypes
    PROVE  /\ InFlight(doingFlush, taken).runs \in Seq(Nat)
           /\ InFlight(doingFlush, taken).checks \in Seq(CheckRow)
<1>1. \A t \in Threads : taken[t].runs \in Seq(Nat) /\ taken[t].checks \in Seq(CheckRow)
    BY DEF BatchTypes
<1>2. NoRows.runs \in Seq(Nat) /\ NoRows.checks \in Seq(CheckRow)
    BY DEF NoRows
<1>3. QED
    BY <1>1, <1>2 DEF InFlight

LEMMA InOrderAdd ==
    ASSUME NEW table \in Seq(Nat), NEW storing \in Seq(Nat), NEW waiting \in Seq(Nat),
           NEW count \in Nat, InOrder(table, storing, waiting, count)
    PROVE  InOrder(table, storing, Append(waiting, count + 1), count + 1)
<1>1. Len(table) \in Nat /\ Len(storing) \in Nat /\ Len(waiting) \in Nat
    OBVIOUS
<1> DEFINE more == Append(waiting, count + 1)
<1>2. /\ Len(more) = Len(waiting) + 1 /\ more[Len(waiting) + 1] = count + 1
      /\ \A i \in 1..Len(waiting) : more[i] = waiting[i]
    BY <1>1
<1> HIDE DEF more
<1>3. \A i \in 1..Len(more) : i \in 1..Len(waiting) \/ i = Len(waiting) + 1
    BY <1>1, <1>2
<1>4. \A i \in 1..Len(more) : more[i] = Len(table) + Len(storing) + i
    <2> SUFFICES ASSUME NEW i \in 1..Len(more) PROVE more[i] = Len(table) + Len(storing) + i
        OBVIOUS
    <2>1. CASE i \in 1..Len(waiting)
        BY <1>2, <2>1 DEF InOrder
    <2>2. CASE i = Len(waiting) + 1
        BY <1>1, <1>2, <2>2 DEF InOrder
    <2>3. QED
        BY <1>3, <2>1, <2>2
<1>5. Len(table) + Len(storing) + Len(more) = count + 1
    BY <1>1, <1>2 DEF InOrder
<1>6. InOrder(table, storing, more, count + 1)
    BY <1>4, <1>5 DEF InOrder
<1>7. QED
    BY <1>6 DEF more

LEMMA AddStep ==
    ASSUME BatchInv, NEW t \in Threads, NEW k \in CheckpointKeys, AddRows(t, k)
    PROVE  BatchInv'
<1> USE DEF BatchInv
<1>1. /\ doingFlush[t] = "no" /\ Len(added) < MaxAdds /\ added' = Append(added, k)
      /\ runRows' = Append(runRows, Len(added'))
      /\ checkRows' = Append(checkRows, [key |-> k, n |-> Len(added')])
      /\ doingFlush' = [doingFlush EXCEPT ![t] =
                          IF Len(runRows') >= FlushSize THEN "asked" ELSE doingFlush[t]]
      /\ UNCHANGED <<taken, flushLock, runTable, checkTable>>
    BY DEF AddRows, TaskRows
<1>2. added \in Seq(CheckpointKeys) /\ runRows \in Seq(Nat) /\ checkRows \in Seq(CheckRow)
    BY DEF BatchTypes
<1>3. Len(added) \in Nat /\ Len(added') = Len(added) + 1 /\ added' \in Seq(CheckpointKeys)
    BY <1>1, <1>2
<1>4. [key |-> k, n |-> Len(added')] \in CheckRow
    BY <1>3 DEF CheckRow
<1>5. BatchTypes'
    <2>1. runRows' \in Seq(Nat) /\ checkRows' \in Seq(CheckRow)
        BY <1>1, <1>2, <1>3, <1>4
    <2>2. doingFlush' \in [Threads -> {"no", "asked", "storing"}]
        BY <1>1 DEF BatchTypes
    <2>3. Len(added') <= MaxAdds
        BY <1>1, <1>3, BatchAssumption
    <2>4. QED
        BY <1>1, <1>3, <2>1, <2>2, <2>3 DEF BatchTypes
<1>6. OneFlush' /\ InFlight(doingFlush', taken') = InFlight(doingFlush, taken)
    <2>1. \A u \in Threads : doingFlush'[u] = "storing" <=> doingFlush[u] = "storing"
        BY <1>1 DEF BatchTypes
    <2>2. QED
        BY <1>1, <1>5, <2>1, SameFlight
<1> DEFINE flight == InFlight(doingFlush, taken)
<1>7. flight.runs \in Seq(Nat) /\ flight.checks \in Seq(CheckRow)
    BY InFlightTypes
<1>8. InOrder(runTable, flight.runs, runRows', Len(added'))
    BY <1>1, <1>2, <1>3, <1>7, InOrderAdd DEF BatchTypes
<1>9. Outcomes(checkTable, flight.checks, checkRows', added')
    BY <1>1, <1>2, <1>3, <1>7, OutcomesAdd DEF BatchTypes
<1>10. QED
    BY <1>1, <1>5, <1>6, <1>8, <1>9

LEMMA AskStep ==
    ASSUME BatchInv, NEW t \in Threads, AskFlush(t)
    PROVE  BatchInv'
<1> USE DEF BatchInv
<1>1. /\ doingFlush[t] = "no" /\ doingFlush' = [doingFlush EXCEPT ![t] = "asked"]
      /\ UNCHANGED <<runRows, checkRows, taken, flushLock, runTable, checkTable, added>>
    BY DEF AskFlush
<1>2. BatchTypes'
    BY <1>1 DEF BatchTypes
<1>3. \A u \in Threads : doingFlush'[u] = "storing" <=> doingFlush[u] = "storing"
    BY <1>1 DEF BatchTypes
<1>4. OneFlush' /\ InFlight(doingFlush', taken') = InFlight(doingFlush, taken)
    BY <1>1, <1>2, <1>3, SameFlight
<1>5. QED
    BY <1>1, <1>2, <1>4

LEMMA TakeStep ==
    ASSUME BatchInv, NEW t \in Threads, TakeRows(t)
    PROVE  BatchInv'
<1> USE DEF BatchInv
<1>1. /\ doingFlush[t] = "asked" /\ flushLock = FALSE
      /\ UNCHANGED <<runTable, checkTable, added>>
    BY DEF TakeRows, MayTake
<1>2. CASE runRows = <<>>
    <2>1. /\ doingFlush' = [doingFlush EXCEPT ![t] = "no"]
          /\ UNCHANGED <<runRows, checkRows, taken, flushLock>>
        BY <1>2 DEF TakeRows
    <2>2. BatchTypes'
        BY <1>1, <2>1 DEF BatchTypes
    <2>3. \A u \in Threads : doingFlush'[u] = "storing" <=> doingFlush[u] = "storing"
        BY <1>1, <2>1 DEF BatchTypes
    <2>4. OneFlush' /\ InFlight(doingFlush', taken') = InFlight(doingFlush, taken)
        BY <2>1, <2>2, <2>3, SameFlight
    <2>5. QED
        BY <1>1, <2>1, <2>2, <2>4
<1>3. CASE runRows # <<>>
    <2> DEFINE rows == [runs |-> runRows, checks |-> Deduped(checkRows)]
    <2>1. /\ doingFlush' = [doingFlush EXCEPT ![t] = "storing"]
          /\ taken' = [taken EXCEPT ![t] = rows]
          /\ runRows' = <<>> /\ checkRows' = <<>> /\ flushLock' = TRUE
        BY <1>3 DEF TakeRows
    <2>2. runRows \in Seq(Nat) /\ checkRows \in Seq(CheckRow) /\ Deduped(checkRows) \in Seq(CheckRow)
        BY DedupedFacts DEF BatchTypes
    <2>3. rows.runs = runRows /\ rows.checks = Deduped(checkRows)
          /\ rows \in [runs : Seq(Nat), checks : Seq(CheckRow)]
        BY <2>2
    <2> HIDE DEF rows
    <2>4. BatchTypes'
        BY <1>1, <2>1, <2>3 DEF BatchTypes
    <2>5. /\ \A u \in Threads : doingFlush[u] # "storing"
          /\ doingFlush'[t] = "storing" /\ taken'[t] = rows
          /\ \A u \in Threads : u # t => doingFlush'[u] # "storing" /\ taken'[u] = NoRows
        BY <1>1, <2>1 DEF BatchTypes, OneFlush
    <2>6. OneFlush'
        BY <2>1, <2>5 DEF OneFlush, NoRows
    <2>7. InFlight(doingFlush, taken) = NoRows /\ InFlight(doingFlush', taken') = rows
        <3>1. /\ doingFlush \in [Threads -> {"no", "asked", "storing"}]
              /\ doingFlush' \in [Threads -> {"no", "asked", "storing"}]
            BY <2>4 DEF BatchTypes
        <3>2. InFlight(doingFlush, taken) = NoRows
            BY <2>5, <3>1, InFlightFacts
        <3>3. \A u \in Threads : doingFlush'[u] = "storing" => u = t
            BY <2>5
        <3>4. InFlight(doingFlush', taken') = taken'[t]
            BY <2>5, <3>1, <3>3, InFlightFacts
        <3>5. QED
            BY <2>5, <3>2, <3>4
    <2>8. InOrder(runTable, <<>>, runRows, Len(added)) /\ Outcomes(checkTable, <<>>, checkRows, added)
        BY <2>7 DEF NoRows
    <2>9. InOrder(runTable, runRows, <<>>, Len(added))
        BY <2>2, <2>8 DEF InOrder, BatchTypes
    <2>10. Outcomes(checkTable, Deduped(checkRows), <<>>, added)
        BY <2>8, OutcomesTake DEF BatchTypes
    <2>11. QED
        BY <1>1, <2>1, <2>3, <2>4, <2>6, <2>7, <2>9, <2>10
<1>4. QED
    BY <1>2, <1>3

\* The thread that stores rows is the only one, and has none afterwards.
LEMMA FlushEnds ==
    ASSUME BatchTypes, OneFlush, NEW t \in Threads, doingFlush[t] = "storing",
           taken' = [taken EXCEPT ![t] = NoRows], doingFlush' = [doingFlush EXCEPT ![t] = "no"]
    PROVE  /\ taken[t].runs \in Seq(Nat) /\ taken[t].checks \in Seq(CheckRow)
           /\ doingFlush' \in [Threads -> {"no", "asked", "storing"}]
           /\ taken' \in [Threads -> [runs : Seq(Nat), checks : Seq(CheckRow)]]
           /\ OneFlush'
           /\ InFlight(doingFlush, taken) = taken[t] /\ InFlight(doingFlush', taken') = NoRows
<1>1. \A u \in Threads : doingFlush[u] = "storing" => u = t
    BY DEF OneFlush
<1>2. /\ taken[t] \in [runs : Seq(Nat), checks : Seq(CheckRow)]
      /\ doingFlush' \in [Threads -> {"no", "asked", "storing"}]
      /\ doingFlush \in [Threads -> {"no", "asked", "storing"}]
      /\ taken' \in [Threads -> [runs : Seq(Nat), checks : Seq(CheckRow)]]
    BY DEF BatchTypes, NoRows
<1>3. /\ \A u \in Threads : doingFlush'[u] # "storing"
      /\ \A u \in Threads : taken'[u] = NoRows
    BY <1>1 DEF BatchTypes, OneFlush
<1>4. OneFlush'
    BY <1>3 DEF OneFlush, NoRows
<1>5. InFlight(doingFlush, taken) = taken[t]
    BY <1>1, <1>2, InFlightFacts
<1>6. InFlight(doingFlush', taken') = NoRows
    BY <1>2, <1>3, InFlightFacts
<1>7. QED
    BY <1>2, <1>4, <1>5, <1>6

LEMMA InOrderJoined ==
    ASSUME NEW table \in Seq(Nat), NEW storing \in Seq(Nat), NEW waiting \in Seq(Nat), NEW count,
           InOrder(table, storing, waiting, count)
    PROVE  /\ InOrder(table \o storing, <<>>, waiting, count)
           /\ InOrder(table, <<>>, storing \o waiting, count)
<1>1. /\ Len(table) \in Nat /\ Len(storing) \in Nat /\ Len(waiting) \in Nat
      /\ Len(<<>>) = 0 /\ 1..0 = {}
    OBVIOUS
<1>2. ASSUME NEW a \in Seq(Nat), NEW b \in Seq(Nat)
      PROVE  /\ Len(a \o b) = Len(a) + Len(b)
             /\ \A i \in 1..Len(a) : (a \o b)[i] = a[i]
             /\ \A i \in 1..Len(a \o b) : i \notin 1..Len(a) =>
                   i - Len(a) \in 1..Len(b) /\ (a \o b)[i] = b[i - Len(a)]
    OBVIOUS
<1>3. InOrder(table \o storing, <<>>, waiting, count)
    <2> DEFINE both == table \o storing
    <2>1. /\ Len(both) = Len(table) + Len(storing)
          /\ \A i \in 1..Len(table) : both[i] = table[i]
          /\ \A i \in 1..Len(both) : i \notin 1..Len(table) =>
                i - Len(table) \in 1..Len(storing) /\ both[i] = storing[i - Len(table)]
        BY <1>2
    <2> HIDE DEF both
    <2>2. \A i \in 1..Len(both) : both[i] = i
        <3> SUFFICES ASSUME NEW i \in 1..Len(both) PROVE both[i] = i
            OBVIOUS
        <3>1. CASE i \in 1..Len(table)
            BY <2>1, <3>1 DEF InOrder
        <3>2. CASE i \notin 1..Len(table)
            <4>1. i - Len(table) \in 1..Len(storing) /\ both[i] = storing[i - Len(table)]
                BY <2>1, <3>2
            <4>2. both[i] = Len(table) + (i - Len(table))
                BY <4>1 DEF InOrder
            <4>3. QED
                BY <1>1, <4>2
        <3>3. QED
            BY <3>1, <3>2
    <2>3. InOrder(both, <<>>, waiting, count)
        BY <1>1, <2>1, <2>2 DEF InOrder
    <2>4. QED
        BY <2>3 DEF both
<1>4. InOrder(table, <<>>, storing \o waiting, count)
    <2> DEFINE both == storing \o waiting
    <2>1. /\ Len(both) = Len(storing) + Len(waiting)
          /\ \A i \in 1..Len(storing) : both[i] = storing[i]
          /\ \A i \in 1..Len(both) : i \notin 1..Len(storing) =>
                i - Len(storing) \in 1..Len(waiting) /\ both[i] = waiting[i - Len(storing)]
        BY <1>2
    <2> HIDE DEF both
    <2>2. \A i \in 1..Len(both) : both[i] = Len(table) + i
        <3> SUFFICES ASSUME NEW i \in 1..Len(both) PROVE both[i] = Len(table) + i
            OBVIOUS
        <3>1. CASE i \in 1..Len(storing)
            BY <2>1, <3>1 DEF InOrder
        <3>2. CASE i \notin 1..Len(storing)
            <4>1. i - Len(storing) \in 1..Len(waiting) /\ both[i] = waiting[i - Len(storing)]
                BY <2>1, <3>2
            <4>2. both[i] = Len(table) + Len(storing) + (i - Len(storing))
                BY <4>1 DEF InOrder
            <4>3. QED
                BY <1>1, <4>2
        <3>3. QED
            BY <3>1, <3>2
    <2>3. InOrder(table, <<>>, both, count)
        BY <1>1, <2>1, <2>2 DEF InOrder
    <2>4. QED
        BY <2>3 DEF both
<1>5. QED
    BY <1>3, <1>4

LEMMA CommitStep ==
    ASSUME BatchInv, NEW t \in Threads, CommitRows(t) \/ CommitFails(t)
    PROVE  BatchInv'
<1> USE DEF BatchInv
<1>1. /\ doingFlush[t] = "storing" /\ taken' = [taken EXCEPT ![t] = NoRows]
      /\ doingFlush' = [doingFlush EXCEPT ![t] = "no"] /\ added' = added
    BY DEF CommitRows, CommitFails
<1> DEFINE runs == taken[t].runs
           checks == taken[t].checks
<1>2. /\ runs \in Seq(Nat) /\ checks \in Seq(CheckRow)
      /\ doingFlush' \in [Threads -> {"no", "asked", "storing"}]
      /\ taken' \in [Threads -> [runs : Seq(Nat), checks : Seq(CheckRow)]]
      /\ OneFlush'
      /\ InFlight(doingFlush, taken) = taken[t] /\ InFlight(doingFlush', taken') = NoRows
    BY <1>1, FlushEnds
<1>3. InFlight(doingFlush', taken').runs = <<>> /\ InFlight(doingFlush', taken').checks = <<>>
    BY <1>2 DEF NoRows
<1>4. InOrder(runTable, runs, runRows, Len(added)) /\ Outcomes(checkTable, checks, checkRows, added)
    BY <1>2
<1> HIDE DEF runs, checks
<1>5. /\ runTable \in Seq(Nat) /\ runRows \in Seq(Nat) /\ checkRows \in Seq(CheckRow)
      /\ checkTable \subseteq CheckRow /\ added \in Seq(CheckpointKeys) /\ Len(added) <= MaxAdds
    BY DEF BatchTypes
<1>6. CASE CommitRows(t)
    <2>1. /\ runTable' = runTable \o runs /\ checkTable' = Upserted(checks)
          /\ UNCHANGED <<runRows, checkRows>>
        BY <1>6 DEF CommitRows, runs, checks
    <2>2. InOrder(runTable', <<>>, runRows, Len(added))
        BY <1>2, <1>4, <1>5, <2>1, InOrderJoined
    <2>3. checkTable' \subseteq CheckRow /\ Outcomes(checkTable', <<>>, checkRows, added)
        BY <1>2, <1>4, <1>5, <2>1, OutcomesCommit
    <2>4. BatchTypes'
        BY <1>1, <1>2, <1>5, <2>1, <2>3 DEF BatchTypes
    <2>5. QED
        BY <1>1, <1>2, <1>3, <2>1, <2>2, <2>3, <2>4
<1>7. CASE CommitFails(t)
    <2>1. /\ runRows' = runs \o runRows /\ checkRows' = checks \o checkRows
          /\ UNCHANGED <<runTable, checkTable>>
        BY <1>7 DEF CommitFails, runs, checks
    <2>2. InOrder(runTable, <<>>, runRows', Len(added))
        BY <1>2, <1>4, <1>5, <2>1, InOrderJoined
    <2>3. Outcomes(checkTable, <<>>, checkRows', added)
        BY <1>2, <1>4, <1>5, <2>1, OutcomesFail
    <2>4. BatchTypes'
        BY <1>1, <1>2, <1>5, <2>1 DEF BatchTypes
    <2>5. QED
        BY <1>1, <1>2, <1>3, <2>1, <2>2, <2>3, <2>4
<1>8. QED
    BY <1>6, <1>7

LEMMA BatchStep == BatchInv /\ [BatchNext]_batchVars => BatchInv'
<1> SUFFICES ASSUME BatchInv, [BatchNext]_batchVars PROVE BatchInv'
    OBVIOUS
<1>1. CASE UNCHANGED batchVars
    BY <1>1 DEF batchVars, BatchInv, BatchTypes, OneFlush, NoRows
<1>2. CASE BatchNext
    BY <1>2, AddStep, AskStep, TakeStep, CommitStep DEF BatchNext
<1>3. QED
    BY <1>1, <1>2

-----------------------------------------------------------------------------

\* A run row is in one place.
LEMMA OccursOnce ==
    ASSUME BatchInv, NEW n \in DOMAIN added
    PROVE  Occurrences(n) = 1
<1> DEFINE flight == InFlight(doingFlush, taken).runs
           a == Len(runTable)
           b == Len(flight)
           inTable == {i \in DOMAIN runTable : runTable[i] = n}
           waiting == {i \in DOMAIN runRows : runRows[i] = n}
           storing == {p \in Threads \X (1..MaxAdds) :
                          p[2] \in DOMAIN taken[p[1]].runs /\ taken[p[1]].runs[p[2]] = n}
<1> USE DEF BatchInv
<1>1. /\ runTable \in Seq(Nat) /\ runRows \in Seq(Nat) /\ added \in Seq(CheckpointKeys)
      /\ Len(added) <= MaxAdds /\ MaxAdds \in Nat /\ n \in 1..Len(added)
      /\ doingFlush \in [Threads -> {"no", "asked", "storing"}]
    BY BatchAssumption DEF BatchTypes
<1>2. flight \in Seq(Nat)
    BY InFlightTypes
<1> HIDE DEF flight
<1>3. /\ a \in Nat /\ b \in Nat /\ Len(runRows) \in Nat /\ n \in Nat /\ n >= 1
      /\ DOMAIN runTable = 1..a /\ DOMAIN runRows = 1..Len(runRows) /\ DOMAIN flight = 1..b
    BY <1>1, <1>2
<1>4. /\ a + b + Len(runRows) = Len(added)
      /\ \A i \in 1..a : runTable[i] = i
      /\ \A i \in 1..b : flight[i] = a + i
      /\ \A i \in 1..Len(runRows) : runRows[i] = a + b + i
    BY DEF InOrder, flight
<1>5. inTable = IF n <= a THEN {n} ELSE {}
    BY <1>3, <1>4
<1>6. waiting = IF n > a + b THEN {n - (a + b)} ELSE {}
    <2>1. \A i \in 1..Len(runRows) : runRows[i] = n <=> i = n - (a + b)
        BY <1>3, <1>4
    <2>2. n - (a + b) \in 1..Len(runRows) <=> n > a + b
        BY <1>1, <1>3, <1>4
    <2>3. waiting \subseteq {n - (a + b)}
        BY <1>3, <2>1
    <2>4. n > a + b => n - (a + b) \in waiting
        BY <1>3, <2>1, <2>2
    <2>5. ~ (n > a + b) => waiting = {}
        BY <1>3, <2>1, <2>2
    <2>6. QED
        BY <2>3, <2>4, <2>5
<1>7. Cardinality(storing) = IF a < n /\ n <= a + b THEN 1 ELSE 0
    <2>1. CASE \A u \in Threads : doingFlush[u] # "storing"
        <3>1. InFlight(doingFlush, taken) = NoRows
            BY <1>1, <2>1, InFlightFacts
        <3>2. b = 0
            BY <3>1 DEF NoRows, flight
        <3>3. \A t \in Threads : taken[t].runs = <<>>
            BY <2>1 DEF OneFlush, NoRows
        <3>4. storing = {}
            BY <3>3
        <3>5. Cardinality(storing) = 0
            BY <3>4, FS_EmptySet
        <3>6. ~ (a < n /\ n <= a + b)
            BY <1>3, <3>2
        <3>7. QED
            BY <3>5, <3>6
    <2>2. ASSUME NEW w \in Threads, doingFlush[w] = "storing"
          PROVE  Cardinality(storing) = IF a < n /\ n <= a + b THEN 1 ELSE 0
        <3>1. \A u \in Threads : doingFlush[u] = "storing" => u = w
            BY <2>2 DEF OneFlush
        <3>2. taken[w].runs = flight
            BY <1>1, <2>2, <3>1, InFlightFacts DEF flight
        <3>3. \A t \in Threads : t # w => taken[t].runs = <<>>
            BY <3>1 DEF OneFlush, NoRows
        <3>4. \A p \in storing : p[1] = w /\ p[2] \in 1..b /\ flight[p[2]] = n
            BY <1>3, <3>2, <3>3
        <3>5. storing \subseteq {<<w, n - a>>}
            <4> SUFFICES ASSUME NEW p \in storing PROVE p = <<w, n - a>>
                OBVIOUS
            <4>1. p[1] = w /\ p[2] \in 1..b /\ n = a + p[2] /\ p = <<p[1], p[2]>>
                BY <1>4, <3>4
            <4>2. p[2] = n - a
                BY <1>3, <4>1
            <4>3. QED
                BY <4>1, <4>2
        <3>6. CASE a < n /\ n <= a + b
            <4>1. n - a \in 1..b /\ n - a \in 1..MaxAdds /\ flight[n - a] = n
                <5>1. n - a \in 1..b /\ n - a \in 1..MaxAdds /\ a + (n - a) = n
                    BY <1>1, <1>3, <3>6
                <5>2. QED
                    BY <1>4, <5>1
            <4>2. <<w, n - a>> \in storing
                BY <1>3, <3>2, <4>1
            <4>3. storing = {<<w, n - a>>}
                BY <3>5, <4>2
            <4>4. QED
                BY <3>6, <4>3, FS_Singleton
        <3>7. CASE ~ (a < n /\ n <= a + b)
            <4>1. n - a \notin 1..b
                BY <1>3, <3>7
            <4>2. storing = {}
                BY <3>4, <3>5, <4>1
            <4>3. QED
                BY <3>7, <4>2, FS_EmptySet
        <3>8. QED
            BY <3>6, <3>7
    <2>3. QED
        BY <2>1, <2>2
<1>8. Occurrences(n) = Cardinality(inTable) + Cardinality(waiting) + Cardinality(storing)
    BY DEF Occurrences
<1> HIDE DEF inTable, waiting, storing, a, b
<1>9. /\ Cardinality(inTable) = IF n <= a THEN 1 ELSE 0
      /\ Cardinality(waiting) = IF n > a + b THEN 1 ELSE 0
    BY <1>5, <1>6, FS_EmptySet, FS_Singleton
<1>10. QED
    BY <1>3, <1>7, <1>8, <1>9

\* What the sets of the property are made of.
LEMMA NumbersAre ==
    ASSUME BatchInv, NEW k \in CheckpointKeys
    PROVE  LET storing == InFlight(doingFlush, taken).checks IN
           /\ \A x : x \in Kept(k) <=> \E r \in checkTable : r.key = k /\ r.n = x
           /\ \A x : x \in Storing(k) <=>
                        \E i \in 1..Len(storing) : storing[i].key = k /\ storing[i].n = x
           /\ \A x : x \in Waiting(k) <=>
                        \E i \in 1..Len(checkRows) : checkRows[i].key = k /\ checkRows[i].n = x
<1> DEFINE storing == InFlight(doingFlush, taken).checks
<1> USE DEF BatchInv
<1>1. /\ checkRows \in Seq(CheckRow) /\ DOMAIN checkRows = 1..Len(checkRows)
      /\ doingFlush \in [Threads -> {"no", "asked", "storing"}]
    BY DEF BatchTypes
<1>2. \A x : x \in Kept(k) <=> \E r \in checkTable : r.key = k /\ r.n = x
    BY DEF Kept
<1>3. \A x : x \in Waiting(k) <=>
                \E i \in 1..Len(checkRows) : checkRows[i].key = k /\ checkRows[i].n = x
    BY <1>1 DEF Waiting, Numbers
<1>4. \A x : x \in Storing(k) <=>
                \E t \in Threads : \E i \in DOMAIN taken[t].checks :
                    taken[t].checks[i].key = k /\ taken[t].checks[i].n = x
    BY DEF Storing, Numbers
<1>5. \A x : x \in Storing(k) <=>
                \E i \in 1..Len(storing) : storing[i].key = k /\ storing[i].n = x
    <2>1. CASE \A u \in Threads : doingFlush[u] # "storing"
        <3>1. storing = <<>>
            BY <1>1, <2>1, InFlightFacts DEF NoRows
        <3>2. \A t \in Threads : taken[t].checks = <<>>
            BY <2>1 DEF OneFlush, NoRows
        <3>3. QED
            BY <1>4, <3>1, <3>2
    <2>2. ASSUME NEW w \in Threads, doingFlush[w] = "storing"
          PROVE  \A x : x \in Storing(k) <=>
                           \E i \in 1..Len(storing) : storing[i].key = k /\ storing[i].n = x
        <3>1. \A u \in Threads : doingFlush[u] = "storing" => u = w
            BY <2>2 DEF OneFlush
        <3>2. taken[w].checks = storing
            BY <1>1, <2>2, <3>1, InFlightFacts
        <3>3. \A t \in Threads : t # w => taken[t].checks = <<>>
            BY <3>1 DEF OneFlush, NoRows
        <3>4. storing \in Seq(CheckRow)
            BY InFlightTypes
        <3> HIDE DEF storing
        <3>5. DOMAIN storing = 1..Len(storing)
            BY <3>4
        <3>6. \A t \in Threads : t # w => DOMAIN taken[t].checks = {}
            BY <3>3
        <3>7. QED
            BY <1>4, <3>2, <3>5, <3>6
    <2>3. QED
        BY <2>1, <2>2
<1>6. QED
    BY <1>2, <1>3, <1>5

\* However many threads, keys and rows to a flush, and whichever flushes fail
\* (lifecycle.py:116): every run row is in one place, and the rows of a key are stored in
\* the order in which they were added, the last one always.  That InFlight is one thread's
\* is what MayTake is for.
THEOREM LastOutcomesWin == BatchSpec => []LastOutcomeWins
<1>1. BatchInv => LastOutcomeWins
    <2> SUFFICES ASSUME BatchInv PROVE LastOutcomeWins
        OBVIOUS
    <2> DEFINE storing == InFlight(doingFlush, taken).checks
    <2>1. \A n \in DOMAIN added : Occurrences(n) = 1
        BY OccursOnce
    <2>2. /\ Outcomes(checkTable, storing, checkRows, added)
          /\ added \in Seq(CheckpointKeys) /\ DOMAIN added = 1..Len(added)
        BY DEF BatchInv, BatchTypes
    <2>3. ASSUME NEW k \in CheckpointKeys
          PROVE  /\ \A x : x \in Kept(k) <=> \E r \in checkTable : r.key = k /\ r.n = x
                 /\ \A x : x \in Storing(k) <=>
                              \E i \in 1..Len(storing) : storing[i].key = k /\ storing[i].n = x
                 /\ \A x : x \in Waiting(k) <=>
                              \E i \in 1..Len(checkRows) : checkRows[i].key = k /\ checkRows[i].n = x
        BY <2>3, NumbersAre
    <2> HIDE DEF storing
    <2>4. ASSUME NEW k \in CheckpointKeys
          PROVE  Before(Kept(k), Storing(k) \cup Waiting(k)) /\ Before(Storing(k), Waiting(k))
        <3>1. \A x \in Kept(k), y \in Storing(k) : x < y
            BY <2>2, <2>3 DEF Outcomes, Earlier
        <3>2. \A x \in Kept(k), y \in Waiting(k) : x < y
            BY <2>2, <2>3 DEF Outcomes, Earlier
        <3>3. \A x \in Storing(k), y \in Waiting(k) : x < y
            BY <2>2, <2>3 DEF Outcomes, Earlier
        <3>4. QED
            BY <3>1, <3>2, <3>3 DEF Before
    <2>5. ASSUME NEW k \in CheckpointKeys, NEW n \in DOMAIN added, added[n] = k
          PROVE  \E m \in Kept(k) \cup Storing(k) \cup Waiting(k) : m >= n
        <3>1. \/ \E r \in checkTable : r.key = k /\ r.n >= n
              \/ \E i \in 1..Len(storing) : storing[i].key = k /\ storing[i].n >= n
              \/ \E i \in 1..Len(checkRows) : checkRows[i].key = k /\ checkRows[i].n >= n
            BY <2>2, <2>5 DEF Outcomes
        <3>2. QED
            BY <2>3, <3>1
    <2>6. ASSUME NEW k \in CheckpointKeys, k \notin NullKeys
          PROVE  Cardinality(Kept(k)) <= 1
        <3>1. CASE Kept(k) = {}
            <4>1. Cardinality(Kept(k)) = 0
                BY <3>1, FS_EmptySet
            <4>2. QED
                BY <4>1
        <3>2. ASSUME NEW x \in Kept(k)
              PROVE  Cardinality(Kept(k)) <= 1
            <4>1. \A y \in Kept(k) : y = x
                BY <2>2, <2>3, <2>6 DEF Outcomes
            <4>2. Kept(k) = {x}
                BY <4>1
            <4>3. Cardinality(Kept(k)) = 1
                BY <4>2, FS_Singleton
            <4>4. QED
                BY <4>3
        <3>3. QED
            BY <3>1, <3>2
    <2>7. QED
        BY <2>1, <2>4, <2>5, <2>6 DEF LastOutcomeWins
<1>2. QED
    BY <1>1, BatchInitially, BatchStep, PTL DEF BatchSpec

-----------------------------------------------------------------------------
(* Qlib                                                                    *)

Loading == {"download", "extract", "replace"}

QlibTypes ==
    /\ upstream \in DOMAIN Releases
    /\ source \in 0..upstream
    /\ archive.of \subseteq 1..upstream
    /\ projectLatest \in Nat
    /\ features \in [QlibSymbols -> 0..Len(Releases)]
    /\ lastRow.target \in Nat /\ lastRow.release \in 0..upstream
    /\ sync \in [target : Nat, release : 0..upstream, stream : 0..upstream,
                 rest : SUBSET QlibSymbols]

\* What a run downloads is the release it asked for or a later one, not older than the
\* source; without a killed run's archive, it is all the archive has.
Download ==
    /\ syncAt \in Loading =>
        sync.stream \in 1..upstream /\ sync.release <= sync.stream /\ source <= sync.stream
    /\ syncAt = "replace" => archive.of # {} /\ source = NoRelease
    /\ ~ misled /\ syncAt \notin Loading => archive = NoArchive
    /\ ~ misled /\ syncAt \in Loading => archive.of \subseteq {sync.stream}

\* A row "upstream_not_ready" names a release no later than the one in the source.
NotReady ==
    lastRow.status = "upstream_not_ready" /\ ~ misled =>
        /\ Latest(lastRow.release) < lastRow.target
        /\ lastRow.release <= IF syncAt = "replace" THEN sync.stream ELSE source

\* The partitions follow the source, those of the symbols done while a run converts it.
Synced ==
    /\ ~ unsynced =>
        /\ \A s \in Symbols(source) : Latest(features[s]) >= Latest(source)
        /\ \A s \in QlibSymbols \ Symbols(source) : features[s] = NoRelease
        /\ lastRow.status \in {"synced", "checked_current"} => projectLatest >= lastRow.target
    /\ syncAt = "features" =>
        /\ unsynced
        /\ \A s \in Symbols(source) \ sync.rest : Latest(features[s]) >= Latest(source)
    /\ syncAt = "replace" => unsynced

QlibInv == QlibTypes /\ Download /\ NotReady /\ Synced

LEMMA ReleaseFacts ==
    /\ Len(Releases) \in Nat \ {0} /\ DOMAIN Releases = 1..Len(Releases) /\ NoRelease = 0
    /\ \A r \in 1..Len(Releases) : Releases[r].size \in Nat \ {0}
    /\ \A r \in 0..Len(Releases) : Latest(r) \in Nat /\ Symbols(r) \subseteq QlibSymbols
    /\ \A r, q \in 0..Len(Releases) : r <= q => Latest(r) <= Latest(q)
<1>1. Len(Releases) \in Nat \ {0} /\ DOMAIN Releases = 1..Len(Releases) /\ NoRelease = 0
    BY QlibAssumption, LenProperties, EmptySeq DEF NoRelease
<1>2. \A r \in 1..Len(Releases) : Releases[r] \in ReleaseType
    BY QlibAssumption, ElementOfSeq
<1>3. \A r \in 1..Len(Releases) :
        Releases[r].latest \in Nat \ {0} /\ Releases[r].size \in Nat \ {0}
        /\ Releases[r].symbols \subseteq QlibSymbols
    BY <1>2 DEF ReleaseType
<1>4. \A r \in 0..Len(Releases) : r = 0 \/ r \in 1..Len(Releases)
    BY <1>1
<1>5. \A r \in 0..Len(Releases) : Latest(r) \in Nat /\ Symbols(r) \subseteq QlibSymbols
    BY <1>1, <1>3, <1>4 DEF Latest, Symbols
<1>6. ASSUME NEW r \in 0..Len(Releases), NEW q \in 0..Len(Releases), r <= q
      PROVE  Latest(r) <= Latest(q)
    <2>1. CASE r = 0
        BY <1>1, <1>5, <2>1 DEF Latest
    <2>2. CASE r # 0
        <3>1. r \in 1..Len(Releases) /\ q \in 1..Len(Releases) /\ q # 0
            BY <1>1, <1>6, <2>2
        <3>2. Releases[r].latest <= Releases[q].latest
            BY <1>1, <1>6, <3>1, QlibAssumption
        <3>3. QED
            BY <1>1, <2>2, <3>1, <3>2 DEF Latest
    <2>3. QED
        BY <2>1, <2>2
<1>7. QED
    BY <1>1, <1>3, <1>5, <1>6

LEMMA QlibInitially == QlibInit => QlibInv
<1> SUFFICES ASSUME QlibInit PROVE QlibInv
    OBVIOUS
<1>1. /\ upstream = 1 /\ archive = NoArchive /\ source = 0 /\ projectLatest = 0
      /\ features = [s \in QlibSymbols |-> 0] /\ syncAt = "idle" /\ sync = NoSync
      /\ lastRow.status = "none" /\ lastRow.release = 0 /\ lastRow.target = 0
      /\ NoRelease = 0
    BY ReleaseFacts DEF QlibInit
<1>2. /\ 1 \in DOMAIN Releases /\ 0 \in 0..1 /\ 0 \in 0..Len(Releases) /\ 0 \in Nat
      /\ archive.of = {}
    BY <1>1, ReleaseFacts DEF NoArchive
<1>3. QlibTypes
    <2>1. sync \in [target : Nat, release : 0..upstream, stream : 0..upstream,
                    rest : SUBSET QlibSymbols]
        BY <1>1, <1>2 DEF NoSync
    <2>2. QED
        BY <1>1, <1>2, <2>1 DEF QlibTypes
<1>4. Download /\ NotReady
    BY <1>1 DEF Download, NotReady, Loading
<1>5. Synced
    BY <1>1 DEF Synced, Symbols
<1>6. QED
    BY <1>3, <1>4, <1>5 DEF QlibInv

\* A run is over, or has not begun.
LEMMA AtRest ==
    ASSUME QlibTypes
    PROVE  NoSync \in [target : Nat, release : 0..upstream, stream : 0..upstream,
                       rest : SUBSET QlibSymbols]
BY ReleaseFacts DEF QlibTypes, NoSync

\* The rows that leave the data as they are.
LEMMA QlibRowStep ==
    ASSUME QlibInv, NEW target \in 1..MaxTarget, CheckedCurrent(target) \/ StillNotReady(target)
    PROVE  QlibInv'
<1> USE DEF QlibInv
<1>1. /\ syncAt = "idle" /\ syncAt' = "idle" /\ sync' = NoSync /\ target \in Nat
      /\ UNCHANGED <<upstream, archive, source, projectLatest, features, unsynced, misled>>
    BY QlibAssumption DEF CheckedCurrent, StillNotReady, Recorded
<1>2. \/ /\ lastRow'.status = "checked_current" /\ lastRow'.release = 0
         /\ lastRow'.target = target /\ projectLatest >= target
      \/ /\ lastRow'.status = "upstream_not_ready" /\ lastRow'.release = upstream
         /\ lastRow'.target = target /\ SameStaleAsset(upstream, target)
    BY ReleaseFacts DEF CheckedCurrent, StillNotReady, Recorded
<1>3. 0 \in 0..upstream /\ upstream \in 0..upstream /\ source \in 0..Len(Releases)
      /\ upstream \in 0..Len(Releases) /\ upstream \in Nat /\ source \in Nat
    BY ReleaseFacts DEF QlibTypes
<1>4. QlibTypes'
    BY <1>1, <1>2, <1>3, AtRest DEF QlibTypes
<1>5. Download'
    BY <1>1 DEF Download, Loading
<1>6. NotReady'
    <2>1. CASE lastRow'.status = "checked_current"
        BY <2>1 DEF NotReady
    <2>2. CASE lastRow'.release = upstream /\ SameStaleAsset(upstream, target) /\ ~ misled
               /\ lastRow'.target = target
        <3>1. upstream <= source /\ ~ (Latest(source) >= target)
            BY <1>1, <2>2 DEF SameStaleAsset, SourceCovers, NotReady
        <3>2. Latest(upstream) <= Latest(source) /\ Latest(upstream) \in Nat /\ Latest(source) \in Nat
            BY <1>3, <3>1, ReleaseFacts
        <3>3. Latest(upstream) < target
            BY <1>1, <3>1, <3>2
        <3>4. Latest(lastRow'.release) < lastRow'.target /\ lastRow'.release <= source
            BY <2>2, <3>1, <3>3
        <3>5. QED
            BY <1>1, <3>4 DEF NotReady, Latest
    <2>3. CASE misled
        BY <1>1, <2>3 DEF NotReady
    <2>4. QED
        BY <1>2, <2>1, <2>2, <2>3
<1>7. Synced'
    <2>1. lastRow'.status \in {"synced", "checked_current"} => projectLatest >= lastRow'.target
        BY <1>2
    <2>2. QED
        BY <1>1, <2>1 DEF Synced, Latest, Symbols
<1>8. QED
    BY <1>4, <1>5, <1>6, <1>7

\* Latest and Symbols are of constants.
LEMMA QlibStartStep ==
    ASSUME QlibInv, NEW target \in 1..MaxTarget,
           StartSync(target) \/ \E force \in BOOLEAN : StartDownload(target, force)
    PROVE  QlibInv'
<1> USE DEF QlibInv
<1>1. /\ syncAt = "idle" /\ syncAt' \in {"open", "calendar"} /\ target \in Nat
      /\ sync'.release \in {0, upstream} /\ sync'.target = target
      /\ UNCHANGED <<upstream, archive, source, projectLatest, features, lastRow, unsynced, misled>>
    <2>1. target \in Nat /\ NoRelease = 0
        BY QlibAssumption, ReleaseFacts
    <2>2. CASE StartSync(target)
        BY <2>1, <2>2 DEF StartSync, NoSync
    <2>3. ASSUME NEW force \in BOOLEAN, StartDownload(target, force)
          PROVE  /\ syncAt = "idle" /\ syncAt' = "open"
                 /\ sync'.release = upstream /\ sync'.target = target
                 /\ UNCHANGED <<upstream, archive, source, projectLatest, features, lastRow,
                                unsynced, misled>>
        BY <2>3 DEF StartDownload, NoSync
    <2>4. QED
        BY <2>1, <2>2, <2>3
<1>2. sync' \in [target : Nat, release : 0..upstream, stream : 0..upstream,
                 rest : SUBSET QlibSymbols]
    <2>1. upstream \in 0..upstream /\ 0 \in 0..upstream
        BY ReleaseFacts DEF QlibTypes
    <2>2. QED
        BY <1>1, <2>1, ReleaseFacts DEF StartSync, StartDownload, NoSync
<1>3. QlibTypes'
    BY <1>1, <1>2 DEF QlibTypes
<1>4. Download' /\ NotReady'
    BY <1>1 DEF Download, NotReady, Loading, Latest
<1>5. Synced'
    BY <1>1 DEF Synced, Latest, Symbols
<1>6. QED
    BY <1>3, <1>4, <1>5

\* The steps that fetch the archive, and those after which there is no run.
LEMMA QlibDownloadStep ==
    ASSUME QlibInv, OpenDownload \/ DownloadByte
    PROVE  QlibInv'
<1> USE DEF QlibInv
<1>1. UNCHANGED <<upstream, source, projectLatest, features, lastRow, unsynced, misled>>
    BY DEF OpenDownload, DownloadByte
<1>2. upstream \in 1..Len(Releases) /\ upstream \in Nat /\ source \in 0..upstream
      /\ sync.release \in 0..upstream /\ sync.stream \in 0..upstream
    BY ReleaseFacts DEF QlibTypes
<1>3. CASE OpenDownload
    <2>1. /\ syncAt = "open" /\ syncAt' \in {"download", "extract"}
          /\ sync' = [sync EXCEPT !.stream = upstream]
          /\ archive' \in {archive, NoArchive} /\ (archive = NoArchive => archive' = NoArchive)
        BY <1>3 DEF OpenDownload
    <2>2. /\ sync' \in [target : Nat, release : 0..upstream, stream : 0..upstream,
                        rest : SUBSET QlibSymbols]
          /\ sync'.stream = upstream /\ sync'.release = sync.release
        BY <1>2, <2>1 DEF QlibTypes
    <2>3. NoArchive.of = {}
        BY DEF NoArchive
    <2>4. QlibTypes'
        BY <1>1, <2>1, <2>2, <2>3 DEF QlibTypes
    <2>5. Download'
        <3>1. sync'.stream \in 1..upstream
              /\ sync'.release <= sync'.stream /\ source <= sync'.stream
            BY <1>2, <2>2
        <3>2. ~ misled => archive' = NoArchive
            BY <2>1 DEF Download, Loading
        <3>3. QED
            BY <1>1, <2>1, <2>3, <3>1, <3>2 DEF Download, Loading
    <2>6. NotReady' /\ Synced'
        BY <1>1, <2>1 DEF NotReady, Synced, Latest, Symbols
    <2>7. QED
        BY <2>4, <2>5, <2>6
<1>4. CASE DownloadByte
    <2>1. /\ syncAt = "download" /\ syncAt' \in {"download", "extract"} /\ sync' = sync
          /\ archive'.of = archive.of \cup {sync.stream}
        BY <1>4 DEF DownloadByte
    <2>2. sync.stream \in 1..upstream
        BY <2>1 DEF Download, Loading
    <2>3. QlibTypes'
        <3>1. archive'.of \subseteq 1..upstream
            BY <2>1, <2>2 DEF QlibTypes
        <3>2. QED
            BY <1>1, <2>1, <3>1 DEF QlibTypes
    <2>4. Download'
        <3>1. ~ misled => archive'.of \subseteq {sync.stream}
            BY <2>1 DEF Download, Loading
        <3>2. QED
            BY <1>1, <2>1, <3>1 DEF Download, Loading
    <2>5. NotReady' /\ Synced'
        BY <1>1, <2>1 DEF NotReady, Synced, Latest, Symbols
    <2>6. QED
        BY <2>3, <2>4, <2>5
<1>5. QED
    BY <1>3, <1>4

LEMMA QlibOverStep ==
    ASSUME QlibInv, DownloadFails \/ SyncFails \/ QlibKilled
    PROVE  QlibInv'
<1> USE DEF QlibInv
<1>1. /\ syncAt' = "idle" /\ sync' = NoSync /\ archive'.of \subseteq archive.of
      /\ UNCHANGED <<upstream, source, projectLatest, features, lastRow, unsynced>>
    BY DEF DownloadFails, SyncFails, QlibKilled, NoArchive
<1>2. QlibTypes'
    BY <1>1, AtRest DEF QlibTypes
<1>3. /\ ~ misled' => ~ misled /\ archive' = NoArchive
      /\ ~ misled' => syncAt # "replace"
    <2>1. CASE DownloadFails
        BY <2>1 DEF DownloadFails
    <2>2. CASE SyncFails
        BY <2>2 DEF SyncFails, Download, Loading
    <2>3. CASE QlibKilled
        <3>1. archive.of # {} => archive # NoArchive
            BY DEF NoArchive
        <3>2. QED
            BY <2>3, <3>1 DEF QlibKilled, Download
    <2>4. QED
        BY <2>1, <2>2, <2>3
<1>4. Download'
    BY <1>1, <1>3 DEF Download, Loading
<1>5. NotReady'
    BY <1>1, <1>3 DEF NotReady, Latest
<1>6. Synced'
    BY <1>1 DEF Synced, Latest, Symbols
<1>7. QED
    BY <1>2, <1>4, <1>5, <1>6

LEMMA QlibReplaceStep ==
    ASSUME QlibInv, MoveSourceAway \/ ReplaceSource
    PROVE  QlibInv'
<1> USE DEF QlibInv
<1>1. upstream \in 1..Len(Releases) /\ upstream \in Nat /\ source \in 0..upstream
      /\ sync.release \in 0..upstream /\ sync.stream \in 0..upstream /\ sync.target \in Nat
      /\ lastRow.release \in 0..upstream
    BY ReleaseFacts DEF QlibTypes
<1>2. CASE MoveSourceAway
    <2>1. /\ syncAt = "extract" /\ syncAt' = "replace" /\ Sound(archive)
          /\ source' = NoRelease /\ NoRelease = 0 /\ unsynced' = TRUE
          /\ UNCHANGED <<upstream, archive, projectLatest, features, lastRow, sync, misled>>
        BY <1>2, ReleaseFacts DEF MoveSourceAway
    <2>2. archive.of # {}
        BY <2>1 DEF Sound
    <2>3. QlibTypes'
        BY <1>1, <2>1 DEF QlibTypes
    <2>4. Download'
        <3>1. /\ 0 <= sync.stream /\ sync.release <= sync.stream
              /\ sync.stream \in 1..upstream
            BY <1>1, <2>1 DEF Download, Loading
        <3>2. QED
            BY <2>1, <2>2, <3>1 DEF Download, Loading
    <2>5. NotReady'
        <3>1. ASSUME lastRow.release <= source PROVE lastRow.release <= sync.stream
            <4>1. source <= sync.stream
                BY <2>1 DEF Download, Loading
            <4>2. QED
                BY <1>1, <3>1, <4>1
        <3>2. QED
            BY <2>1, <3>1 DEF NotReady, Latest
    <2>6. Synced'
        BY <2>1 DEF Synced
    <2>7. QED
        BY <2>3, <2>4, <2>5, <2>6
<1>3. CASE ReplaceSource
    <2>1. /\ syncAt = "replace" /\ archive' = NoArchive /\ unsynced /\ source = NoRelease
          /\ source' \in archive.of
          /\ UNCHANGED <<upstream, projectLatest, features, unsynced, misled>>
        BY <1>3 DEF ReplaceSource, Download, Synced
    <2>2. source' \in 1..upstream /\ (~ misled => source' = sync.stream)
        BY <2>1 DEF QlibTypes, Download, Loading
    <2>3. sync.release <= sync.stream
        BY <2>1 DEF Download, Loading
    <2>4. NoArchive.of = {}
        BY DEF NoArchive
    <2>5. CASE Latest(source') >= sync.target
        <3>1. syncAt' = "calendar" /\ UNCHANGED <<lastRow, sync>>
            BY <1>3, <2>5 DEF ReplaceSource, Latest
        <3>2. QlibTypes'
            BY <1>1, <2>1, <2>2, <2>4, <3>1 DEF QlibTypes
        <3>3. Download'
            BY <2>1, <3>1 DEF Download, Loading
        <3>4. NotReady'
            BY <2>1, <2>2, <3>1 DEF NotReady, Latest
        <3>5. Synced'
            BY <2>1, <3>1 DEF Synced
        <3>6. QED
            BY <3>2, <3>3, <3>4, <3>5
    <2>6. CASE ~ (Latest(source') >= sync.target)
        <3>1. Recorded("upstream_not_ready", sync.release, sync.target)
            BY <1>3, <2>6 DEF ReplaceSource, Latest
        <3>2. /\ syncAt' = "idle" /\ sync' = NoSync
              /\ lastRow'.status = "upstream_not_ready" /\ lastRow'.release = sync.release
              /\ lastRow'.target = sync.target
            BY <3>1 DEF Recorded
        <3>3. QlibTypes'
            BY <1>1, <2>1, <2>2, <2>4, <3>2, AtRest DEF QlibTypes
        <3>4. Download'
            BY <2>1, <3>2 DEF Download, Loading
        <3>5. NotReady'
            <4>1. ASSUME ~ misled
                  PROVE  Latest(sync.release) < sync.target /\ sync.release <= source'
                <5>1. sync.release <= source'
                    BY <2>2, <2>3, <4>1
                <5>2. sync.release \in 0..Len(Releases) /\ source' \in 0..Len(Releases)
                    BY <1>1, <2>2
                <5>3. /\ Latest(sync.release) <= Latest(source')
                      /\ Latest(sync.release) \in Nat /\ Latest(source') \in Nat
                    BY <5>1, <5>2, ReleaseFacts
                <5>4. QED
                    BY <1>1, <2>6, <5>1, <5>3
            <4>2. QED
                BY <2>1, <3>2, <4>1 DEF NotReady, Latest
        <3>6. Synced'
            BY <2>1, <3>2 DEF Synced
        <3>7. QED
            BY <3>3, <3>4, <3>5, <3>6
    <2>7. QED
        BY <2>5, <2>6
<1>4. QED
    BY <1>2, <1>3

LEMMA QlibConvertStep ==
    ASSUME QlibInv, WriteCalendar \/ CompleteSync \/ \E s \in QlibSymbols : SyncSymbol(s)
    PROVE  QlibInv'
<1> USE DEF QlibInv
<1>1. source \in 0..Len(Releases) /\ Latest(source) \in Nat /\ Symbols(source) \subseteq QlibSymbols
      /\ NoRelease = 0 /\ 0 \in 0..Len(Releases)
    BY ReleaseFacts DEF QlibTypes
<1>2. CASE WriteCalendar
    <2>1. /\ syncAt = "calendar" /\ syncAt' = "features" /\ unsynced' = TRUE
          /\ projectLatest' = Latest(source) /\ sync' = [sync EXCEPT !.rest = Symbols(source)]
          /\ UNCHANGED <<upstream, archive, source, features, lastRow, misled>>
        BY <1>2 DEF WriteCalendar
    <2>2. /\ sync' \in [target : Nat, release : 0..upstream, stream : 0..upstream,
                        rest : SUBSET QlibSymbols]
          /\ sync'.rest = Symbols(source)
        BY <1>1, <2>1 DEF QlibTypes
    <2>3. QlibTypes'
        BY <1>1, <2>1, <2>2 DEF QlibTypes
    <2>4. Download' /\ NotReady'
        BY <2>1 DEF Download, Loading, NotReady, Latest
    <2>5. Synced'
        BY <2>1, <2>2 DEF Synced, Symbols
    <2>6. QED
        BY <2>3, <2>4, <2>5
<1>3. ASSUME NEW s \in QlibSymbols, SyncSymbol(s) PROVE QlibInv'
    <2>1. /\ syncAt = "features" /\ syncAt' = "features" /\ s \in sync.rest
          /\ sync' = [sync EXCEPT !.rest = @ \ {s}] /\ unsynced
          /\ features' = IF Latest(features[s]) >= Latest(source)
                         THEN features ELSE [features EXCEPT ![s] = source]
          /\ UNCHANGED <<upstream, archive, source, projectLatest, lastRow, unsynced, misled>>
        BY <1>3 DEF SyncSymbol, PartitionCovers, Converted, Synced
    <2>2. /\ sync' \in [target : Nat, release : 0..upstream, stream : 0..upstream,
                        rest : SUBSET QlibSymbols]
          /\ sync'.rest = sync.rest \ {s}
        BY <2>1 DEF QlibTypes
    <2>3. /\ features' \in [QlibSymbols -> 0..Len(Releases)]
          /\ Latest(features'[s]) >= Latest(source)
          /\ \A u \in QlibSymbols : u # s => features'[u] = features[u]
        BY <1>1, <2>1 DEF QlibTypes
    <2>4. QlibTypes'
        BY <2>1, <2>2, <2>3 DEF QlibTypes
    <2>5. Download' /\ NotReady'
        BY <2>1 DEF Download, Loading, NotReady, Latest
    <2>6. \A u \in Symbols(source) \ sync'.rest : Latest(features'[u]) >= Latest(source)
        BY <1>1, <2>1, <2>2, <2>3 DEF Synced
    <2>7. Synced'
        BY <2>1, <2>6 DEF Synced, Latest, Symbols
    <2>8. QED
        BY <2>4, <2>5, <2>7
<1>4. CASE CompleteSync
    <2>1. /\ syncAt = "features" /\ sync.rest = {} /\ syncAt' = "idle" /\ sync' = NoSync
          /\ features' = [s \in QlibSymbols |->
                            IF s \in Symbols(source) THEN features[s] ELSE NoRelease]
          /\ lastRow' = [status |-> IF projectLatest >= sync.target THEN "synced" ELSE "synced_stale",
                         release |-> sync.release, target |-> sync.target]
          /\ unsynced' = FALSE
          /\ UNCHANGED <<upstream, archive, source, projectLatest, misled>>
        BY <1>4 DEF CompleteSync, Recorded
    <2>2. /\ lastRow'.release = sync.release /\ lastRow'.target = sync.target
          /\ lastRow'.status \in {"synced", "synced_stale"}
          /\ lastRow'.status = "synced" => projectLatest >= sync.target
        BY <2>1
    <2>3. features' \in [QlibSymbols -> 0..Len(Releases)]
        BY <1>1, <2>1 DEF QlibTypes
    <2>4. QlibTypes'
        BY <2>1, <2>2, <2>3, AtRest DEF QlibTypes
    <2>5. Download' /\ NotReady'
        BY <2>1, <2>2 DEF Download, Loading, NotReady
    <2>6. /\ \A s \in Symbols(source) : Latest(features'[s]) >= Latest(source)
          /\ \A s \in QlibSymbols \ Symbols(source) : features'[s] = NoRelease
        BY <1>1, <2>1 DEF Synced
    <2>7. Synced'
        BY <2>1, <2>2, <2>6 DEF Synced, Latest, Symbols
    <2>8. QED
        BY <2>4, <2>5, <2>7
<1>5. QED
    BY <1>2, <1>3, <1>4

LEMMA QlibStep == QlibInv /\ [QlibNext]_qlibVars => QlibInv'
<1>1. QlibInv /\ ReleasePublished => QlibInv'
    <2> SUFFICES ASSUME QlibInv, ReleasePublished PROVE QlibInv'
        OBVIOUS
    <2>1. /\ upstream < Len(Releases) /\ upstream' = upstream + 1
          /\ UNCHANGED <<archive, source, projectLatest, features, lastRow, syncAt, sync, unsynced,
                         misled>>
        BY DEF ReleasePublished
    <2>2. upstream' \in DOMAIN Releases /\ 0..upstream \subseteq 0..upstream'
          /\ 1..upstream \subseteq 1..upstream'
        BY <2>1, ReleaseFacts DEF QlibInv, QlibTypes
    <2>3. QlibTypes'
        BY <2>1, <2>2 DEF QlibInv, QlibTypes
    <2>4. Download'
        BY <2>1, <2>2 DEF QlibInv, Download, Loading
    <2>5. NotReady' /\ Synced'
        BY <2>1 DEF QlibInv, NotReady, Synced, Latest, Symbols
    <2>6. QED
        BY <2>3, <2>4, <2>5 DEF QlibInv
<1>2. QlibInv /\ UNCHANGED qlibVars => QlibInv'
    BY DEF qlibVars, QlibInv, QlibTypes, Download, NotReady, Synced, Latest, Symbols
<1>3. QED
    BY <1>1, <1>2, QlibRowStep, QlibStartStep, QlibDownloadStep, QlibOverStep, QlibReplaceStep,
       QlibConvertStep
    DEF QlibNext

\* A sync brought to its end leaves what its row says, whatever runs were killed, failed or
\* met a new release before it, and later rows are true of the data as long as no run is cut
\* off between the replacement of the source and the end of its sync; for any releases of a
\* provider that adds days (sync.py:100).  Nothing is said of the rows between such a run
\* and the next complete sync: "checked_current" may be false there.
THEOREM StatusIsHonest == QlibSpec => []QlibStatusHonest
<1>1. QlibInv => QlibStatusHonest
    BY DEF QlibInv, NotReady, Synced, QlibStatusHonest
<1>2. QED
    BY <1>1, QlibInitially, QlibStep, PTL DEF QlibSpec

-----------------------------------------------------------------------------
(* The client                                                              *)

PagesOf == [query : Queries, page : Nat]

\* The first n pages of q.
FirstPages(q, n) == [i \in 1..n |-> [query |-> q, page |-> i]]

\* What the provider has still to send, by where the client is.
Expected ==
    IF clientAt = "receive" THEN <<[query |-> query, page |-> Len(pagesRead) + 1]>> ELSE <<>>

\* The pages read are the first ones of the query, and nothing is in flight but the page
\* that was asked for.
Reading ==
    /\ clientAt \in {"idle", "ensure", "login", "send", "receive", "returned", "raised"}
    /\ inFlight = Expected
    /\ clientAt # "idle" =>
        /\ query \in Queries
        /\ \E n \in 0..Pages[query] :
            /\ pagesRead = FirstPages(query, n)
            /\ clientAt \in {"ensure", "login"} => n = 0
            /\ clientAt \in {"send", "receive"} => n < Pages[query]
            /\ clientAt = "returned" => n = Pages[query]

LEMMA FirstPagesFacts ==
    ASSUME NEW q \in Queries, NEW n \in Nat
    PROVE  /\ Len(FirstPages(q, n)) = n
           /\ FirstPages(q, n) \in Seq(PagesOf)
           /\ Append(FirstPages(q, n), [query |-> q, page |-> n + 1]) = FirstPages(q, n + 1)
<1>1. FirstPages(q, n) \in Seq(PagesOf) /\ FirstPages(q, n + 1) \in Seq(PagesOf)
    BY DEF FirstPages, PagesOf
<1>2. Len(FirstPages(q, n)) = n /\ Len(FirstPages(q, n + 1)) = n + 1
    BY DEF FirstPages
<1>3. [query |-> q, page |-> n + 1] \in PagesOf
    BY DEF PagesOf
<1> DEFINE more == Append(FirstPages(q, n), [query |-> q, page |-> n + 1])
<1>4. /\ more \in Seq(PagesOf) /\ Len(more) = n + 1
      /\ \A i \in 1..n : more[i] = FirstPages(q, n)[i]
      /\ more[n + 1] = [query |-> q, page |-> n + 1]
    BY <1>1, <1>2, <1>3, AppendProperties
<1>5. ASSUME NEW i \in 1..(n + 1) PROVE more[i] = FirstPages(q, n + 1)[i]
    BY <1>4 DEF FirstPages
<1> HIDE DEF more
<1>6. more = FirstPages(q, n + 1)
    BY <1>1, <1>2, <1>4, <1>5, SeqEqual
<1>7. QED
    BY <1>1, <1>2, <1>6 DEF more

LEMMA NoPages == ASSUME NEW q \in Queries PROVE FirstPages(q, 0) = <<>>
<1>1. FirstPages(q, 0) \in Seq(PagesOf) /\ Len(FirstPages(q, 0)) = 0
    BY FirstPagesFacts
<1>2. QED
    BY <1>1

\* Where a call begins again, or a new one does: nothing is read and nothing in flight.
LEMMA Afresh ==
    ASSUME query' \in Queries, pagesRead' = <<>>, inFlight' = <<>>,
           clientAt' \in {"ensure", "login", "send", "raised"}
    PROVE  Reading'
<1>1. Pages[query'] \in Nat \ {0} /\ FirstPages(query', 0) = <<>>
    BY ClientAssumption, NoPages
<1>2. 0 \in 0..Pages[query'] /\ 0 < Pages[query']
    BY <1>1
<1>3. QED
    BY <1>1, <1>2 DEF Reading, Expected

\* An attempt that fails leaves nothing behind for the next one.
LEMMA FailedAttempt ==
    ASSUME clientAt # "idle", Reading, AttemptFails, inFlight' = <<>>, query' = query
    PROVE  Reading'
<1>1. query' \in Queries /\ pagesRead' = <<>>
    BY DEF Reading, AttemptFails
<1>2. clientAt' \in {"login", "send", "raised"}
    BY DEF AttemptFails
<1>3. QED
    BY <1>1, <1>2, Afresh

LEMMA ReadingStep == Reading /\ [ClientNext]_clientVars => Reading'
<1> SUFFICES ASSUME Reading, [ClientNext]_clientVars PROVE Reading'
    OBVIOUS
<1>1. CASE UNCHANGED clientVars
    BY <1>1 DEF clientVars, Reading, Expected
<1>2. ASSUME NEW q \in Queries, Ask(q) PROVE Reading'
    <2>1. inFlight' = <<>>
        BY <1>2 DEF Ask, Reading, Expected
    <2>2. QED
        BY <1>2, <2>1, Afresh DEF Ask
<1>3. CASE GoOn
    BY <1>3 DEF GoOn, Reading, Expected
<1>4. CASE LoginSucceeds
    <2>1. query' \in Queries /\ pagesRead' = <<>>
        BY <1>4, NoPages DEF LoginSucceeds, Reading
    <2>2. QED
        BY <1>4, <2>1, Afresh DEF LoginSucceeds
<1>5. CASE LoginFails
    <2>1. query' \in Queries /\ pagesRead' = <<>>
        BY <1>5, NoPages DEF LoginFails, Reading, AttemptFails
    <2>2. clientAt' \in {"ensure", "login", "send", "raised"}
        BY <1>5 DEF LoginFails, AttemptFails
    <2>3. QED
        BY <1>5, <2>1, <2>2, Afresh DEF LoginFails
<1>6. CASE SendRequest
    <2>1. inFlight = <<>> /\ query \in Queries
        BY <1>6 DEF SendRequest, Reading, Expected
    <2>2. inFlight' = <<[query |-> query, page |-> Len(pagesRead) + 1]>>
        BY <1>6, <2>1 DEF SendRequest
    <2>3. QED
        BY <1>6, <2>1, <2>2 DEF SendRequest, Reading, Expected
<1>7. CASE ReceivePage
    <2>1. PICK n \in 0..Pages[query] : pagesRead = FirstPages(query, n) /\ n < Pages[query]
        BY <1>7 DEF ReceivePage, Reading
    <2>2. query \in Queries /\ Pages[query] \in Nat /\ n \in Nat /\ n + 1 \in 0..Pages[query]
        BY <1>7, <2>1, ClientAssumption DEF ReceivePage, Reading
    <2>3. Len(pagesRead) = n
        BY <2>1, <2>2, FirstPagesFacts
    <2>4. inFlight = <<[query |-> query, page |-> n + 1]>>
        BY <1>7, <2>3 DEF ReceivePage, Reading, Expected
    <2>5. Head(inFlight) = [query |-> query, page |-> n + 1] /\ Tail(inFlight) = <<>>
        BY <2>4
    <2>6. pagesRead' = FirstPages(query, n + 1)
        BY <1>7, <2>1, <2>2, <2>5, FirstPagesFacts DEF ReceivePage
    <2>7. Len(pagesRead') = n + 1
        <3>1. n + 1 \in Nat
            BY <2>2
        <3>2. Len(FirstPages(query, n + 1)) = n + 1
            BY ONLY <3>1, <2>2, FirstPagesFacts
        <3>3. QED
            BY <3>2, <2>6
    <2>8. /\ clientAt' = IF n + 1 < Pages[query] THEN "send" ELSE "returned"
          /\ inFlight' = <<>> /\ query' = query
        BY <1>7, <2>5, <2>7 DEF ReceivePage
    <2>9. QED
        BY <2>2, <2>6, <2>8 DEF Reading, Expected
<1>8. CASE TooManyRows \/ ErrorReported \/ StopsShort
    <2>1. clientAt = "receive" /\ AttemptFails /\ query' = query /\ inFlight' = Tail(inFlight)
        BY <1>8 DEF TooManyRows, ErrorReported, StopsShort
    <2>2. inFlight' = <<>>
        BY <2>1 DEF Reading, Expected
    <2>3. QED
        BY <2>1, <2>2, FailedAttempt
<1>9. CASE ConnectionFails
    BY <1>9, FailedAttempt DEF ConnectionFails, Invalidate
<1>10. CASE Logout
    BY <1>10 DEF Logout, Reading, Expected
<1>11. QED
    BY <1>1, <1>2, <1>3, <1>4, <1>5, <1>6, <1>7, <1>8, <1>9, <1>10 DEF ClientNext

\* The frame a call returns is the whole answer to its query, for every query, number of
\* pages and history of failures (_call_with_retries, client.py:191): a call ends with
\* nothing in flight, and an attempt begins with nothing read.
THEOREM AnswersAreWhole == ClientSpec => []AnswerIsWhole
<1>1. ClientInit => Reading
    BY DEF ClientInit, Reading, Expected
<1>2. Reading => AnswerIsWhole
    BY DEF Reading, AnswerIsWhole, FirstPages
<1>3. QED
    BY <1>1, <1>2, ReadingStep, PTL DEF ClientSpec

-----------------------------------------------------------------------------
(* The Fenwick tree                                                        *)

\* The function LowBit looks up, and the ones the two loops of the tree do.
IsBits(g, n) == g = [m \in 1..n |-> IF m % 2 = 1 THEN 1 ELSE 2 * g[m \div 2]]

\* It is the same whatever number it is built up to.
LEMMA BitsAgree ==
    ASSUME NEW n \in Nat, NEW k \in Nat, k <= n, NEW g, IsBits(g, n), NEW h, IsBits(h, k),
           NEW m \in 1..k
    PROVE  g[m] = h[m]
<1> DEFINE S == {i \in 1..k : g[i] # h[i]}
<1> SUFFICES ASSUME S # {} PROVE FALSE
    OBVIOUS
<1>1. PICK i \in S : \A j \in S : i <= j
    <2>1. S \in SUBSET Nat
        OBVIOUS
    <2>2. QED
        BY <2>1, LeastOf
<1>2. i \in 1..k /\ i \in 1..n /\ g[i] # h[i]
    BY <1>1
<1>3. /\ g[i] = IF i % 2 = 1 THEN 1 ELSE 2 * g[i \div 2]
      /\ h[i] = IF i % 2 = 1 THEN 1 ELSE 2 * h[i \div 2]
    BY <1>2 DEF IsBits
<1>4. i % 2 # 1 => i \div 2 \in 1..k /\ ~ (i <= i \div 2)
    BY <1>2
<1>5. QED
    BY <1>1, <1>2, <1>3, <1>4

\* The recursion of LowBit is that of the numbers.
LEMMA LowBitIs ==
    ASSUME NEW n \in Nat \ {0}
    PROVE  LowBit(n) = IF n % 2 = 1 THEN 1 ELSE 2 * LowBit(n \div 2)
<1> DEFINE next(g, m) == IF m % 2 = 1 THEN 1 ELSE 2 * g[m \div 2]
           bits(k) == CHOOSE g : IsBits(g, k)
           S == {k \in Nat : ~ \E g : IsBits(g, k)}
<1>1. \A k \in Nat : IsBits(bits(k), k)
    <2> SUFFICES ASSUME S # {} PROVE FALSE
        BY Zenon
    <2>1. PICK k \in S : \A j \in S : k <= j
        BY LeastOf
    <2>2. k # 0
        <3>1. IsBits([m \in 1..0 |-> 1], 0)
            BY DEF IsBits
        <3>2. QED
            BY <2>1, <3>1
    <2>3. k - 1 \in Nat /\ ~ (k <= k - 1)
        BY <2>1, <2>2
    <2>4. PICK g : IsBits(g, k - 1)
        BY <2>1, <2>3
    <2> DEFINE h == [m \in 1..k |-> IF m < k THEN g[m] ELSE next(g, k)]
    <2>5. \A m \in 1..k : h[m] = next(h, m)
        <3> SUFFICES ASSUME NEW m \in 1..k PROVE h[m] = next(h, m)
            OBVIOUS
        <3>1. m % 2 # 1 => m \div 2 \in 1..k - 1 /\ m \div 2 \in 1..k /\ m \div 2 < k
            BY <2>3
        <3>2. m % 2 # 1 => h[m \div 2] = g[m \div 2]
            BY <3>1
        <3>3. CASE m = k
            BY <3>2, <3>3
        <3>4. CASE m < k
            <4>1. m \in 1..k - 1
                BY <3>4, <2>3
            <4>2. g[m] = next(g, m)
                BY <2>4, <4>1 DEF IsBits
            <4>3. QED
                BY <3>2, <3>4, <4>2
        <3>5. QED
            BY <3>3, <3>4
    <2>6. h = [m \in 1..k |-> next(h, m)]
        <3> DEFINE f == [m \in 1..k |-> next(h, m)]
        <3>1. \A m \in 1..k : h[m] = f[m]
            BY <2>5
        <3> HIDE DEF next
        <3>2. QED
            BY <3>1
    <2>7. QED
        BY <2>1, <2>6 DEF IsBits
<1>2. \A k : LowBit(k) = bits(k)[k]
    BY DEF LowBit, IsBits
<1> HIDE DEF bits
<1>3. bits(n)[n] = next(bits(n), n)
    BY <1>1 DEF IsBits
<1>4. n % 2 # 1 => n \div 2 \in Nat /\ n \div 2 \in 1..n \div 2 /\ n \div 2 <= n
    OBVIOUS
<1>5. n % 2 # 1 => bits(n)[n \div 2] = bits(n \div 2)[n \div 2]
    BY <1>1, <1>4, BitsAgree
<1>6. QED
    BY <1>2, <1>3, <1>5

\* The lowest bit of a number is at most the number.
LEMMA LowBitRange ==
    ASSUME NEW n \in Nat \ {0}
    PROVE  LowBit(n) \in 1..n /\ (LowBit(n) % 2 = 1 <=> n % 2 = 1)
<1> DEFINE Fine(m) == LowBit(m) \in 1..m /\ (LowBit(m) % 2 = 1 <=> m % 2 = 1)
           S == {m \in Nat \ {0} : ~ Fine(m)}
<1> SUFFICES ASSUME S # {} PROVE FALSE
    OBVIOUS
<1>1. PICK m \in S : \A j \in S : m <= j
    <2>1. S \in SUBSET Nat
        OBVIOUS
    <2>2. QED
        BY <2>1, LeastOf
<1>2. LowBit(m) = IF m % 2 = 1 THEN 1 ELSE 2 * LowBit(m \div 2)
    BY <1>1, LowBitIs
<1>3. m % 2 # 1
    BY <1>1, <1>2
<1>4. m \div 2 \in Nat \ {0} /\ ~ (m <= m \div 2) /\ m = 2 * (m \div 2)
    BY <1>1, <1>3
<1>5. Fine(m \div 2)
    BY <1>1, <1>4
<1>6. QED
    BY <1>1, <1>2, <1>3, <1>4, <1>5

\* The nodes whose sum has an index i: i itself, and those of i + LowBit(i).
LEMMA NodesOf ==
    ASSUME NEW i \in Nat \ {0}, NEW n \in Nat \ {0}
    PROVE  n - LowBit(n) < i /\ i <= n
              <=> n = i \/ (n - LowBit(n) < i + LowBit(i) /\ i + LowBit(i) <= n)
<1> DEFINE Has(k, m) == m - LowBit(m) < k /\ k <= m
           Same(k, m) == Has(k, m) <=> m = k \/ Has(k + LowBit(k), m)
           S == {k \in Nat \ {0} : \E m \in Nat \ {0} : ~ Same(k, m)}
<1> SUFFICES ASSUME S # {} PROVE FALSE
    OBVIOUS
<1>1. PICK k \in S : \A j \in S : k <= j
    <2>1. S \in SUBSET Nat
        OBVIOUS
    <2>2. QED
        BY <2>1, LeastOf
<1>2. PICK m \in Nat \ {0} : ~ Same(k, m)
    BY <1>1
<1>3. /\ LowBit(k) = IF k % 2 = 1 THEN 1 ELSE 2 * LowBit(k \div 2)
      /\ LowBit(m) = IF m % 2 = 1 THEN 1 ELSE 2 * LowBit(m \div 2)
      /\ LowBit(k) \in 1..k /\ LowBit(m) \in 1..m
      /\ LowBit(k) % 2 = 1 <=> k % 2 = 1
      /\ LowBit(m) % 2 = 1 <=> m % 2 = 1
    BY <1>1, LowBitIs, LowBitRange
<1>4. CASE k % 2 = 1
    <2>1. LowBit(k) = 1 /\ m - LowBit(m) # k
        BY <1>1, <1>3, <1>4
    <2>2. QED
        BY <1>1, <1>2, <1>3, <2>1
<1>5. CASE k % 2 # 1 /\ m % 2 = 1
    <2>1. LowBit(m) = 1 /\ m # k /\ m # k + LowBit(k)
        BY <1>1, <1>3, <1>5
    <2>2. QED
        BY <1>1, <1>2, <1>3, <2>1
<1>6. CASE k % 2 # 1 /\ m % 2 # 1
    <2>1. /\ k \div 2 \in Nat \ {0} /\ ~ (k <= k \div 2) /\ k = 2 * (k \div 2)
          /\ m \div 2 \in Nat \ {0} /\ m = 2 * (m \div 2)
        BY <1>1, <1>6
    <2>2. Same(k \div 2, m \div 2)
        BY <1>1, <2>1
    <2>3. LowBit(k \div 2) \in Nat /\ LowBit(m \div 2) \in Nat
        BY <2>1, LowBitRange
    <2>4. /\ Has(k, m) <=> Has(k \div 2, m \div 2)
          /\ Has(k + LowBit(k), m) <=> Has(k \div 2 + LowBit(k \div 2), m \div 2)
          /\ m = k <=> m \div 2 = k \div 2
        BY <1>3, <1>6, <2>1, <2>3
    <2>5. QED
        BY <1>2, <2>2, <2>4
<1>7. QED
    BY <1>4, <1>5, <1>6

\* The bars of the source are at dates and of numbers.
BarsOK ==
    /\ DOMAIN bars \in SUBSET BarDates
    /\ \A d \in DOMAIN bars : bars[d] \in Int

\* Dates are numbers and there are finitely many.
LEMMA DatesAreFinite ==
    /\ BarDates \in SUBSET Nat
    /\ \A S \in SUBSET BarDates : IsFiniteSet(S)
<1>1. BarDates \in SUBSET (0..3 * LastYear + 2)
    <2>1. \A y \in 0..LastYear, d \in 0..1 : 3 * y + d \in 0..3 * LastYear + 2
        BY PercentileAssumption
    <2>2. \A y \in LeapYears : 3 * y + 2 \in 0..3 * LastYear + 2
        BY PercentileAssumption
    <2>3. QED
        BY <2>1, <2>2 DEF BarDates
<1>2. IsFiniteSet(0..3 * LastYear + 2)
    BY PercentileAssumption, FS_Interval
<1>3. \A S \in SUBSET BarDates : S \in SUBSET (0..3 * LastYear + 2)
    BY <1>1
<1>4. \A S \in SUBSET BarDates : IsFiniteSet(S)
    BY <1>2, <1>3, FS_Subset
<1>5. QED
    BY <1>1, <1>4, PercentileAssumption

\* The place of a bar's value among the distinct ones.
Place(d) == IndexOf(bars[d])

\* Places are in the order of the values.
LEMMA PlacesAre ==
    ASSUME BarsOK
    PROVE  /\ TreeSize \in Nat
           /\ \A d \in ValidDates : d \in DOMAIN bars /\ bars[d] \in Int /\ bars[d] # 0
           /\ \A d \in ValidDates : Place(d) \in 1..TreeSize
           /\ \A d, e \in ValidDates : Place(d) <= Place(e) <=> bars[d] <= bars[e]
           /\ \A S \in SUBSET ValidDates : IsFiniteSet(S) /\ Cardinality(S) \in Nat
<1>1. /\ \A d \in ValidDates : d \in DOMAIN bars /\ bars[d] \in Int /\ bars[d] # 0
      /\ \A d \in ValidDates : bars[d] \in Distinct
      /\ \A v \in Distinct : v \in Int
    BY DEF BarsOK, ValidDates, Distinct
<1>2. \A S \in SUBSET ValidDates : IsFiniteSet(S) /\ Cardinality(S) \in Nat
    <2>1. \A S \in SUBSET ValidDates : S \in SUBSET BarDates
        BY DEF ValidDates, BarsOK
    <2>2. \A S \in SUBSET ValidDates : IsFiniteSet(S)
        BY <2>1, DatesAreFinite
    <2>3. QED
        BY <2>2, FS_CardinalityType
<1>3. IsFiniteSet(Distinct)
    <2> DEFINE value == [d \in ValidDates |-> bars[d]]
    <2>1. value \in Surjection(ValidDates, Distinct)
        BY DEF Surjection, Distinct
    <2>2. IsFiniteSet(ValidDates)
        BY <1>2
    <2> HIDE DEF value
    <2>3. QED
        BY <2>1, <2>2, FS_Surjection
<1> DEFINE upTo(v) == {u \in Distinct : u <= v}
<1>4. \A v : IsFiniteSet(upTo(v)) /\ Cardinality(upTo(v)) \in Nat /\ Cardinality(upTo(v)) <= TreeSize
    BY <1>3, FS_Subset, FS_CardinalityType DEF TreeSize
<1>5. TreeSize \in Nat
    BY <1>3, FS_CardinalityType DEF TreeSize
<1>6. \A v \in Distinct : Cardinality(upTo(v)) # 0
    BY <1>1, <1>4, FS_EmptySet
<1>7. \A u, v \in Distinct : u <= v => Cardinality(upTo(u)) <= Cardinality(upTo(v))
    <2> SUFFICES ASSUME NEW u \in Distinct, NEW v \in Distinct, u <= v
                 PROVE  Cardinality(upTo(u)) <= Cardinality(upTo(v))
        OBVIOUS
    <2>1. upTo(u) \in SUBSET upTo(v)
        BY <1>1
    <2>2. QED
        BY <1>4, <2>1, FS_Subset
<1>8. \A u, v \in Distinct : u < v => Cardinality(upTo(u)) < Cardinality(upTo(v))
    <2> SUFFICES ASSUME NEW u \in Distinct, NEW v \in Distinct, u < v
                 PROVE  Cardinality(upTo(u)) < Cardinality(upTo(v))
        OBVIOUS
    <2>1. upTo(u) \in SUBSET upTo(v) /\ v \in upTo(v) /\ v \notin upTo(u)
        BY <1>1
    <2>2. Cardinality(upTo(u)) <= Cardinality(upTo(v))
          /\ Cardinality(upTo(u)) # Cardinality(upTo(v))
        BY <1>4, <2>1, FS_Subset
    <2>3. QED
        BY <1>4, <2>2
<1>9. \A d \in ValidDates : Place(d) = Cardinality(upTo(bars[d]))
    BY DEF Place, IndexOf
<1> HIDE DEF upTo
<1>10. \A d \in ValidDates : Place(d) \in 1..TreeSize
    BY <1>1, <1>4, <1>5, <1>6, <1>9
<1>11. \A d, e \in ValidDates : Place(d) <= Place(e) <=> bars[d] <= bars[e]
    <2> SUFFICES ASSUME NEW d \in ValidDates, NEW e \in ValidDates
                 PROVE  Place(d) <= Place(e) <=> bars[d] <= bars[e]
        OBVIOUS
    <2>1. bars[d] \in Int /\ bars[e] \in Int /\ bars[d] \in Distinct /\ bars[e] \in Distinct
        BY <1>1
    <2>2. /\ bars[d] <= bars[e] => Place(d) <= Place(e)
          /\ bars[e] < bars[d] => Place(e) < Place(d)
        BY <1>7, <1>8, <1>9, <2>1
    <2>3. QED
        BY <1>10, <2>1, <2>2
<1>12. QED
    BY <1>1, <1>2, <1>5, <1>10, <1>11

\* The tree of some bars: each node counts those whose place it covers.
Under(W, n) == {d \in W : n - LowBit(n) < Place(d) /\ Place(d) <= n}
TreeOf(W) == [n \in 1..TreeSize |-> Cardinality(Under(W, n))]

\* The bars up to a place, and the function prefix_sum looks up.
UpTo(W, i) == {d \in W : Place(d) <= i}

IsSums(g, tree) ==
    g = [n \in 0..TreeSize |-> IF n = 0 THEN 0 ELSE tree[n] + g[n - LowBit(n)]]

\* prefix_sum counts the bars up to a place.
LEMMA PrefixSumIs ==
    ASSUME BarsOK, NEW W \in SUBSET ValidDates, NEW i \in 0..TreeSize
    PROVE  PrefixSum(TreeOf(W), i) = Cardinality(UpTo(W, i))
<1> DEFINE tree == TreeOf(W)
           h == [n \in 0..TreeSize |-> Cardinality(UpTo(W, n))]
           sums == CHOOSE g : IsSums(g, tree)
<1>1. TreeSize \in Nat
    BY PlacesAre
<1>2. \A n \in 1..TreeSize : LowBit(n) \in 1..n /\ n - LowBit(n) \in 0..TreeSize
    <2> SUFFICES ASSUME NEW n \in 1..TreeSize
                 PROVE  LowBit(n) \in 1..n /\ n - LowBit(n) \in 0..TreeSize
        OBVIOUS
    <2>1. n \in Nat \ {0} /\ LowBit(n) \in 1..n
        BY <1>1, LowBitRange
    <2>2. QED
        BY <1>1, <2>1
<1>3. \A d \in W : Place(d) \in Nat \ {0}
    BY <1>1, PlacesAre
<1>4. \A n : IsFiniteSet(UpTo(W, n)) /\ Cardinality(UpTo(W, n)) \in Nat
      /\ IsFiniteSet(Under(W, n)) /\ Cardinality(Under(W, n)) \in Nat
    BY PlacesAre DEF UpTo, Under
<1>5. \A n \in 1..TreeSize : h[n] = tree[n] + h[n - LowBit(n)]
    <2> SUFFICES ASSUME NEW n \in 1..TreeSize PROVE h[n] = tree[n] + h[n - LowBit(n)]
        OBVIOUS
    <2> DEFINE m == n - LowBit(n)
    <2>1. m \in 0..TreeSize /\ m < n /\ n \in Nat
        BY <1>1, <1>2
    <2>2. UpTo(W, n) = UpTo(W, m) \cup Under(W, n) /\ UpTo(W, m) \cap Under(W, n) = {}
        BY <1>3, <2>1 DEF UpTo, Under
    <2>3. Cardinality(UpTo(W, n))
            = Cardinality(UpTo(W, m)) + Cardinality(Under(W, n)) - Cardinality({})
        BY <1>4, <2>2, FS_Union
    <2>4. tree[n] = Cardinality(Under(W, n))
        BY DEF TreeOf
    <2>5. QED
        BY <1>1, <1>4, <2>1, <2>3, <2>4, FS_EmptySet
<1>6. h[0] = 0
    <2>1. UpTo(W, 0) = {}
        BY <1>3 DEF UpTo
    <2>2. QED
        BY <1>1, <2>1, FS_EmptySet
<1>7. IsSums(h, tree)
    <2> DEFINE f == [n \in 0..TreeSize |-> IF n = 0 THEN 0 ELSE tree[n] + h[n - LowBit(n)]]
    <2>1. \A n \in 0..TreeSize : h[n] = f[n]
        BY <1>1, <1>5, <1>6
    <2>2. h = f
        <3> HIDE DEF tree
        <3>1. QED
            BY <2>1
    <2>3. QED
        BY <2>2 DEF IsSums
<1>8. IsSums(sums, tree)
    BY <1>7
<1>9. PrefixSum(tree, i) = sums[i]
    BY DEF PrefixSum, IsSums
<1> HIDE DEF sums, h, tree
<1>10. \A n \in 0..TreeSize : sums[n] = h[n]
    <2> DEFINE S == {n \in 0..TreeSize : sums[n] # h[n]}
    <2> SUFFICES ASSUME S # {} PROVE FALSE
        OBVIOUS
    <2>1. PICK n \in S : \A m \in S : n <= m
        <3>1. S \in SUBSET Nat
            OBVIOUS
        <3>2. QED
            BY <3>1, LeastOf
    <2>2. n \in 0..TreeSize /\ sums[n] # h[n]
        BY <2>1
    <2>3. sums[n] = IF n = 0 THEN 0 ELSE tree[n] + sums[n - LowBit(n)]
        BY <1>8, <2>2 DEF IsSums
    <2>4. n # 0
        BY <1>6, <2>2, <2>3
    <2>5. n - LowBit(n) \in 0..TreeSize /\ ~ (n <= n - LowBit(n))
        BY <1>1, <1>2, <2>2, <2>4
    <2>6. sums[n - LowBit(n)] = h[n - LowBit(n)]
        BY <2>1, <2>5
    <2>7. QED
        BY <1>1, <1>5, <2>2, <2>3, <2>4, <2>6
<1>11. QED
    BY <1>9, <1>10 DEF h, tree

IsPaths(g) ==
    g = [n \in 1..2 * TreeSize |-> IF n > TreeSize THEN {} ELSE {n} \cup g[n + LowBit(n)]]

\* add goes to the nodes that cover a place.
LEMMA PathsAre ==
    ASSUME TreeSize \in Nat, NEW i \in 1..TreeSize
    PROVE  (CHOOSE g : IsPaths(g))[i] = {n \in 1..TreeSize : n - LowBit(n) < i /\ i <= n}
<1> DEFINE h == [k \in 1..2 * TreeSize |-> {n \in 1..TreeSize : n - LowBit(n) < k /\ k <= n}]
           paths == CHOOSE g : IsPaths(g)
<1>1. \A n \in 1..TreeSize :
        LowBit(n) \in 1..n /\ n + LowBit(n) \in 1..2 * TreeSize /\ n \in Nat \ {0}
    <2> SUFFICES ASSUME NEW n \in 1..TreeSize
                 PROVE  LowBit(n) \in 1..n /\ n + LowBit(n) \in 1..2 * TreeSize
        OBVIOUS
    <2>1. LowBit(n) \in 1..n
        BY LowBitRange
    <2>2. QED
        BY <2>1
<1>2. \A k \in 1..TreeSize : h[k] = {k} \cup h[k + LowBit(k)]
    <2> SUFFICES ASSUME NEW k \in 1..TreeSize PROVE h[k] = {k} \cup h[k + LowBit(k)]
        OBVIOUS
    <2>1. k + LowBit(k) \in 1..2 * TreeSize /\ k \in 1..2 * TreeSize /\ k \in Nat \ {0}
        BY <1>1
    <2>2. \A n \in 1..TreeSize :
            n - LowBit(n) < k /\ k <= n
              <=> n = k \/ (n - LowBit(n) < k + LowBit(k) /\ k + LowBit(k) <= n)
        BY <1>1, <2>1, NodesOf
    <2>3. QED
        BY <2>1, <2>2
<1>3. \A k \in 1..2 * TreeSize : k > TreeSize => h[k] = {}
    OBVIOUS
<1>4. IsPaths(h)
    <2> DEFINE f == [n \in 1..2 * TreeSize |-> IF n > TreeSize THEN {} ELSE {n} \cup h[n + LowBit(n)]]
    <2>1. \A n \in 1..2 * TreeSize : h[n] = f[n]
        <3> SUFFICES ASSUME NEW n \in 1..2 * TreeSize PROVE h[n] = f[n]
            OBVIOUS
        <3>1. n > TreeSize \/ n \in 1..TreeSize
            OBVIOUS
        <3> HIDE DEF h
        <3>2. QED
            BY <1>2, <1>3, <3>1
    <2>2. h = f
        BY <2>1
    <2>3. QED
        BY <2>2 DEF IsPaths
<1>5. IsPaths(paths)
    BY <1>4
<1> HIDE DEF paths, h
<1>6. \A k \in 1..2 * TreeSize : paths[k] = h[k]
    <2> DEFINE S == {m \in 1..2 * TreeSize : paths[m] # h[m]}
    <2> SUFFICES ASSUME S # {} PROVE FALSE
        OBVIOUS
    <2>1. PICK k \in S : \A m \in S : m <= k
        <3>1. S \in SUBSET (1..2 * TreeSize) /\ 2 * TreeSize \in Nat
            OBVIOUS
        <3>2. QED
            BY <3>1, GreatestOf
    <2>2. k \in 1..2 * TreeSize /\ paths[k] # h[k]
        BY <2>1
    <2>3. paths[k] = IF k > TreeSize THEN {} ELSE {k} \cup paths[k + LowBit(k)]
        BY <1>5, <2>2 DEF IsPaths
    <2>4. k \in 1..TreeSize /\ ~ (k > TreeSize)
        <3>1. ~ (k > TreeSize)
            BY <1>3, <2>2, <2>3
        <3>2. QED
            BY <2>2, <3>1
    <2>5. k + LowBit(k) \in 1..2 * TreeSize /\ ~ (k + LowBit(k) <= k)
        BY <1>1, <2>4
    <2>6. paths[k + LowBit(k)] = h[k + LowBit(k)]
        BY <2>1, <2>5
    <2>7. paths[k] = {k} \cup h[k + LowBit(k)] /\ h[k] = {k} \cup h[k + LowBit(k)]
        BY <1>2, <2>3, <2>4, <2>6
    <2>8. QED
        BY <2>2, <2>7
<1>7. QED
    BY <1>6 DEF paths, h

\* Adding or taking away a sample gives the tree of the bars with or without it.
LEMMA TreeAddIs ==
    ASSUME BarsOK, NEW W \in SUBSET ValidDates, NEW d \in ValidDates
    PROVE  /\ d \notin W => TreeAdd(TreeOf(W), Place(d), 1) = TreeOf(W \cup {d})
           /\ d \in W => TreeAdd(TreeOf(W), Place(d), -1) = TreeOf(W \ {d})
<1> DEFINE nodes == {n \in 1..TreeSize : n - LowBit(n) < Place(d) /\ Place(d) <= n}
<1>1. TreeSize \in Nat /\ Place(d) \in 1..TreeSize
    BY PlacesAre
<1>2. nodes = (CHOOSE g : IsPaths(g))[Place(d)]
    BY <1>1, PathsAre
<1>3. \A tree, delta :
        TreeAdd(tree, Place(d), delta)
          = [n \in 1..TreeSize |-> IF n \in nodes THEN tree[n] + delta ELSE tree[n]]
    <2> HIDE DEF nodes
    <2>1. QED
        BY <1>2 DEF TreeAdd, IsPaths
<1>4. \A n : IsFiniteSet(Under(W, n)) /\ Cardinality(Under(W, n)) \in Nat
    BY PlacesAre DEF Under
<1>5. ASSUME NEW n \in 1..TreeSize
      PROVE  /\ n \in nodes => Under(W \cup {d}, n) = Under(W, n) \cup {d}
             /\ n \in nodes => Under(W \ {d}, n) = Under(W, n) \ {d}
             /\ n \notin nodes => Under(W \cup {d}, n) = Under(W, n)
             /\ n \notin nodes => Under(W \ {d}, n) = Under(W, n)
             /\ n \in nodes => (d \in W <=> d \in Under(W, n))
    BY DEF Under
<1> HIDE DEF nodes
<1>6. ASSUME d \notin W PROVE TreeAdd(TreeOf(W), Place(d), 1) = TreeOf(W \cup {d})
    <2>1. \A n \in 1..TreeSize : Cardinality(Under(W \cup {d}, n))
            = IF n \in nodes THEN Cardinality(Under(W, n)) + 1 ELSE Cardinality(Under(W, n))
        <3> SUFFICES ASSUME NEW n \in 1..TreeSize
                     PROVE  Cardinality(Under(W \cup {d}, n))
                              = IF n \in nodes THEN Cardinality(Under(W, n)) + 1
                                ELSE Cardinality(Under(W, n))
            OBVIOUS
        <3>1. n \in nodes => Under(W \cup {d}, n) = Under(W, n) \cup {d} /\ d \notin Under(W, n)
            BY <1>5, <1>6
        <3>2. ASSUME n \in nodes
              PROVE  Cardinality(Under(W \cup {d}, n)) = Cardinality(Under(W, n)) + 1
            <4> DEFINE U == Under(W, n)
            <4>1. IsFiniteSet(U) /\ Under(W \cup {d}, n) = U \cup {d} /\ d \notin U
                BY <1>4, <3>1, <3>2
            <4> HIDE DEF U
            <4>2. Cardinality(U \cup {d}) = Cardinality(U) + 1
                BY <4>1, FS_AddElement
            <4>3. QED
                BY <4>1, <4>2 DEF U
        <3>3. QED
            BY <1>5, <3>2
    <2>2. TreeAdd(TreeOf(W), Place(d), 1)
            = [n \in 1..TreeSize |-> IF n \in nodes THEN TreeOf(W)[n] + 1 ELSE TreeOf(W)[n]]
        BY <1>3
    <2>3. \A n \in 1..TreeSize : TreeOf(W)[n] = Cardinality(Under(W, n))
        BY DEF TreeOf
    <2>4. QED
        BY <2>1, <2>2, <2>3 DEF TreeOf
<1>7. ASSUME d \in W PROVE TreeAdd(TreeOf(W), Place(d), -1) = TreeOf(W \ {d})
    <2>1. \A n \in 1..TreeSize : Cardinality(Under(W \ {d}, n))
            = IF n \in nodes THEN Cardinality(Under(W, n)) + (-1) ELSE Cardinality(Under(W, n))
        <3> SUFFICES ASSUME NEW n \in 1..TreeSize
                     PROVE  Cardinality(Under(W \ {d}, n))
                              = IF n \in nodes THEN Cardinality(Under(W, n)) + (-1)
                                ELSE Cardinality(Under(W, n))
            OBVIOUS
        <3>1. n \in nodes => Under(W \ {d}, n) = Under(W, n) \ {d} /\ d \in Under(W, n)
            BY <1>5, <1>7
        <3>2. ASSUME n \in nodes
              PROVE  Cardinality(Under(W \ {d}, n)) = Cardinality(Under(W, n)) - 1
            <4> DEFINE U == Under(W, n)
            <4>1. IsFiniteSet(U) /\ Under(W \ {d}, n) = U \ {d} /\ d \in U
                BY <1>4, <3>1, <3>2
            <4> HIDE DEF U
            <4>2. Cardinality(U \ {d}) = Cardinality(U) - 1
                BY <4>1, FS_RemoveElement
            <4>3. QED
                BY <4>1, <4>2 DEF U
        <3>3. QED
            BY <1>4, <1>5, <3>2
    <2>2. TreeAdd(TreeOf(W), Place(d), -1)
            = [n \in 1..TreeSize |-> IF n \in nodes THEN TreeOf(W)[n] + (-1) ELSE TreeOf(W)[n]]
        BY <1>3
    <2>3. \A n \in 1..TreeSize : TreeOf(W)[n] = Cardinality(Under(W, n))
        BY DEF TreeOf
    <2>4. QED
        BY <2>1, <2>2, <2>3 DEF TreeOf
<1>8. QED
    BY <1>6, <1>7

-----------------------------------------------------------------------------
(* The rolling counts                                                      *)

\* The bars that each of the three trees counts.
Positive(W) == {e \in W : bars[e] > 0}
Negative(W) == {e \in W : bars[e] < 0}

\* The counts of the bars W, with their samples in this order.
Counts(s, W) ==
    [samples |-> s, all |-> TreeOf(W), positive |-> TreeOf(Positive(W)),
     negative |-> TreeOf(Negative(W))]

\* The samples held, and that they are in the order of their dates.
Held(s) == {s[i] : i \in 1..Len(s)}
Sorted(s) == \A i, j \in 1..Len(s) : i < j => s[i] < s[j]

\* The counts are those of a window, whose samples are in order.
Good(c, W) ==
    /\ W \in SUBSET ValidDates
    /\ \E s \in Seq(ValidDates) : Sorted(s) /\ Held(s) = W /\ c = Counts(s, W)

\* Before the first row no sample is counted.
LEMMA NewCountsGood ==
    ASSUME BarsOK
    PROVE  Good(NewCounts, {})
<1>1. Cardinality({}) = 0
    BY FS_EmptySet
<1>2. EmptyTree = TreeOf({})
    <2>1. \A n : Under({}, n) = {}
        BY DEF Under
    <2>2. QED
        BY <1>1, <2>1 DEF EmptyTree, TreeOf
<1>3. Positive({}) = {} /\ Negative({}) = {}
    BY DEF Positive, Negative
<1>4. NewCounts = Counts(<<>>, {})
    BY <1>2, <1>3 DEF NewCounts, Counts
<1>5. <<>> \in Seq(ValidDates) /\ Sorted(<<>>) /\ Held(<<>>) = {}
    BY DEF Sorted, Held
<1>6. QED
    BY <1>4, <1>5 DEF Good

\* Counts are equal when their four fields are.
LEMMA RecordsAre ==
    ASSUME NEW s, NEW a, NEW p, NEW n, NEW r, NEW b, NEW q, NEW m,
           r = [samples |-> s, all |-> a, positive |-> p, negative |-> n]
    PROVE  /\ [r EXCEPT !.all = b, !.positive = q, !.negative = m]
                = [samples |-> s, all |-> b, positive |-> q, negative |-> m]
           /\ [r EXCEPT !.samples = b] = [samples |-> b, all |-> a, positive |-> p, negative |-> n]
           /\ r.samples = s /\ r.all = a /\ r.positive = p /\ r.negative = n
<1> DEFINE r1 == [r EXCEPT !.all = b]
           r2 == [r1 EXCEPT !.positive = q]
           r3 == [r2 EXCEPT !.negative = m]
<1>1. [r EXCEPT !.all = b, !.positive = q, !.negative = m] = r3
    OBVIOUS
<1>2. r1 = [samples |-> s, all |-> b, positive |-> p, negative |-> n]
    OBVIOUS
<1> HIDE DEF r1
<1>3. r2 = [samples |-> s, all |-> b, positive |-> q, negative |-> n]
    BY <1>2
<1> HIDE DEF r2
<1>4. r3 = [samples |-> s, all |-> b, positive |-> q, negative |-> m]
    BY <1>3
<1>5. [r EXCEPT !.samples = b] = [samples |-> b, all |-> a, positive |-> p, negative |-> n]
    OBVIOUS
<1>6. r.samples = s /\ r.all = a /\ r.positive = p /\ r.negative = n
    OBVIOUS
<1> HIDE DEF r3
<1>7. QED
    BY <1>1, <1>4, <1>5, <1>6

\* _add_sample counts a sample in the tree of all and in that of its sign.
LEMMA CountedIs ==
    ASSUME BarsOK, NEW s, NEW W \in SUBSET ValidDates, NEW d \in ValidDates
    PROVE  /\ d \notin W => Counted(Counts(s, W), d, 1) = Counts(s, W \cup {d})
           /\ d \in W => Counted(Counts(s, W), d, -1) = Counts(s, W \ {d})
<1> DEFINE v == bars[d]
           counted(delta) ==
               [samples |-> s, all |-> TreeAdd(TreeOf(W), Place(d), delta),
                positive |-> IF v > 0 THEN TreeAdd(TreeOf(Positive(W)), Place(d), delta)
                             ELSE TreeOf(Positive(W)),
                negative |-> IF v < 0 THEN TreeAdd(TreeOf(Negative(W)), Place(d), delta)
                             ELSE TreeOf(Negative(W))]
<1>1. \A delta : Counted(Counts(s, W), d, delta) = counted(delta)
    <2> SUFFICES ASSUME NEW delta PROVE Counted(Counts(s, W), d, delta) = counted(delta)
        OBVIOUS
    <2> DEFINE c == Counts(s, W)
    <2>1. Counted(c, d, delta)
            = [c EXCEPT !.all = TreeAdd(c.all, Place(d), delta),
                        !.positive = IF v > 0 THEN TreeAdd(c.positive, Place(d), delta) ELSE c.positive,
                        !.negative = IF v < 0 THEN TreeAdd(c.negative, Place(d), delta) ELSE c.negative]
        <3> HIDE DEF c
        <3>1. QED
            BY DEF Counted, Place
    <2>2. c = [samples |-> s, all |-> TreeOf(W), positive |-> TreeOf(Positive(W)),
               negative |-> TreeOf(Negative(W))]
        BY DEF Counts
    <2> HIDE DEF c, v
    <2>3. /\ c.all = TreeOf(W) /\ c.positive = TreeOf(Positive(W))
          /\ c.negative = TreeOf(Negative(W))
        BY <2>2
    <2>4. Counted(c, d, delta) = counted(delta)
        BY <2>1, <2>2, <2>3, RecordsAre
    <2>5. QED
        BY <2>4 DEF c
<1>2. v \in Int
    BY PlacesAre
<1>3. /\ v > 0 => Positive(W \cup {d}) = Positive(W) \cup {d} /\ Positive(W \ {d}) = Positive(W) \ {d}
      /\ ~ (v > 0) => Positive(W \cup {d}) = Positive(W) /\ Positive(W \ {d}) = Positive(W)
      /\ v < 0 => Negative(W \cup {d}) = Negative(W) \cup {d} /\ Negative(W \ {d}) = Negative(W) \ {d}
      /\ ~ (v < 0) => Negative(W \cup {d}) = Negative(W) /\ Negative(W \ {d}) = Negative(W)
    BY <1>2 DEF Positive, Negative
<1>4. /\ v > 0 => (d \in W <=> d \in Positive(W))
      /\ v < 0 => (d \in W <=> d \in Negative(W))
      /\ Positive(W) \in SUBSET ValidDates /\ Negative(W) \in SUBSET ValidDates
    BY <1>2 DEF Positive, Negative
<1>5. /\ d \notin W => TreeAdd(TreeOf(W), Place(d), 1) = TreeOf(W \cup {d})
      /\ d \in W => TreeAdd(TreeOf(W), Place(d), -1) = TreeOf(W \ {d})
    BY TreeAddIs
<1>6. /\ d \notin Positive(W) => TreeAdd(TreeOf(Positive(W)), Place(d), 1) = TreeOf(Positive(W) \cup {d})
      /\ d \in Positive(W) => TreeAdd(TreeOf(Positive(W)), Place(d), -1) = TreeOf(Positive(W) \ {d})
    BY <1>4, TreeAddIs
<1>7. /\ d \notin Negative(W) => TreeAdd(TreeOf(Negative(W)), Place(d), 1) = TreeOf(Negative(W) \cup {d})
      /\ d \in Negative(W) => TreeAdd(TreeOf(Negative(W)), Place(d), -1) = TreeOf(Negative(W) \ {d})
    BY <1>4, TreeAddIs
<1> HIDE DEF v
<1>8. d \notin W => counted(1) = Counts(s, W \cup {d})
    BY <1>3, <1>4, <1>5, <1>6, <1>7 DEF Counts
<1>9. d \in W => counted(-1) = Counts(s, W \ {d})
    BY <1>3, <1>4, <1>5, <1>6, <1>7 DEF Counts
<1> HIDE DEF counted
<1>10. QED
    BY <1>1, <1>8, <1>9

\* add keeps the order, as the sample is later than the others.
LEMMA SampleAddedGood ==
    ASSUME BarsOK, NEW c, NEW W, Good(c, W), NEW d \in ValidDates, \A e \in W : e < d
    PROVE  Good(SampleAdded(c, d), W \cup {d})
<1>1. PICK s \in Seq(ValidDates) : Sorted(s) /\ Held(s) = W /\ c = Counts(s, W)
    BY DEF Good
<1>2. W \in SUBSET ValidDates /\ d \notin W /\ \A e \in ValidDates : e \in Int
    <2>1. \A e \in ValidDates : e \in Int
        BY DatesAreFinite DEF BarsOK, ValidDates
    <2>2. QED
        BY <2>1 DEF Good
<1> DEFINE t == Append(s, d)
<1>3. Counted(c, d, 1) = Counts(s, W \cup {d})
    BY <1>1, <1>2, CountedIs
<1>4. SampleAdded(c, d) = Counts(t, W \cup {d})
    <2> DEFINE C == Counts(s, W \cup {d})
    <2>1. c.samples = s
        BY <1>1 DEF Counts
    <2>2. SampleAdded(c, d) = [C EXCEPT !.samples = Append(C.samples, d)]
          \/ SampleAdded(c, d) = [C EXCEPT !.samples = t]
        BY <1>3, <2>1 DEF SampleAdded, Counts
    <2>3. [C EXCEPT !.samples = t] = Counts(t, W \cup {d}) /\ C.samples = s
        <3> HIDE DEF t
        <3>1. QED
            BY DEF Counts
    <2>4. QED
        BY <2>2, <2>3
<1>5. /\ t \in Seq(ValidDates) /\ Len(s) \in Nat /\ Len(t) = Len(s) + 1
      /\ \A i \in 1..Len(s) : t[i] = s[i] /\ s[i] \in W
      /\ t[Len(t)] = d
    <2>1. Len(s) \in Nat /\ \A i \in 1..Len(s) : s[i] \in W
        BY <1>1 DEF Held
    <2>2. QED
        BY <1>1, <2>1
<1> HIDE DEF t
<1>6. Sorted(t)
    <2> SUFFICES ASSUME NEW i \in 1..Len(t), NEW j \in 1..Len(t), i < j PROVE t[i] < t[j]
        BY DEF Sorted
    <2>1. i \in 1..Len(s) /\ (j = Len(t) \/ j \in 1..Len(s))
        BY <1>5
    <2>2. j \in 1..Len(s) => s[i] < s[j]
        BY <1>1, <2>1 DEF Sorted
    <2>3. QED
        BY <1>5, <2>1, <2>2
<1>7. Held(t) = W \cup {d}
    <2>1. \A i \in 1..Len(t) : i = Len(t) \/ i \in 1..Len(s)
        BY <1>5
    <2>2. \A i \in 1..Len(s) : i \in 1..Len(t)
        BY <1>5
    <2>3. Len(t) \in 1..Len(t)
        BY <1>5
    <2>4. QED
        BY <1>1, <1>5, <2>1, <2>2, <2>3 DEF Held
<1>8. QED
    BY <1>2, <1>4, <1>5, <1>6, <1>7 DEF Good

\* What is left of samples after the first k.
Rest(s, k) == [i \in 1..Len(s) - k |-> s[i + k]]
HeldAfter(s, k) == {s[i] : i \in k + 1..Len(s)}

\* Taking the first sample away from what is left.
LEMMA RestIs ==
    ASSUME NEW s \in Seq(ValidDates), NEW k \in 0..Len(s)
    PROVE  /\ Rest(s, k) \in Seq(ValidDates) /\ Len(Rest(s, k)) = Len(s) - k
           /\ Held(Rest(s, k)) = HeldAfter(s, k)
           /\ Sorted(s) => Sorted(Rest(s, k))
           /\ k < Len(s) => Tail(Rest(s, k)) = Rest(s, k + 1)
<1>1. Len(s) \in Nat /\ k \in Nat /\ Len(s) - k \in Nat
    OBVIOUS
<1>2. \A i \in 1..Len(s) - k : i + k \in 1..Len(s) /\ i + k \in k + 1..Len(s) /\ s[i + k] \in ValidDates
    BY <1>1, ElementOfSeq
<1>3. Rest(s, k) \in [1..Len(s) - k -> ValidDates]
    BY <1>2 DEF Rest
<1>4. Rest(s, k) \in Seq(ValidDates) /\ Len(Rest(s, k)) = Len(s) - k
    BY <1>1, <1>3
<1>5. \A i \in 1..Len(s) - k : Rest(s, k)[i] = s[i + k]
    BY DEF Rest
<1>6. Held(Rest(s, k)) = HeldAfter(s, k)
    <2>1. \A i \in k + 1..Len(s) : i - k \in 1..Len(s) - k /\ (i - k) + k = i
        BY <1>1
    <2>2. \A i \in k + 1..Len(s) : s[i] = Rest(s, k)[i - k]
        BY <1>5, <2>1
    <2>3. \A i \in 1..Len(s) - k : i + k \in k + 1..Len(s)
        BY <1>2
    <2>4. QED
        <3> DEFINE q == Rest(s, k)
        <3>1. Len(q) = Len(s) - k /\ (\A i \in 1..Len(s) - k : q[i] = s[i + k])
              /\ \A i \in k + 1..Len(s) : s[i] = q[i - k]
            BY <1>4, <1>5, <2>2
        <3> HIDE DEF q
        <3>2. ASSUME NEW d \in Held(q) PROVE d \in HeldAfter(s, k)
            <4>1. PICK i \in 1..Len(s) - k : d = q[i]
                BY <3>1 DEF Held
            <4>2. d = s[i + k] /\ i + k \in k + 1..Len(s)
                BY <1>2, <3>1, <4>1
            <4>3. QED
                BY <4>2 DEF HeldAfter
        <3>3. ASSUME NEW d \in HeldAfter(s, k) PROVE d \in Held(q)
            <4>1. PICK i \in k + 1..Len(s) : d = s[i]
                BY DEF HeldAfter
            <4>2. d = q[i - k] /\ i - k \in 1..Len(q)
                BY <2>1, <3>1, <4>1
            <4>3. QED
                BY <4>2 DEF Held
        <3>4. QED
            BY <3>2, <3>3 DEF q
<1>7. ASSUME Sorted(s) PROVE Sorted(Rest(s, k))
    <2> SUFFICES ASSUME NEW i \in 1..Len(s) - k, NEW j \in 1..Len(s) - k, i < j
                 PROVE  Rest(s, k)[i] < Rest(s, k)[j]
        BY <1>4 DEF Sorted
    <2>1. i + k < j + k
        BY <1>1
    <2>2. QED
        BY <1>2, <1>5, <1>7, <2>1 DEF Sorted
<1>8. ASSUME k < Len(s) PROVE Tail(Rest(s, k)) = Rest(s, k + 1)
    <2> DEFINE r == Rest(s, k) q == Rest(s, k + 1)
    <2>1. r \in Seq(ValidDates) /\ r # <<>> /\ Len(r) = Len(s) - k
        BY <1>1, <1>4, <1>8
    <2>2. /\ Tail(r) \in Seq(ValidDates) /\ Len(Tail(r)) = Len(r) - 1
          /\ \A i \in 1..Len(Tail(r)) : Tail(r)[i] = r[i + 1]
        <3> HIDE DEF r
        <3>1. QED
            BY <2>1, HeadTailProperties
    <2>3. \A i \in 1..Len(Tail(r)) : r[i + 1] = s[(i + 1) + k]
        <3>1. \A i \in 1..Len(Tail(r)) : i + 1 \in 1..Len(s) - k
            BY <1>1, <2>1, <2>2
        <3>2. QED
            BY <1>5, <3>1
    <2>4. Tail(r) = [i \in 1..Len(s) - (k + 1) |-> s[i + (k + 1)]]
        <3>1. Tail(r) = [i \in 1..Len(Tail(r)) |-> Tail(r)[i]]
            <4> DEFINE u == Tail(r)
            <4>1. u \in Seq(ValidDates)
                BY <2>2
            <4> HIDE DEF u
            <4>2. u \in [1..Len(u) -> ValidDates]
                BY <4>1
            <4>3. u = [i \in 1..Len(u) |-> u[i]]
                BY <4>2
            <4>4. QED
                BY <4>3 DEF u
        <3>2. Len(Tail(r)) = Len(s) - (k + 1)
            BY <1>1, <2>1, <2>2
        <3>3. \A i \in 1..Len(Tail(r)) : (i + 1) + k = i + (k + 1)
            BY <1>1, <3>2
        <3> HIDE DEF r, q
        <3>4. QED
            BY <2>2, <2>3, <3>1, <3>2, <3>3
    <2>5. QED
        BY <2>4 DEF Rest
<1>9. QED
    BY <1>4, <1>6, <1>7, <1>8

\* One turn of the loop of evict_before, and the function it looks up.
Dropped(g, c, n, threshold) ==
    IF c.samples[n] < threshold
    THEN [Counted(g[n - 1], c.samples[n], -1) EXCEPT !.samples = Tail(@)]
    ELSE g[n - 1]

IsDrops(g, c, threshold) ==
    g = [n \in 0..Len(c.samples) |-> IF n = 0 THEN c ELSE Dropped(g, c, n, threshold)]

\* How many of sorted samples are below the threshold.
LEMMA BelowThreshold ==
    ASSUME NEW s \in Seq(ValidDates), Sorted(s), \A e \in ValidDates : e \in Int,
           NEW threshold \in Int
    PROVE  \E k \in 0..Len(s) : \A i \in 1..Len(s) : s[i] < threshold <=> i <= k
<1> DEFINE S == {i \in 1..Len(s) : s[i] < threshold}
<1>1. Len(s) \in Nat /\ \A i \in 1..Len(s) : s[i] \in Int
    BY ElementOfSeq
<1>2. CASE S = {}
    <2>1. \A i \in 1..Len(s) : s[i] < threshold <=> i <= 0
        BY <1>1, <1>2
    <2>2. QED
        BY <1>1, <2>1
<1>3. CASE S # {}
    <2>1. PICK k \in S : \A i \in S : i <= k
        BY <1>1, <1>3, GreatestOf
    <2>2. ASSUME NEW i \in 1..Len(s) PROVE s[i] < threshold <=> i <= k
        <3>1. s[i] < threshold => i <= k
            BY <2>1, <2>2
        <3>2. k \in 1..Len(s) /\ s[k] < threshold
            BY <2>1
        <3>3. i < k => s[i] < s[k]
            BY <2>2, <3>2 DEF Sorted
        <3>4. i <= k => i < k \/ i = k
            BY <1>1, <3>2
        <3>5. QED
            BY <1>1, <3>1, <3>2, <3>3, <3>4
    <2>3. k \in 0..Len(s)
        BY <2>1
    <2>4. QED
        BY <2>2, <2>3
<1>4. QED
    BY <1>2, <1>3

\* evict_before keeps the samples from the threshold on, in their order.
LEMMA EvictedGood ==
    ASSUME BarsOK, NEW c, NEW W, Good(c, W), NEW threshold \in Int
    PROVE  Good(EvictedBefore(c, threshold), {e \in W : e >= threshold})
<1>1. PICK s \in Seq(ValidDates) : Sorted(s) /\ Held(s) = W /\ c = Counts(s, W)
    BY DEF Good
<1>2. \A e \in ValidDates : e \in Int
    BY DatesAreFinite DEF BarsOK, ValidDates
<1>3. PICK k \in 0..Len(s) : \A i \in 1..Len(s) : s[i] < threshold <=> i <= k
    BY <1>1, <1>2, BelowThreshold
<1>4. Len(s) \in Nat /\ \A i \in 1..Len(s) : s[i] \in ValidDates
    BY ElementOfSeq
<1> DEFINE gone(n) == IF n <= k THEN n ELSE k
           left(n) == Counts(Rest(s, n), HeldAfter(s, n))
           h == [n \in 0..Len(s) |-> left(gone(n))]
           drops == CHOOSE g : IsDrops(g, c, threshold)
<1>5. c.samples = s
    BY <1>1 DEF Counts
<1>6. left(0) = c
    <2>1. Rest(s, 0) = s
        <3>1. s = [i \in 1..Len(s) |-> s[i]]
            OBVIOUS
        <3>2. \A i \in 1..Len(s) - 0 : s[i + 0] = s[i]
            BY <1>4
        <3>3. QED
            BY <1>4, <3>1, <3>2 DEF Rest
    <2>2. HeldAfter(s, 0) = W
        BY <1>1 DEF HeldAfter, Held
    <2>3. QED
        BY <1>1, <2>1, <2>2
<1>7. ASSUME NEW n \in 1..Len(s), n <= k
      PROVE  left(n) = [Counted(left(n - 1), s[n], -1) EXCEPT !.samples = Tail(@)]
    <2>1. n - 1 \in 0..Len(s) /\ n - 1 < Len(s) /\ (n - 1) + 1 = n /\ n \in Nat
        BY <1>4, <1>7
    <2>2. Tail(Rest(s, n - 1)) = Rest(s, n)
        BY <2>1, RestIs
    <2>3. HeldAfter(s, n - 1) \in SUBSET ValidDates /\ s[n] \in HeldAfter(s, n - 1)
        <3>1. \A i \in (n - 1) + 1..Len(s) : i \in 1..Len(s)
            BY <2>1
        <3>2. n \in (n - 1) + 1..Len(s)
            BY <1>4, <1>7, <2>1
        <3>3. QED
            BY <1>4, <3>1, <3>2 DEF HeldAfter
    <2>4. HeldAfter(s, n - 1) \ {s[n]} = HeldAfter(s, n)
        <3>1. \A i \in n + 1..Len(s) : i \in (n - 1) + 1..Len(s) /\ i \in 1..Len(s) /\ n < i
            BY <2>1
        <3>2. \A i \in n + 1..Len(s) : s[i] # s[n]
            <4> SUFFICES ASSUME NEW i \in n + 1..Len(s) PROVE s[i] # s[n]
                OBVIOUS
            <4>1. s[n] < s[i] /\ s[i] \in Int /\ s[n] \in Int
                BY <1>1, <1>2, <1>4, <3>1 DEF Sorted
            <4>2. QED
                BY <4>1
        <3>3. \A i \in (n - 1) + 1..Len(s) : i = n \/ i \in n + 1..Len(s)
            BY <2>1
        <3>4. QED
            BY <3>1, <3>2, <3>3 DEF HeldAfter
    <2>5. Counted(left(n - 1), s[n], -1) = Counts(Rest(s, n - 1), HeldAfter(s, n))
        BY <1>4, <2>3, <2>4, CountedIs
    <2> DEFINE a == Counts(Rest(s, n - 1), HeldAfter(s, n))
    <2>6. [a EXCEPT !.samples = Tail(a.samples)] = Counts(Tail(Rest(s, n - 1)), HeldAfter(s, n))
        <3>1. a.samples = Rest(s, n - 1)
            BY DEF Counts
        <3>2. [a EXCEPT !.samples = Tail(Rest(s, n - 1))]
                = Counts(Tail(Rest(s, n - 1)), HeldAfter(s, n))
            <4> DEFINE T == Tail(Rest(s, n - 1))
            <4> HIDE DEF T
            <4>1. [a EXCEPT !.samples = T] = Counts(T, HeldAfter(s, n))
                BY DEF Counts
            <4> HIDE DEF a
            <4>2. QED
                BY <4>1 DEF T
        <3> HIDE DEF a
        <3>3. QED
            BY <3>1, <3>2
    <2>7. [Counted(left(n - 1), s[n], -1) EXCEPT !.samples = Tail(@)]
            = [a EXCEPT !.samples = Tail(a.samples)]
        BY <2>5
    <2>8. QED
        BY <2>2, <2>6, <2>7
<1> HIDE DEF left
<1>8. \A n \in 1..Len(s) : h[n] = Dropped(h, c, n, threshold)
    <2> SUFFICES ASSUME NEW n \in 1..Len(s) PROVE h[n] = Dropped(h, c, n, threshold)
        OBVIOUS
    <2>1. n \in 0..Len(s) /\ n - 1 \in 0..Len(s) /\ n \in Nat /\ k \in Nat
        BY <1>4
    <2>2. h[n] = left(gone(n)) /\ h[n - 1] = left(gone(n - 1))
        BY <2>1
    <2>3. CASE n <= k
        <3>1. gone(n) = n /\ gone(n - 1) = n - 1 /\ s[n] < threshold
            BY <1>3, <2>1, <2>3
        <3> HIDE DEF h
        <3>2. QED
            BY <1>5, <1>7, <2>2, <2>3, <3>1 DEF Dropped
    <2>4. CASE ~ (n <= k)
        <3>1. gone(n) = k /\ gone(n - 1) = k /\ ~ (s[n] < threshold)
            BY <1>3, <2>1, <2>4
        <3> HIDE DEF h
        <3>2. QED
            BY <1>5, <2>2, <3>1 DEF Dropped
    <2>5. QED
        BY <2>3, <2>4
<1>9. h[0] = c
    BY <1>4, <1>6
<1>10. IsDrops(h, c, threshold)
    <2>1. h = [n \in 0..Len(s) |-> h[n]]
        OBVIOUS
    <2> HIDE DEF h
    <2>2. \A n \in 0..Len(s) : h[n] = IF n = 0 THEN c ELSE Dropped(h, c, n, threshold)
        BY <1>4, <1>8, <1>9
    <2>3. QED
        BY <1>5, <2>1, <2>2 DEF IsDrops
<1>11. IsDrops(drops, c, threshold)
    BY <1>10
<1>12. EvictedBefore(c, threshold) = drops[Len(s)]
    BY <1>5 DEF EvictedBefore, IsDrops, Dropped
<1> HIDE DEF drops, h
<1>13. \A n \in 0..Len(s) : drops[n] = h[n]
    <2> DEFINE S == {n \in 0..Len(s) : drops[n] # h[n]}
    <2> SUFFICES ASSUME S # {} PROVE FALSE
        OBVIOUS
    <2>1. PICK n \in S : \A m \in S : n <= m
        <3>1. S \in SUBSET Nat
            OBVIOUS
        <3>2. QED
            BY <3>1, LeastOf
    <2>2. n \in 0..Len(s) /\ drops[n] # h[n]
        BY <2>1
    <2>3. drops[n] = IF n = 0 THEN c ELSE Dropped(drops, c, n, threshold)
        BY <1>5, <1>11, <2>2 DEF IsDrops
    <2>4. n # 0
        BY <1>9, <2>2, <2>3
    <2>5. n - 1 \in 0..Len(s) /\ ~ (n <= n - 1) /\ n \in 1..Len(s)
        BY <2>2, <2>4
    <2>6. drops[n - 1] = h[n - 1]
        BY <2>1, <2>5
    <2>7. Dropped(drops, c, n, threshold) = Dropped(h, c, n, threshold)
        BY <2>6 DEF Dropped
    <2>8. QED
        BY <1>8, <2>2, <2>3, <2>4, <2>5, <2>7
<1>14. EvictedBefore(c, threshold) = left(k)
    <2>1. Len(s) \in 0..Len(s) /\ gone(Len(s)) = k
        BY <1>4
    <2>2. QED
        BY <1>12, <1>13, <2>1 DEF h
<1>15. HeldAfter(s, k) = {e \in W : e >= threshold}
    <2>1. \A i \in k + 1..Len(s) : i \in 1..Len(s) /\ ~ (i <= k)
        BY <1>4
    <2>2. \A i \in 1..Len(s) : ~ (i <= k) => i \in k + 1..Len(s)
        BY <1>4
    <2>3. \A i \in 1..Len(s) : s[i] >= threshold <=> i \in k + 1..Len(s)
        BY <1>2, <1>3, <1>4, <2>1, <2>2
    <2>4. \A e : e \in HeldAfter(s, k) <=> \E i \in 1..Len(s) : e = s[i] /\ s[i] >= threshold
        BY <2>1, <2>3 DEF HeldAfter
    <2>5. QED
        BY <1>1, <2>4 DEF Held
<1>16. QED
    <2>1. /\ Rest(s, k) \in Seq(ValidDates) /\ Sorted(Rest(s, k))
          /\ Held(Rest(s, k)) = HeldAfter(s, k)
        BY <1>1, RestIs
    <2>2. W \in SUBSET ValidDates
        BY DEF Good
    <2> HIDE DEF gone
    <2>3. QED
        BY <1>14, <1>15, <2>1, <2>2 DEF Good, left

-----------------------------------------------------------------------------
(* The percentiles                                                         *)

\* Later dates have later anniversaries, or the same one after a leap day.
LEMMA AnniversariesAre ==
    ASSUME NEW d \in Nat, NEW w \in Windows
    PROVE  /\ SubtractYears(d, w) \in Int /\ SubtractYears(d, w) <= d
           /\ \A e \in Nat : d <= e => SubtractYears(d, w) <= SubtractYears(e, w)
<1>1. w \in Nat \ {0}
    BY PercentileAssumption
<1>2. \A e \in Nat : SubtractYears(e, w) \in {e - 3 * w, e - 3 * w - 1}
    BY <1>1 DEF SubtractYears
<1>3. ASSUME NEW e \in Nat, d < e PROVE SubtractYears(d, w) <= SubtractYears(e, w)
    BY <1>1, <1>3 DEF SubtractYears
<1>4. QED
    <2>1. ASSUME NEW e \in Nat, d <= e PROVE SubtractYears(d, w) <= SubtractYears(e, w)
        <3>1. d < e \/ d = e
            BY <2>1
        <3>2. SubtractYears(d, w) \in Int
            BY <1>1, <1>2
        <3>3. QED
            BY <1>3, <3>1, <3>2
    <2>2. QED
        BY <1>1, <1>2, <2>1

\* The rows are the dates of the bars, in order.
LEMMA OrderedIs ==
    ASSUME BarsOK
    PROVE  /\ Len(Ordered) \in Nat
           /\ \A n \in 1..Len(Ordered) : Ordered[n] \in DOMAIN bars /\ Ordered[n] \in Nat
           /\ \A d \in DOMAIN bars : \E n \in 1..Len(Ordered) : Ordered[n] = d
           /\ \A m, n \in 1..Len(Ordered) : m < n => Ordered[m] < Ordered[n]
           /\ DOMAIN Ordered = 1..Len(Ordered)
<1> DEFINE D == DOMAIN bars
           K == Cardinality(D)
           rank(d) == Cardinality({e \in D : e <= d})
           nth(n) == CHOOSE d \in D : rank(d) = n
<1>1. D \in SUBSET Nat /\ IsFiniteSet(D)
    BY DatesAreFinite DEF BarsOK
<1>2. /\ K \in Nat /\ \A d \in D : rank(d) \in 1..K
      /\ \A i \in 1..K : \E d \in D : rank(d) = i
      /\ \A d, e \in D : d < e => rank(d) < rank(e)
    <2>1. D \in SUBSET Int
        BY <1>1
    <2> HIDE DEF D
    <2>2. QED
        BY <1>1, <2>1, RanksAre
<1>3. Ordered = [n \in 1..K |-> nth(n)]
    BY DEF Ordered
<1> HIDE DEF D, K, rank
<1>4. \A n \in 1..K : nth(n) \in D /\ rank(nth(n)) = n
    BY <1>2
<1>5. \A d \in D : nth(rank(d)) = d
    <2> SUFFICES ASSUME NEW d \in D PROVE nth(rank(d)) = d
        OBVIOUS
    <2>1. nth(rank(d)) \in D /\ rank(nth(rank(d))) = rank(d) /\ rank(d) \in Int
        BY <1>2, <1>4
    <2>2. ~ (nth(rank(d)) < d) /\ ~ (d < nth(rank(d)))
        BY <1>2, <2>1
    <2>3. QED
        BY <1>1, <2>1, <2>2
<1> HIDE DEF nth
<1>6. Len(Ordered) = K /\ DOMAIN Ordered = 1..K /\ \A n \in 1..K : Ordered[n] = nth(n)
    BY <1>2, <1>3
<1>7. \A d \in D : \E n \in 1..K : Ordered[n] = d
    BY <1>2, <1>5, <1>6
<1>8. ASSUME NEW m \in 1..K, NEW n \in 1..K, m < n PROVE Ordered[m] < Ordered[n]
    <2>1. nth(m) \in D /\ nth(n) \in D /\ nth(m) \in Nat /\ nth(n) \in Nat
        BY <1>1, <1>4
    <2>2. nth(n) < nth(m) => n < m
        BY <1>2, <1>4, <2>1
    <2>3. nth(n) # nth(m)
        BY <1>4, <1>8
    <2>4. QED
        BY <1>2, <1>6, <1>8, <2>1, <2>2, <2>3
<1>9. QED
    BY <1>1, <1>2, <1>4, <1>6, <1>7, <1>8 DEF D

\* The bars of a window.
Sample(d, w) == {e \in ValidDates : e <= d /\ (w # AllHistory => e >= SubtractYears(d, w))}

\* One turn of the loop over the rows, and the function it looks up.
Rolled(g, n, w) ==
    LET c == EvictedBefore(g[n - 1], SubtractYears(Ordered[n], w))
    IN IF bars[Ordered[n]] = 0 THEN c ELSE SampleAdded(c, Ordered[n])

IsRolling(g, N, w) == g = [n \in 0..N |-> IF n = 0 THEN NewCounts ELSE Rolled(g, n, w)]

\* That function exists, so the counts are what the loop makes them.
LEMMA RollingIs ==
    ASSUME BarsOK, NEW w
    PROVE  IsRolling(CountsAt(w), Len(Ordered), w)
<1> DEFINE S == {N \in Nat : ~ \E g : IsRolling(g, N, w)}
           L == Len(Ordered)
<1>1. S = {}
    <2> SUFFICES ASSUME S # {} PROVE FALSE
        OBVIOUS
    <2>1. PICK N \in S : \A j \in S : N <= j
        BY LeastOf
    <2>2. N # 0
        <3>1. IsRolling([n \in 0..0 |-> NewCounts], 0, w)
            BY DEF IsRolling
        <3>2. QED
            BY <2>1, <3>1
    <2>3. N \in Nat /\ N - 1 \in Nat /\ ~ (N <= N - 1)
        BY <2>1, <2>2
    <2>4. PICK g : IsRolling(g, N - 1, w)
        BY <2>1, <2>3
    <2> DEFINE h == [n \in 0..N |-> IF n = N THEN Rolled(g, N, w) ELSE g[n]]
               f == [n \in 0..N |-> IF n = 0 THEN NewCounts ELSE Rolled(h, n, w)]
    <2>5. ASSUME NEW n \in 0..N PROVE h[n] = f[n]
        <3>1. n # 0 => n - 1 \in 0..N /\ n - 1 # N /\ h[n - 1] = g[n - 1]
            BY <2>3
        <3>2. n # 0 => Rolled(h, n, w) = Rolled(g, n, w)
            <4> HIDE DEF h
            <4>1. QED
                BY <3>1 DEF Rolled
        <3>3. n # N => n \in 0..N - 1 /\ g[n] = IF n = 0 THEN NewCounts ELSE Rolled(g, n, w)
            BY <2>3, <2>4 DEF IsRolling
        <3>4. f[n] = IF n = 0 THEN NewCounts ELSE Rolled(h, n, w)
            OBVIOUS
        <3>5. h[n] = IF n = N THEN Rolled(g, N, w) ELSE g[n]
            OBVIOUS
        <3> HIDE DEF h, f
        <3>6. QED
            BY <2>2, <3>2, <3>3, <3>4, <3>5
    <2>6. h = f
        <3>1. h = [n \in 0..N |-> h[n]] /\ f = [n \in 0..N |-> f[n]]
            OBVIOUS
        <3> HIDE DEF h, f
        <3>2. QED
            BY <2>5, <3>1
    <2>7. IsRolling(h, N, w)
        <3> HIDE DEF h
        <3>1. QED
            BY <2>6 DEF IsRolling
    <2>8. QED
        BY <2>1, <2>7
<1>2. L \in Nat
    BY OrderedIs
<1>3. \E g : IsRolling(g, L, w)
    BY <1>1, <1>2
<1>4. CountsAt(w) = CHOOSE g : IsRolling(g, L, w)
    BY DEF CountsAt, IsRolling, Rolled
<1> HIDE DEF L
<1>5. QED
    BY <1>3, <1>4 DEF L

\* After the nth row the counts are those of its window.
LEMMA RollingGood ==
    ASSUME BarsOK, NEW w \in Windows, NEW n \in 1..Len(Ordered)
    PROVE  Good(CountsAt(w)[n], Sample(Ordered[n], w))
<1> DEFINE L == Len(Ordered)
           counts == CountsAt(w)
           S == {i \in 1..L : ~ Good(counts[i], Sample(Ordered[i], w))}
<1>1. /\ L \in Nat /\ \A i \in 1..L : Ordered[i] \in DOMAIN bars /\ Ordered[i] \in Nat
      /\ \A d \in DOMAIN bars : \E i \in 1..L : Ordered[i] = d
      /\ \A i, j \in 1..L : i < j => Ordered[i] < Ordered[j]
    BY OrderedIs
<1>2. IsRolling(counts, L, w)
    BY RollingIs
<1>3. w # AllHistory
    BY PercentileAssumption DEF AllHistory
<1> HIDE DEF counts
<1> SUFFICES ASSUME S # {} PROVE FALSE
    BY DEF counts
<1>4. PICK i \in S : \A j \in S : i <= j
    <2>1. S \in SUBSET Nat
        OBVIOUS
    <2>2. QED
        BY <2>1, LeastOf
<1> HIDE DEF L
<1>5. i \in 1..L /\ i \in 0..L /\ i # 0 /\ i \in Nat /\ i - 1 \in 0..L
    BY <1>1, <1>4
<1> DEFINE d == Ordered[i]
           from == SubtractYears(d, w)
           before == IF i = 1 THEN {} ELSE Sample(Ordered[i - 1], w)
           kept == {e \in before : e >= from}
<1>6. counts[i] = Rolled(counts, i, w)
    BY <1>2, <1>5 DEF IsRolling
<1>7. Good(counts[i - 1], before)
    <2>1. CASE i = 1
        <3>1. counts[0] = NewCounts
            BY <1>1, <1>2 DEF IsRolling
        <3>2. QED
            BY <2>1, <3>1, NewCountsGood
    <2>2. CASE i # 1
        <3>1. i - 1 \in 1..L /\ ~ (i <= i - 1)
            BY <1>5, <2>2
        <3>2. QED
            BY <1>4, <2>2, <3>1
    <2>3. QED
        BY <2>1, <2>2
<1>8. d \in DOMAIN bars /\ d \in Nat /\ from \in Int /\ from <= d
    BY <1>1, <1>5, AnniversariesAre
<1> HIDE DEF d, from, before
<1>9. Good(EvictedBefore(counts[i - 1], from), kept)
    BY <1>7, <1>8, EvictedGood
<1>10. \A e \in ValidDates : e \in DOMAIN bars /\ e \in Nat /\ bars[e] # 0
    BY DatesAreFinite DEF ValidDates, BarsOK
<1>11. kept = {e \in ValidDates : e < d /\ e >= from}
    <2>1. CASE i = 1
        <3>1. \A e \in ValidDates : ~ (e < d)
            <4> SUFFICES ASSUME NEW e \in ValidDates, e < d PROVE FALSE
                OBVIOUS
            <4>1. PICK j \in 1..L : Ordered[j] = e
                BY <1>1, <1>10
            <4>2. j = 1 \/ i < j
                BY <1>1, <2>1, <4>1
            <4>3. d = e \/ d < e
                BY <1>1, <1>5, <2>1, <4>1, <4>2 DEF d
            <4>4. QED
                BY <1>8, <1>10, <4>3
        <3>2. QED
            BY <2>1, <3>1 DEF before
    <2>2. CASE i # 1
        <3> DEFINE p == Ordered[i - 1]
        <3>1. i - 1 \in 1..L /\ i - 1 < i
            BY <1>5, <2>2
        <3>2. p \in Nat /\ p < d
            BY <1>1, <1>5, <3>1 DEF d
        <3>3. SubtractYears(p, w) <= from /\ SubtractYears(p, w) \in Int
            <4>1. p <= d
                BY <1>8, <3>2
            <4> HIDE DEF p
            <4>2. QED
                BY <1>8, <3>2, <4>1, AnniversariesAre DEF from
        <3>4. \A e \in ValidDates : e < d => e <= p
            <4> SUFFICES ASSUME NEW e \in ValidDates, e < d, ~ (e <= p) PROVE FALSE
                OBVIOUS
            <4>1. PICK j \in 1..L : Ordered[j] = e
                BY <1>1, <1>10
            <4>2. j < i - 1 \/ j = i - 1 \/ j = i \/ i < j
                BY <1>1, <1>5, <4>1
            <4>3. e < p \/ e = p \/ e = d \/ d < e
                BY <1>1, <1>5, <3>1, <4>1, <4>2 DEF d
            <4> HIDE DEF p
            <4>4. QED
                BY <1>8, <1>10, <3>2, <4>3
        <3> HIDE DEF p
        <3>5. before = {e \in ValidDates : e <= p /\ e >= SubtractYears(p, w)}
            BY <1>3, <2>2 DEF before, Sample, p
        <3>6. \A e \in ValidDates :
                e < d /\ e >= from <=> (e <= p /\ e >= SubtractYears(p, w)) /\ e >= from
            BY <1>8, <1>10, <3>2, <3>3, <3>4
        <3>7. QED
            BY <3>5, <3>6
    <2>3. QED
        BY <2>1, <2>2
<1>12. Sample(d, w) = {e \in ValidDates : e <= d /\ e >= from}
    BY <1>3 DEF Sample, from
<1> DEFINE c == EvictedBefore(counts[i - 1], from)
<1>13. counts[i] = IF bars[d] = 0 THEN c ELSE SampleAdded(c, d)
    BY <1>6 DEF Rolled, d, from
<1> HIDE DEF c, kept
<1>14. CASE bars[d] = 0
    <2>1. d \notin ValidDates
        BY <1>14 DEF ValidDates
    <2>2. \A e \in ValidDates : e < d <=> e <= d
        BY <1>8, <1>10, <2>1
    <2>3. Sample(d, w) = kept
        BY <1>11, <1>12, <2>2
    <2>4. QED
        BY <1>4, <1>9, <1>13, <1>14, <2>3 DEF c, d
<1>15. CASE bars[d] # 0
    <2>1. d \in ValidDates
        BY <1>8, <1>15 DEF ValidDates
    <2>2. \A e \in ValidDates : e <= d <=> e < d \/ e = d
        BY <1>8, <1>10
    <2>3. d <= d /\ d >= from
        BY <1>8
    <2>4. Sample(d, w) = kept \cup {d}
        BY <1>11, <1>12, <2>1, <2>2, <2>3
    <2>5. \A e \in kept : e < d
        BY <1>11
    <2>6. Good(SampleAdded(c, d), kept \cup {d})
        BY <1>9, <2>1, <2>5, SampleAddedGood DEF c
    <2>7. QED
        BY <1>4, <1>13, <1>15, <2>4, <2>6 DEF d
<1>16. QED
    BY <1>14, <1>15

\* The three cases of percentile are those of _percentile_from_values.
LEMMA CountedPercentileIs ==
    ASSUME BarsOK, NEW c, NEW W, Good(c, W), NEW d \in W
    PROVE  CountedPercentile(c, bars[d]) = PercentileFromValues(W, bars[d])
<1> DEFINE v == bars[d]
           p == Place(d)
           P == Positive(W)
           N == Negative(W)
           notAbove(S) == {e \in S : bars[e] <= v}
<1>1. /\ W \in SUBSET ValidDates /\ P \in SUBSET ValidDates /\ N \in SUBSET ValidDates
      /\ \A e \in W : bars[e] \in Int /\ bars[e] # 0 /\ e \in ValidDates
      /\ c.all = TreeOf(W) /\ c.positive = TreeOf(P) /\ c.negative = TreeOf(N)
    <2>1. W \in SUBSET ValidDates
        BY DEF Good
    <2>2. P \in SUBSET ValidDates /\ N \in SUBSET ValidDates
        BY <2>1 DEF Positive, Negative
    <2>3. \A e \in W : bars[e] \in Int /\ bars[e] # 0
        BY <2>1, PlacesAre
    <2>4. c.all = TreeOf(W) /\ c.positive = TreeOf(P) /\ c.negative = TreeOf(N)
        BY DEF Good, Counts
    <2>5. QED
        BY <2>1, <2>2, <2>3, <2>4
<1>2. /\ TreeSize \in Nat /\ p \in 1..TreeSize /\ p - 1 \in 0..TreeSize /\ p \in 0..TreeSize
      /\ TreeSize \in 0..TreeSize
      /\ \A e \in W : Place(e) \in 1..TreeSize
      /\ \A e \in W : Place(e) <= p <=> bars[e] <= v
      /\ \A e \in W : p <= Place(e) <=> v <= bars[e]
    <2>1. TreeSize \in Nat /\ \A e \in W : Place(e) \in 1..TreeSize
        BY <1>1, PlacesAre
    <2>2. \A e \in W : (Place(e) <= p <=> bars[e] <= v) /\ (p <= Place(e) <=> v <= bars[e])
        BY <1>1, PlacesAre
    <2> HIDE DEF v, p
    <2>3. p \in 1..TreeSize
        BY <2>1 DEF p
    <2>4. QED
        BY <2>1, <2>2, <2>3
<1>3. \A S \in SUBSET ValidDates, i \in 0..TreeSize :
        PrefixSum(TreeOf(S), i) = Cardinality(UpTo(S, i))
    BY PrefixSumIs
<1>4. ASSUME NEW S \in SUBSET W
      PROVE  /\ UpTo(S, TreeSize) = S
             /\ UpTo(S, p) = notAbove(S)
             /\ UpTo(S, p - 1) = {e \in S : bars[e] < v}
             /\ S \in SUBSET ValidDates /\ IsFiniteSet(S) /\ Cardinality(S) \in Nat
    <2> HIDE DEF p
    <2>1. \A e \in S : Place(e) <= TreeSize
        BY <1>2
    <2>2. \A e \in S : Place(e) <= p - 1 <=> bars[e] < v
        <3> SUFFICES ASSUME NEW e \in S PROVE Place(e) <= p - 1 <=> bars[e] < v
            OBVIOUS
        <3>1. Place(e) \in Int /\ p \in Int /\ bars[e] \in Int /\ v \in Int
            BY <1>1, <1>2
        <3>2. p <= Place(e) <=> v <= bars[e]
            BY <1>2
        <3>3. QED
            BY <3>1, <3>2
    <2>3. S \in SUBSET ValidDates /\ IsFiniteSet(S) /\ Cardinality(S) \in Nat
        BY <1>1, PlacesAre
    <2>4. QED
        BY <1>2, <2>1, <2>2, <2>3 DEF UpTo
<1>5. P \in SUBSET W /\ N \in SUBSET W
    BY DEF Positive, Negative
<1>6. /\ PrefixSum(c.all, TreeSize) = Cardinality(W)
      /\ PrefixSum(c.positive, TreeSize) = Cardinality(P)
      /\ PrefixSum(c.negative, TreeSize) = Cardinality(N)
      /\ PrefixSum(c.all, p) = Cardinality(notAbove(W))
      /\ PrefixSum(c.positive, p) = Cardinality(notAbove(P))
      /\ PrefixSum(c.negative, p - 1) = Cardinality({e \in N : bars[e] < v})
    <2> HIDE DEF P, N, p, v, notAbove
    <2>1. /\ PrefixSum(TreeOf(W), TreeSize) = Cardinality(W)
          /\ PrefixSum(TreeOf(P), TreeSize) = Cardinality(P)
          /\ PrefixSum(TreeOf(N), TreeSize) = Cardinality(N)
        BY <1>1, <1>2, <1>3, <1>4, <1>5
    <2>2. /\ PrefixSum(TreeOf(W), p) = Cardinality(notAbove(W))
          /\ PrefixSum(TreeOf(P), p) = Cardinality(notAbove(P))
        BY <1>1, <1>2, <1>3, <1>4, <1>5
    <2>3. PrefixSum(TreeOf(N), p - 1) = Cardinality({e \in N : bars[e] < v})
        <3>1. UpTo(N, p - 1) = {e \in N : bars[e] < v}
            BY <1>4, <1>5
        <3>2. PrefixSum(TreeOf(N), p - 1) = Cardinality(UpTo(N, p - 1))
            BY <1>1, <1>2, <1>3
        <3>3. QED
            BY <3>1, <3>2
    <2>4. QED
        BY <1>1, <2>1, <2>2, <2>3
<1>7. Cardinality(N) - Cardinality({e \in N : bars[e] < v}) = Cardinality({e \in N : bars[e] >= v})
    <2> DEFINE A == {e \in N : bars[e] < v}
               B == {e \in N : bars[e] >= v}
    <2>1. \A e \in N : bars[e] \in Int /\ v \in Int
        BY <1>1, <1>5
    <2>2. N = A \cup B /\ A \cap B = {} /\ A \in SUBSET W /\ B \in SUBSET W
        BY <1>5, <2>1
    <2> HIDE DEF A, B, N
    <2>3. /\ IsFiniteSet(A) /\ IsFiniteSet(B)
          /\ Cardinality(A) \in Nat /\ Cardinality(B) \in Nat
        BY <1>4, <2>2
    <2>4. Cardinality(N) = Cardinality(A) + Cardinality(B) - Cardinality({})
        BY <2>2, <2>3, FS_Union
    <2>5. Cardinality(N) = Cardinality(A) + Cardinality(B)
        BY <2>3, <2>4, FS_EmptySet
    <2>6. Cardinality(N) - Cardinality(A) = Cardinality(B)
        BY <2>3, <2>5
    <2>7. QED
        BY <2>6 DEF A, B, N
<1>8. CountedPercentile(c, v) =
        CASE v < 0 -> <<Cardinality(P) + Cardinality(N) - Cardinality({e \in N : bars[e] < v}),
                        Cardinality(W)>>
          [] v > 0 /\ Cardinality(N) > 0 -> <<Cardinality(notAbove(P)), Cardinality(P)>>
          [] OTHER -> <<Cardinality(notAbove(W)), Cardinality(W)>>
    <2>1. p = IndexOf(v)
        BY DEF Place
    <2> HIDE DEF P, N, p, v, notAbove
    <2>2. QED
        BY <1>6, <2>1 DEF CountedPercentile
<1>9. PercentileFromValues(W, v) =
        CASE W = {} -> Undefined
          [] W # {} /\ v < 0 -> <<Cardinality(P) + Cardinality({e \in N : bars[e] >= v}), Cardinality(W)>>
          [] v > 0 /\ N # {} -> <<Cardinality(notAbove(P)), Cardinality(P)>>
          [] OTHER -> <<Cardinality(notAbove(W)), Cardinality(W)>>
    BY DEF PercentileFromValues, Positive, Negative
<1>10. /\ W # {} /\ v \in Int /\ Cardinality(N) \in Nat /\ Cardinality(P) \in Nat
       /\ Cardinality(N) = 0 <=> N = {}
       /\ Cardinality({e \in N : bars[e] < v}) \in Nat
    <2>1. Cardinality(N) = 0 <=> N = {}
        BY <1>4, <1>5, FS_EmptySet
    <2>2. {e \in N : bars[e] < v} \in SUBSET W
        BY <1>5
    <2>3. QED
        BY <1>1, <1>4, <1>5, <2>1, <2>2
<1> HIDE DEF P, N, p, v, notAbove
<1>11. CASE v < 0
    <2>1. Cardinality(P) + Cardinality(N) - Cardinality({e \in N : bars[e] < v})
            = Cardinality(P) + Cardinality({e \in N : bars[e] >= v})
        BY <1>7, <1>10
    <2>2. QED
        BY <1>8, <1>9, <1>10, <1>11, <2>1 DEF v
<1>12. CASE ~ (v < 0)
    <2>1. Cardinality(N) > 0 <=> N # {}
        BY <1>10
    <2>2. QED
        BY <1>8, <1>9, <1>10, <1>12, <2>1 DEF v
<1>13. QED
    BY <1>11, <1>12

\* The first date of some.
LEMMA FirstIs ==
    ASSUME NEW S \in SUBSET Nat, S # {}
    PROVE  FirstOf(S) \in S /\ \A d \in S : FirstOf(S) <= d
BY LeastOf DEF FirstOf

\* What a percentile is, in terms of its window.
LEMMA PercentileIs ==
    ASSUME BarsOK, NEW d \in DOMAIN bars, NEW w \in Windows \cup {AllHistory}
    PROVE  PercentileOf(d, w)
             = IF bars[d] # 0 /\ (w # AllHistory => LongEnough(d, w))
               THEN PercentileFromValues(Sample(d, w), bars[d]) ELSE Undefined
<1> DEFINE v == bars[d]
           first == FirstOf(ValidDates)
           from == IF w = AllHistory THEN first ELSE SubtractYears(d, w)
           sample == {e \in ValidDates : from <= e /\ e <= d}
           ranked == IF v > 0 THEN {e \in sample : bars[e] > 0} ELSE sample
           notDearer == {e \in ranked : IF v > 0 THEN bars[e] <= v ELSE bars[e] > 0 \/ bars[e] >= v}
<1>1. PercentileOf(d, w)
        = IF v = 0 \/ first > from THEN Undefined
          ELSE <<Cardinality(notDearer), Cardinality(ranked)>>
    BY DEF PercentileOf
<1>2. CASE v = 0
    <2> HIDE DEF first, from, notDearer, ranked
    <2>1. QED
        BY <1>1, <1>2
<1>3. CASE v # 0
    <2>1. d \in ValidDates /\ ValidDates \in SUBSET Nat
        BY <1>3, DatesAreFinite DEF ValidDates, BarsOK
    <2>2. first \in ValidDates /\ \A e \in ValidDates : first <= e
        BY <2>1, FirstIs
    <2>3. d \in Nat /\ first \in Nat /\ from \in Int
        <3>1. w # AllHistory => SubtractYears(d, w) \in Int
            BY <2>1, AnniversariesAre
        <3> HIDE DEF first
        <3>2. QED
            BY <2>1, <2>2, <3>1
    <2>4. first > from <=> ~ (w # AllHistory => LongEnough(d, w))
        <3>1. w # AllHistory => (LongEnough(d, w) <=> first <= from)
            BY DEF LongEnough
        <3>2. w = AllHistory => from = first
            OBVIOUS
        <3> HIDE DEF first, from
        <3>3. QED
            BY <2>3, <3>1, <3>2
    <2>5. sample = Sample(d, w)
        <3>1. \A e \in ValidDates : e \in Nat
            BY <2>1
        <3>2. w = AllHistory => \A e \in ValidDates : from <= e
            BY <2>2
        <3>3. w # AllHistory => from = SubtractYears(d, w)
            OBVIOUS
        <3>4. \A e \in ValidDates : from <= e <=> e >= from
            BY <2>3, <3>1
        <3> HIDE DEF from, first
        <3>5. QED
            BY <3>2, <3>3, <3>4 DEF Sample
    <2> HIDE DEF first, from, sample
    <2> DEFINE W == Sample(d, w)
               P == {e \in W : bars[e] > 0}
               N == {e \in W : bars[e] < 0}
               notAbove(S) == {e \in S : bars[e] <= v}
    <2>6. PercentileFromValues(W, v) = <<Cardinality(notDearer), Cardinality(ranked)>>
        <3>1. /\ d \in W /\ v \in Int /\ v # 0
              /\ \A e \in W : bars[e] \in Int /\ bars[e] # 0
            <4>1. d \in W
                <5>1. d >= d /\ (w # AllHistory => d >= SubtractYears(d, w))
                    BY <2>3, AnniversariesAre
                <5>2. QED
                    BY <2>1, <2>3, <5>1 DEF Sample
            <4>2. \A e \in W : e \in ValidDates
                BY DEF Sample
            <4>3. QED
                BY <1>3, <2>1, <4>1, <4>2, PlacesAre
        <3>2. PercentileFromValues(W, v) =
                CASE W = {} -> Undefined
                  [] W # {} /\ v < 0 -> <<Cardinality(P) + Cardinality({e \in N : bars[e] >= v}), Cardinality(W)>>
                  [] v > 0 /\ N # {} -> <<Cardinality(notAbove(P)), Cardinality(P)>>
                  [] OTHER -> <<Cardinality(notAbove(W)), Cardinality(W)>>
            BY DEF PercentileFromValues
        <3>3. CASE v < 0
            <4> DEFINE B == {e \in N : bars[e] >= v}
            <4>1. notDearer = P \cup B /\ P \cap B = {} /\ ranked = W
                <5>1. ranked = W
                    BY <2>5, <3>1, <3>3
                <5>2. \A e \in W : bars[e] > 0 \/ bars[e] >= v
                                    <=> bars[e] > 0 \/ (bars[e] < 0 /\ bars[e] >= v)
                    BY <3>1, <3>3
                <5>3. \A e \in W : ~ (bars[e] > 0 /\ bars[e] < 0)
                    BY <3>1
                <5>4. notDearer = {e \in W : bars[e] > 0 \/ bars[e] >= v}
                    BY <3>1, <3>3, <5>1
                <5> HIDE DEF notDearer, ranked, W, v
                <5>5. notDearer = P \cup B
                    BY <5>2, <5>4
                <5>6. P \cap B = {}
                    BY <5>3
                <5>7. QED
                    BY <5>1, <5>5, <5>6
            <4>2. P \in SUBSET ValidDates /\ B \in SUBSET ValidDates
                BY DEF Sample
            <4> HIDE DEF P, B, notDearer, ranked
            <4>3. IsFiniteSet(P) /\ IsFiniteSet(B) /\ Cardinality(P) \in Nat /\ Cardinality(B) \in Nat
                BY <4>2, PlacesAre
            <4>4. Cardinality(notDearer) = Cardinality(P) + Cardinality(B) - Cardinality({})
                BY <4>1, <4>3, FS_Union
            <4>5. Cardinality(notDearer) = Cardinality(P) + Cardinality(B)
                BY <4>3, <4>4, FS_EmptySet
            <4>6. W # {}
                BY <3>1
            <4>7. PercentileFromValues(W, v) = <<Cardinality(P) + Cardinality(B), Cardinality(W)>>
                <5>1. PercentileFromValues(W, v) =
                        CASE W = {} -> Undefined
                          [] W # {} /\ v < 0 -> <<Cardinality(P) + Cardinality(B), Cardinality(W)>>
                          [] v > 0 /\ N # {} -> <<Cardinality(notAbove(P)), Cardinality(P)>>
                          [] OTHER -> <<Cardinality(notAbove(W)), Cardinality(W)>>
                    BY <3>2 DEF B, P
                <5>2. ~ (v > 0)
                    BY <3>1, <3>3
                <5> HIDE DEF W, N, v, notAbove
                <5>3. QED
                    BY <3>3, <4>6, <5>1, <5>2
            <4>8. QED
                BY <4>1, <4>5, <4>7
        <3>4. CASE ~ (v < 0)
            <4>1. v > 0
                BY <3>1, <3>4
            <4>2. ranked = P /\ notDearer = notAbove(P)
                BY <2>5, <4>1
            <4>3. N = {} => W = P
                BY <3>1
            <4> HIDE DEF notDearer, ranked, W, v, N, P
            <4>4. W # {}
                BY <3>1
            <4>5. CASE N = {}
                <5>1. PercentileFromValues(W, v) = <<Cardinality(notAbove(W)), Cardinality(W)>>
                    BY <3>2, <3>4, <4>4, <4>5
                <5>2. QED
                    BY <4>2, <4>3, <4>5, <5>1
            <4>6. CASE N # {}
                <5>1. PercentileFromValues(W, v) = <<Cardinality(notAbove(P)), Cardinality(P)>>
                    BY <3>2, <3>4, <4>1, <4>4, <4>6
                <5>2. QED
                    BY <4>2, <5>1
            <4>7. QED
                BY <4>5, <4>6
        <3>5. QED
            BY <3>3, <3>4
    <2> HIDE DEF notDearer, ranked, W
    <2>7. QED
        BY <1>1, <1>3, <2>4, <2>6 DEF W
<1>4. QED
    BY <1>2, <1>3

\* _compute_all_history_percentiles leaves the two cases out that it cannot meet.
LEMMA AllHistoryIs ==
    ASSUME BarsOK, NEW d \in ValidDates
    PROVE  AllHistoryPercentile(d) = PercentileFromValues(Sample(d, AllHistory), bars[d])
<1> DEFINE v == bars[d]
           W == Sample(d, AllHistory)
           P == {e \in W : bars[e] > 0}
           N == {e \in W : bars[e] < 0}
           notAbove(S) == {e \in S : bars[e] <= v}
<1>1. /\ d \in W /\ v \in Int /\ v # 0
      /\ \A e \in W : bars[e] \in Int /\ bars[e] # 0
    <2>1. d \in Nat
        BY DatesAreFinite DEF ValidDates, BarsOK
    <2>2. d \in W /\ \A e \in W : e \in ValidDates
        BY <2>1 DEF Sample
    <2>3. QED
        BY <2>2, PlacesAre
<1>2. PercentileFromValues(W, v) =
        CASE W = {} -> Undefined
          [] W # {} /\ v < 0 -> <<Cardinality(P) + Cardinality({e \in N : bars[e] >= v}), Cardinality(W)>>
          [] v > 0 /\ N # {} -> <<Cardinality(notAbove(P)), Cardinality(P)>>
          [] OTHER -> <<Cardinality(notAbove(W)), Cardinality(W)>>
    BY DEF PercentileFromValues
<1>3. AllHistoryPercentile(d)
        = IF v > 0 THEN <<Cardinality(notAbove(P)), Cardinality(P)>>
          ELSE <<Cardinality(P) + Cardinality({e \in W \ P : bars[e] >= v}), Cardinality(W)>>
    <2>1. W = {e \in ValidDates : e <= d}
        BY DEF Sample
    <2> HIDE DEF W
    <2>2. QED
        BY <2>1 DEF AllHistoryPercentile
<1>4. W \ P = N /\ W # {} /\ (N = {} => W = P)
    BY <1>1
<1> HIDE DEF W, P, N, v, notAbove
<1>5. CASE v < 0
    <2>1. ~ (v > 0)
        BY <1>1, <1>5
    <2>2. QED
        BY <1>2, <1>3, <1>4, <1>5, <2>1 DEF v, W
<1>6. CASE v > 0
    <2>1. ~ (v < 0)
        BY <1>1, <1>6
    <2>2. CASE N = {}
        BY <1>2, <1>3, <1>4, <1>6, <2>1, <2>2 DEF v, W
    <2>3. CASE N # {}
        BY <1>2, <1>3, <1>4, <1>6, <2>1, <2>3 DEF v, W
    <2>4. QED
        BY <2>2, <2>3
<1>7. QED
    BY <1>1, <1>5, <1>6

\* Both computations give the percentiles of the bars: the rolling one ...
LEMMA ComputedIs ==
    ASSUME BarsOK, NEW d \in DOMAIN bars, NEW w \in Windows \cup {AllHistory}
    PROVE  Computed[d][w] = PercentileOf(d, w)
<1> DEFINE counts == [x \in Windows |-> CountsAt(x)]
           row(n, x) == LET e == Ordered[n] IN
               CASE bars[e] = 0 -> Undefined
                 [] bars[e] # 0 /\ x = AllHistory -> AllHistoryPercentile(e)
                 [] OTHER -> IF LongEnough(e, x) THEN CountedPercentile(counts[x][n], bars[e])
                             ELSE Undefined
           n == CHOOSE i \in DOMAIN Ordered : Ordered[i] = d
<1>1. Computed[d][w] = row(n, w)
    BY DEF Computed
<1>2. n \in 1..Len(Ordered) /\ Ordered[n] = d
    BY OrderedIs
<1> HIDE DEF n
<1>3. row(n, w) =
        CASE bars[d] = 0 -> Undefined
          [] bars[d] # 0 /\ w = AllHistory -> AllHistoryPercentile(d)
          [] OTHER -> IF LongEnough(d, w) THEN CountedPercentile(counts[w][n], bars[d])
                      ELSE Undefined
    BY <1>2
<1>4. PercentileOf(d, w)
        = IF bars[d] # 0 /\ (w # AllHistory => LongEnough(d, w))
          THEN PercentileFromValues(Sample(d, w), bars[d]) ELSE Undefined
    BY PercentileIs
<1>5. CASE bars[d] = 0
    <2>1. row(n, w) = Undefined
        <3> HIDE DEF row, counts
        <3>1. QED
            BY <1>3, <1>5
    <2> HIDE DEF row
    <2>2. QED
        BY <1>1, <1>4, <1>5, <2>1
<1>6. CASE bars[d] # 0 /\ w = AllHistory
    <2>1. AllHistoryPercentile(d) = PercentileFromValues(Sample(d, w), bars[d])
        BY <1>6, AllHistoryIs DEF ValidDates
    <2>2. QED
        BY <1>1, <1>3, <1>4, <1>6, <2>1
<1>7. CASE bars[d] # 0 /\ w # AllHistory
    <2>1. w \in Windows /\ d \in ValidDates
        BY <1>7 DEF ValidDates
    <2>2. counts[w][n] = CountsAt(w)[n]
        BY <2>1
    <2>3. Good(counts[w][n], Sample(d, w))
        BY <1>2, <2>1, <2>2, RollingGood
    <2>4. d \in Sample(d, w)
        <3>1. d \in Nat
            BY DatesAreFinite DEF BarsOK
        <3>2. d <= d /\ d >= SubtractYears(d, w)
            BY <2>1, <3>1, AnniversariesAre
        <3>3. QED
            BY <2>1, <3>2 DEF Sample
    <2>5. CountedPercentile(counts[w][n], bars[d]) = PercentileFromValues(Sample(d, w), bars[d])
        BY <2>3, <2>4, CountedPercentileIs
    <2> HIDE DEF counts
    <2>6. QED
        BY <1>1, <1>3, <1>4, <1>7, <2>5
<1>8. QED
    BY <1>5, <1>6, <1>7

\* ... and the one that only appends.
LEMMA AppendOnlyIs ==
    ASSUME BarsOK, NEW fresh \in SUBSET DOMAIN bars, NEW d \in fresh,
           NEW w \in Windows \cup {AllHistory}
    PROVE  AppendOnly(fresh)[d][w] = PercentileOf(d, w)
<1>1. AppendOnly(fresh)[d][w]
        = IF bars[d] # 0 /\ (w # AllHistory => LongEnough(d, w))
          THEN PercentileFromValues(Sample(d, w), bars[d]) ELSE Undefined
    BY DEF AppendOnly, Sample
<1>2. QED
    BY <1>1, PercentileIs

\* The last date of some.
LEMMA LastIs ==
    ASSUME NEW S \in SUBSET BarDates, S # {}
    PROVE  LastOf(S) \in S /\ \A d \in S : d <= LastOf(S)
<1> DEFINE M == 3 * LastYear + 2
           T == {M - d : d \in S}
<1>1. M \in Nat /\ \A d \in S : d \in Nat /\ d <= M
    <2>1. \A y \in 0..LastYear, d \in 0..1 : 3 * y + d \in 0..3 * LastYear + 2
        BY PercentileAssumption
    <2>2. \A y \in LeapYears : 3 * y + 2 \in 0..3 * LastYear + 2
        BY PercentileAssumption
    <2>3. QED
        BY <2>1, <2>2, PercentileAssumption DEF BarDates
<1> HIDE DEF M
<1>2. T \in SUBSET Nat /\ T # {}
    BY <1>1
<1>3. PICK t \in T : \A u \in T : t <= u
    BY <1>2, LeastOf
<1>4. PICK d \in S : t = M - d
    BY <1>3
<1>5. \A e \in S : M - d <= M - e
    BY <1>3, <1>4
<1>6. \A e \in S : d >= e
    BY <1>1, <1>5
<1>7. LastOf(S) \in S /\ \A e \in S : LastOf(S) >= e
    BY <1>6 DEF LastOf
<1>8. QED
    BY <1>1, <1>7

\* The bars up to a date decide its percentiles.
LEMMA SamePercentile ==
    ASSUME BarsOK, BarsOK', NEW d \in DOMAIN bars, d \in DOMAIN bars',
           NEW w \in Windows \cup {AllHistory},
           \A e \in BarDates : e <= d =>
               /\ e \in DOMAIN bars <=> e \in DOMAIN bars'
               /\ e \in DOMAIN bars => bars'[e] = bars[e]
    PROVE  PercentileOf(d, w)' = PercentileOf(d, w)
<1> DEFINE v == bars[d]
           first == FirstOf(ValidDates)
           from == IF w = AllHistory THEN first ELSE SubtractYears(d, w)
           sample == {e \in ValidDates : from <= e /\ e <= d}
           ranked == IF v > 0 THEN {e \in sample : bars[e] > 0} ELSE sample
           notDearer == {e \in ranked : IF v > 0 THEN bars[e] <= v ELSE bars[e] > 0 \/ bars[e] >= v}
           result == IF v = 0 \/ first > from THEN Undefined
                     ELSE <<Cardinality(notDearer), Cardinality(ranked)>>
<1>1. PercentileOf(d, w) = result /\ PercentileOf(d, w)' = result'
    BY DEF PercentileOf
<1>2. v' = v
    <2>1. d \in BarDates
        BY DEF BarsOK
    <2>2. d \in Nat
        BY <2>1, DatesAreFinite
    <2>3. d <= d
        BY <2>2
    <2>4. QED
        BY <2>1, <2>3
<1>3. CASE v = 0
    <2> HIDE DEF v, first, from, ranked, notDearer
    <2>1. QED
        BY <1>1, <1>2, <1>3 DEF Undefined
<1>4. CASE v # 0
    <2>1. /\ ValidDates \in SUBSET Nat /\ ValidDates' \in SUBSET Nat /\ d \in Nat
          /\ d \in ValidDates /\ d \in ValidDates'
        BY <1>2, <1>4, DatesAreFinite DEF ValidDates, BarsOK
    <2>2. \A e \in Nat : e <= d => (e \in ValidDates <=> e \in ValidDates')
        BY DEF ValidDates, BarsOK
    <2>3. \A e \in ValidDates : e <= d => bars'[e] = bars[e]
        BY DEF ValidDates, BarsOK
    <2>4. first \in ValidDates /\ \A e \in ValidDates : first <= e
        BY <2>1, FirstIs
    <2>5. first' \in ValidDates' /\ \A e \in ValidDates' : first' <= e
        BY <2>1, FirstIs
    <2> HIDE DEF first
    <2>6. first' = first
        <3>1. first \in Nat /\ first' \in Nat /\ first <= d /\ first' <= d
            BY <2>1, <2>4, <2>5
        <3>2. first \in ValidDates' /\ first' \in ValidDates
            BY <2>2, <2>4, <2>5, <3>1
        <3>3. first' <= first /\ first <= first'
            BY <2>4, <2>5, <3>2
        <3>4. QED
            BY <3>1, <3>3
    <2>7. from' = from
        BY <2>6
    <2> HIDE DEF from, v
    <2>8. sample' = sample
        BY <2>1, <2>2, <2>7
    <2>9. \A e \in sample : bars'[e] = bars[e]
        BY <2>3
    <2> HIDE DEF sample
    <2>10. ranked' = ranked
        BY <1>2, <2>8, <2>9
    <2>11. \A e \in ranked : bars'[e] = bars[e]
        BY <2>9
    <2> HIDE DEF ranked
    <2>12. notDearer' = notDearer
        BY <1>2, <2>10, <2>11
    <2> HIDE DEF notDearer
    <2>13. QED
        BY <1>1, <1>2, <2>6, <2>7, <2>10, <2>12 DEF Undefined
<1>5. QED
    BY <1>3, <1>4

\* What the planned task is, and what the output holds.
TaskOK ==
    pctTask # NoTask =>
        /\ pctTask.mode \in {"full", "partial"}
        /\ pctTask.start \in BarDates \cup {NoDate}
        /\ pctTask.start # NoDate => pctTask.mode = "partial"

RowsOK ==
    /\ DOMAIN percentiles \in SUBSET DOMAIN bars
    /\ percentiles # <<>> => DOMAIN percentiles # {}

PercentileInv == BarsOK /\ TaskOK /\ RowsOK /\ PercentilesAreFull

\* A bar that comes, or changes, outdates no row before it.
LEMMA BarStep ==
    ASSUME PercentileInv, NEW d \in BarDates, NEW v \in BarValues \cup RestatedValues,
           bars' = [e \in DOMAIN bars \cup {d} |-> IF e = d THEN v ELSE bars[e]],
           UNCHANGED <<percentiles, pctTask>>,
           \/ UNCHANGED outdated /\ \A e \in DOMAIN bars : e < d
           \/ outdated' = outdated \cup {e \in DOMAIN bars' : e >= d}
    PROVE  PercentileInv'
<1> USE DEF PercentileInv
<1>1. BarsOK'
    BY PercentileAssumption DEF BarsOK
<1>2. TaskOK'
    BY DEF TaskOK
<1>3. RowsOK'
    BY DEF RowsOK
<1>4. PercentilesAreFull'
    <2> SUFFICES ASSUME percentiles # <<>>, NEW e \in DOMAIN bars' \ outdated',
                        FirstOf(DOMAIN percentiles) <= e, e <= LastOf(DOMAIN percentiles)
                 PROVE  /\ e \in DOMAIN percentiles
                        /\ \A w \in Windows \cup {AllHistory} :
                             percentiles[e][w] = PercentileOf(e, w)'
        BY DEF PercentilesAreFull
    <2>1. d \in Nat /\ e \in Nat /\ \A x \in BarDates : x \in Nat
        BY <1>1, DatesAreFinite DEF BarsOK
    <2>2. LastOf(DOMAIN percentiles) \in DOMAIN bars
        BY LastIs DEF RowsOK, BarsOK
    <2>3. e < d /\ e \notin outdated
        BY <2>1, <2>2 DEF BarsOK
    <2>4. e \in DOMAIN bars
        BY <2>1, <2>3
    <2>5. /\ e \in DOMAIN percentiles
          /\ \A w \in Windows \cup {AllHistory} : percentiles[e][w] = PercentileOf(e, w)
        BY <2>3, <2>4 DEF PercentilesAreFull
    <2>6. \A x \in BarDates : x <= e =>
             /\ x \in DOMAIN bars <=> x \in DOMAIN bars'
             /\ x \in DOMAIN bars => bars'[x] = bars[x]
        BY <2>1, <2>3
    <2>7. \A w \in Windows \cup {AllHistory} : PercentileOf(e, w)' = PercentileOf(e, w)
        BY <1>1, <2>4, <2>6, SamePercentile
    <2>8. QED
        BY <2>5, <2>7
<1>5. QED
    BY <1>1, <1>2, <1>3, <1>4

\* Whichever way they are computed, the rows a task writes are the percentiles.
LEMMA SelectedAre ==
    ASSUME BarsOK, TaskOK, pctTask # NoTask
    PROVE  /\ DOMAIN Selected(pctTask) = SelectedDates(pctTask)
           /\ SelectedDates(pctTask) \in SUBSET DOMAIN bars
           /\ \A d \in SelectedDates(pctTask), w \in Windows \cup {AllHistory} :
                Selected(pctTask)[d][w] = PercentileOf(d, w)
<1> DEFINE S == SelectedDates(pctTask)
           append == pctTask.mode = "partial" /\ pctTask.start = NoDate /\ percentiles # <<>>
           rows == IF append THEN AppendOnly(S) ELSE Computed
<1>1. Selected(pctTask) = [d \in S |-> rows[d]]
    BY DEF Selected
<1>2. S \in SUBSET DOMAIN bars
    <2> DEFINE A == {d \in DOMAIN bars : d >= pctTask.start}
               B == {d \in DOMAIN bars : d > LastOf(DOMAIN percentiles)}
    <2>1. S = A \/ S = B \/ S = DOMAIN bars
        <3>1. S = CASE pctTask.mode = "partial" /\ pctTask.start # NoDate -> A
                    [] pctTask.mode = "partial" /\ pctTask.start = NoDate /\ percentiles # <<>> -> B
                    [] OTHER -> DOMAIN bars
            BY DEF SelectedDates
        <3> HIDE DEF S, A, B
        <3>2. QED
            BY <3>1
    <2> HIDE DEF S
    <2>2. QED
        BY <2>1
<1> HIDE DEF S
<1>3. \A d \in S, w \in Windows \cup {AllHistory} : rows[d][w] = PercentileOf(d, w)
    <2> SUFFICES ASSUME NEW d \in S, NEW w \in Windows \cup {AllHistory}
                 PROVE  rows[d][w] = PercentileOf(d, w)
        OBVIOUS
    <2>1. d \in DOMAIN bars
        BY <1>2
    <2>2. Computed[d][w] = PercentileOf(d, w)
        BY <2>1, ComputedIs
    <2>3. AppendOnly(S)[d][w] = PercentileOf(d, w)
        BY <1>2, AppendOnlyIs
    <2>4. QED
        BY <2>2, <2>3
<1> HIDE DEF rows
<1>4. QED
    BY <1>1, <1>2, <1>3 DEF S

\* What is written, in each mode.
LEMMA WrittenStep ==
    ASSUME PercentileInv, TaskWritten
    PROVE  PercentileInv'
<1> USE DEF PercentileInv
<1> DEFINE t == pctTask
           rows == Selected(t)
           S == SelectedDates(t)
           P == DOMAIN percentiles
           forced == t.mode = "partial" /\ t.start # NoDate
           append == t.mode = "partial" /\ t.start = NoDate /\ percentiles # <<>>
           old == CASE t.mode = "full" -> {}
                    [] t.mode = "partial" /\ t.start = NoDate -> P
                    [] OTHER -> {d \in P : d < t.start}
<1>1. /\ t # NoTask /\ pctTask' = NoTask /\ bars' = bars
      /\ DOMAIN rows # {} /\ percentiles' = Merged(t, rows)
      /\ outdated' = (outdated \cup PassedOver(t)) \ DOMAIN rows
    BY DEF TaskWritten
<1>2. /\ DOMAIN rows = S /\ S \in SUBSET DOMAIN bars /\ S # {}
      /\ \A d \in S, w \in Windows \cup {AllHistory} : rows[d][w] = PercentileOf(d, w)
    BY <1>1, SelectedAre
<1>3. /\ t.mode \in {"full", "partial"} /\ t.start \in BarDates \cup {NoDate}
      /\ t.start # NoDate => t.mode = "partial"
    BY <1>1 DEF TaskOK
<1>4. percentiles' = [d \in old \cup S |-> IF d \in S THEN rows[d] ELSE percentiles[d]]
    <2>1. Merged(t, rows)
            = [d \in old \cup DOMAIN rows |-> IF d \in DOMAIN rows THEN rows[d] ELSE percentiles[d]]
        BY DEF Merged
    <2> HIDE DEF rows, old, S
    <2>2. QED
        BY <1>1, <1>2, <2>1
<1>5. \/ forced /\ S = {d \in DOMAIN bars : d >= t.start} /\ old = {d \in P : d < t.start}
      \/ append /\ S = {d \in DOMAIN bars : d > LastOf(P)} /\ old = P
      \/ S = DOMAIN bars /\ old \in SUBSET P
    <2> DEFINE later == {d \in DOMAIN bars : d >= t.start}
               new == {d \in DOMAIN bars : d > LastOf(P)}
               before == {d \in P : d < t.start}
    <2>1. S = CASE t.mode = "partial" /\ t.start # NoDate -> later
                [] t.mode = "partial" /\ t.start = NoDate /\ percentiles # <<>> -> new
                [] OTHER -> DOMAIN bars
        BY DEF SelectedDates
    <2>2. old = CASE t.mode = "full" -> {}
                  [] t.mode = "partial" /\ t.start = NoDate -> P
                  [] OTHER -> before
        OBVIOUS
    <2>3. before \in SUBSET P
        OBVIOUS
    <2> HIDE DEF S, old, P, later, new, before, t
    <2>4. CASE t.mode = "full"
        <3>1. S = DOMAIN bars /\ old = {}
            BY <1>3, <2>1, <2>2, <2>4
        <3>2. QED
            BY <3>1
    <2>5. CASE t.mode = "partial" /\ t.start = NoDate
        <3>1. /\ old = P
              /\ percentiles # <<>> => S = new
              /\ percentiles = <<>> => S = DOMAIN bars
            BY <2>1, <2>2, <2>5
        <3>2. QED
            BY <2>5, <3>1 DEF new
    <2>6. CASE t.mode = "partial" /\ t.start # NoDate
        <3>1. S = later /\ old = before
            BY <2>1, <2>2, <2>6
        <3>2. QED
            BY <2>6, <3>1 DEF later, before
    <2>7. QED
        BY <1>3, <2>4, <2>5, <2>6
<1> HIDE DEF t, rows, S, old
<1>6. /\ P \in SUBSET DOMAIN bars /\ DOMAIN bars \in SUBSET BarDates
      /\ old \in SUBSET P
      /\ percentiles # <<>> => P # {}
    BY <1>5 DEF RowsOK, BarsOK
<1>7. BarsOK' /\ TaskOK'
    BY <1>1 DEF BarsOK, TaskOK
<1>8. DOMAIN percentiles' = old \cup S /\ RowsOK'
    <2>1. DOMAIN percentiles' = old \cup S
        BY <1>4
    <2>2. old \cup S \in SUBSET DOMAIN bars' /\ old \cup S # {}
        BY <1>1, <1>2, <1>6
    <2>3. QED
        BY <2>1, <2>2 DEF RowsOK
<1>9. PercentilesAreFull'
    <2> DEFINE D == old \cup S
    <2> SUFFICES ASSUME NEW d \in DOMAIN bars \ outdated', FirstOf(D) <= d, d <= LastOf(D)
                 PROVE  /\ d \in D
                        /\ \A w \in Windows \cup {AllHistory} :
                             percentiles'[d][w] = PercentileOf(d, w)
        <3>1. \A d, w : PercentileOf(d, w)' = PercentileOf(d, w)
            BY <1>1 DEF PercentileOf, ValidDates
        <3>2. QED
            BY <1>1, <1>8, <3>1 DEF PercentilesAreFull
    <2> HIDE DEF D
    <2>1. D \in SUBSET BarDates /\ D # {} /\ d \in BarDates /\ D = old \cup S
        BY <1>2, <1>6 DEF D
    <2>2. D \in SUBSET Nat /\ P \in SUBSET Nat /\ P \in SUBSET BarDates /\ d \in Nat
          /\ DOMAIN bars \in SUBSET Nat /\ (t.start \in Nat \/ t.start = NoDate)
        BY <1>3, <1>6, <2>1, DatesAreFinite
    <2>3. FirstOf(D) \in D /\ \A e \in D : FirstOf(D) <= e
        BY <2>1, <2>2, FirstIs
    <2>4. P # {} => FirstOf(P) \in P /\ \A e \in P : FirstOf(P) <= e
        BY <2>2, FirstIs
    <2>5. P # {} => LastOf(P) \in P /\ \A e \in P : e <= LastOf(P)
        BY <2>2, LastIs
    <2>6. CASE d \in S
        BY <1>2, <1>4, <2>1, <2>6
    <2>7. CASE d \notin S
        <3>1. d \notin outdated /\ d \notin PassedOver(t)
            BY <1>1, <1>2, <2>7
        <3>2. d \in old /\ d \in P
              /\ \A w \in Windows \cup {AllHistory} : percentiles[d][w] = PercentileOf(d, w)
            <4>1. ASSUME P # {}, FirstOf(P) <= d, d <= LastOf(P)
                  PROVE  d \in P
                         /\ \A w \in Windows \cup {AllHistory} : percentiles[d][w] = PercentileOf(d, w)
                BY <1>6, <3>1, <4>1 DEF PercentilesAreFull
            <4>2. CASE forced /\ S = {e \in DOMAIN bars : e >= t.start} /\ old = {e \in P : e < t.start}
                <5>1. t.start \in Nat /\ d < t.start
                    BY <2>2, <2>7, <4>2
                <5>2. PICK e \in P : ~ (e < d)
                    BY <3>1, <5>1 DEF PassedOver
                <5>3. FirstOf(D) \in P
                    <6>1. FirstOf(D) \notin S
                        BY <2>2, <2>3, <4>2, <5>1
                    <6>2. QED
                        BY <1>6, <2>1, <2>3, <6>1
                <5>4. FirstOf(P) <= FirstOf(D) /\ e <= LastOf(P)
                    BY <2>4, <2>5, <5>2, <5>3
                <5>5. FirstOf(P) \in Nat /\ LastOf(P) \in Nat /\ e \in Nat /\ FirstOf(D) \in Nat
                    BY <2>2, <2>3, <2>4, <2>5, <5>2
                <5>6. FirstOf(P) <= d /\ d <= LastOf(P)
                    BY <2>2, <5>2, <5>4, <5>5
                <5>7. QED
                    BY <4>1, <4>2, <5>1, <5>2, <5>6
            <4>3. CASE append /\ S = {e \in DOMAIN bars : e > LastOf(P)} /\ old = P
                <5>1. P # {}
                    BY <1>6, <4>3
                <5>2. LastOf(P) \in Nat /\ FirstOf(P) \in Nat /\ FirstOf(D) \in Nat
                    BY <2>2, <2>3, <2>4, <2>5, <5>1
                <5>3. d <= LastOf(P)
                    BY <2>2, <2>7, <4>3, <5>2
                <5>4. FirstOf(P) <= FirstOf(D)
                    <6>1. CASE FirstOf(D) \in S
                        <7>1. FirstOf(P) \in D
                            BY <2>1, <2>4, <4>3, <5>1
                        <7>2. FirstOf(D) <= FirstOf(P) /\ FirstOf(P) <= LastOf(P)
                            BY <2>3, <2>4, <2>5, <5>1, <7>1
                        <7>3. FirstOf(D) > LastOf(P)
                            BY <4>3, <6>1
                        <7>4. QED
                            BY <5>2, <7>2, <7>3
                    <6>2. CASE FirstOf(D) \in P
                        BY <2>4, <5>1, <6>2
                    <6>3. QED
                        BY <2>1, <2>3, <4>3, <6>1, <6>2
                <5>5. FirstOf(P) <= d
                    BY <2>2, <5>2, <5>4
                <5>6. QED
                    BY <4>1, <4>3, <5>1, <5>3, <5>5
            <4>4. CASE S = DOMAIN bars
                BY <2>7, <4>4
            <4>5. QED
                BY <1>5, <4>2, <4>3, <4>4
        <3>3. percentiles'[d] = percentiles[d]
            BY <1>4, <2>7, <3>2
        <3>4. QED
            BY <2>1, <3>2, <3>3
    <2>8. QED
        BY <2>6, <2>7
<1>10. QED
    BY <1>7, <1>8, <1>9

\* Before the first run there is no output.
LEMMA PercentileInvInit == PercentileInit => PercentileInv
<1> SUFFICES ASSUME PercentileInit PROVE PercentileInv
    OBVIOUS
<1>1. DOMAIN bars = {} /\ DOMAIN percentiles = {}
    BY DEF PercentileInit
<1>2. QED
    BY <1>1 DEF PercentileInit, PercentileInv, BarsOK, TaskOK, RowsOK, PercentilesAreFull

\* Each step of the update, and of the bars behind it, keeps the invariant.
LEMMA PercentileInvStep == PercentileInv /\ [PercentileNext]_percentileVars => PercentileInv'
<1> SUFFICES ASSUME PercentileInv, [PercentileNext]_percentileVars PROVE PercentileInv'
    OBVIOUS
<1>1. ASSUME UNCHANGED <<bars, percentiles, outdated>>, TaskOK' PROVE PercentileInv'
    <2>1. \A d, w : PercentileOf(d, w)' = PercentileOf(d, w)
        BY <1>1 DEF PercentileOf, ValidDates
    <2>2. PercentilesAreFull'
        BY <1>1, <2>1 DEF PercentileInv, PercentilesAreFull
    <2>3. QED
        BY <1>1, <2>2 DEF PercentileInv, BarsOK, RowsOK
<1>2. ASSUME NEW d \in BarDates, NEW v \in BarValues, BarAdded(d, v) PROVE PercentileInv'
    BY <1>2, BarStep DEF BarAdded
<1>3. ASSUME NEW d \in BarDates, NEW v \in RestatedValues, BarRestated(d, v) PROVE PercentileInv'
    BY <1>3, BarStep DEF BarRestated
<1>4. ASSUME NEW mode \in {"full", "partial"}, NEW start \in BarDates \cup {NoDate},
             NEW force \in BOOLEAN, PlanPercentiles(mode, start, force)
      PROVE  PercentileInv'
    <2>1. /\ pctTask'.mode = mode /\ pctTask'.start = start
          /\ start # NoDate => mode = "partial"
          /\ UNCHANGED <<bars, percentiles, outdated>>
        BY <1>4 DEF PlanPercentiles
    <2>2. TaskOK'
        BY <2>1 DEF TaskOK
    <2>3. QED
        BY <1>1, <2>1, <2>2
<1>5. CASE TaskSkipped
    BY <1>1, <1>5 DEF TaskSkipped, TaskOK
<1>6. CASE TaskWritten
    BY <1>6, WrittenStep
<1>7. CASE TaskFails
    BY <1>1, <1>7 DEF TaskFails, TaskOK
<1>8. CASE UNCHANGED percentileVars
    BY <1>1, <1>8 DEF percentileVars, PercentileInv, TaskOK
<1>9. QED
    BY <1>2, <1>3, <1>4, <1>5, <1>6, <1>7, <1>8 DEF PercentileNext

\* Whichever runs computed them, all at once (valuation_percentile.py:214) or appended
\* (line 265), over whatever bars and leap years and for any windows, the rows stored are
\* the percentiles of the bars as they are, but those a later change of an earlier bar has
\* outdated and those a forced start passed over (line 714): the trees and rolling windows
\* count what the definition counts, and no merge keeps a row the run made stale.
THEOREM PercentilesStayFull == PercentileSpec => []PercentilesAreFull
<1>1. PercentileInit => PercentileInv
    BY PercentileInvInit
<1>2. PercentileInv /\ [PercentileNext]_percentileVars => PercentileInv'
    BY PercentileInvStep
<1>3. PercentileInv => PercentilesAreFull
    BY DEF PercentileInv
<1>4. QED
    BY <1>1, <1>2, <1>3, PTL DEF PercentileSpec

=============================================================================
