---------------------------- MODULE DatasetStore ----------------------------
(***************************************************************************)
(* Upserts into the partitions of a data set (files parquet_store.py and   *)
(* duckdb_store.py of src/storage) and the inventory of the registry       *)
(* (data_registry.py), which each process brings up to date for the data   *)
(* sets it wrote when its run is finished.                                 *)
(*                                                                         *)
(* Files are replaced at once, through a temporary file; only the          *)
(* inventory is written in place.  The locks are those of a process: two   *)
(* processes are kept apart by nothing.  A data set has one partition,     *)
(* from keys to the version of their row, 0 if there is none; versions are *)
(* numbered in the order the upserts read their partitions.                *)
(***************************************************************************)
EXTENDS Integers, Sequences

CONSTANTS
    StoreProcs,
    DataSets,
    RowKeys,
    MaxWrites,      \* bound: upserts, of all processes
    WriteRetries    \* PARQUET_WRITE_MAX_RETRIES

ASSUME StoreAssumption == MaxWrites \in Nat /\ WriteRetries \in Nat \ {0}

VARIABLES
    partition,      \* the partition of each data set
    inventory,      \* the partition as the inventory describes it
    writing,        \* per process: what it is doing
    write,          \* its upsert: [set, key, version, existing, tries]
    tmpFile,        \* whether its temporary file is there
    dirty,          \* the data sets it has to refresh
    copy,           \* its copy of the inventory
    versions,       \* how many upserts have read their partition
    replaced,       \* history: the upserts that replaced a partition, in that order
    told,           \* history: the versions of those whose caller was told so
    behind,         \* history: data sets whose inventory row may be wrong
    touched         \* history: data sets other processes refreshed, or failed to, since
                    \* a process read the inventory

fileVars == <<partition, inventory>>
processVars == <<writing, write, tmpFile, dirty, copy>>
pastVars == <<versions, replaced, told, behind, touched>>
storeVars == <<fileVars, processVars, pastVars>>

NoWrite == "no write"
Empty == [k \in RowKeys |-> 0]
NoInventory == [d \in DataSets |-> [k \in RowKeys |-> MaxWrites + 1]]

StoreInit ==
    /\ partition = [d \in DataSets |-> Empty]
    /\ inventory = partition
    /\ writing = [p \in StoreProcs |-> "idle"]
    /\ write = [p \in StoreProcs |-> NoWrite]
    /\ tmpFile = [p \in StoreProcs |-> FALSE]
    /\ dirty = [p \in StoreProcs |-> {}]
    /\ copy = [p \in StoreProcs |-> NoInventory]
    /\ versions = 0 /\ replaced = <<>> /\ told = {} /\ behind = {}
    /\ touched = [p \in StoreProcs |-> {}]

\* Nothing will refresh these data sets, or they were.
Touched(p, sets) == [q \in StoreProcs |-> IF q = p THEN {} ELSE touched[q] \cup sets]

Goes(p, stage) == writing' = [writing EXCEPT ![p] = stage]

-----------------------------------------------------------------------------
(* _write_dataset_upsert_partition                                         *)

\* The partition is read; with skip_existing and the key in it that is all.
UpsertReads(p, d, k) ==
    /\ writing[p] = "idle" /\ versions < MaxWrites
    /\ versions' = versions + 1
    /\ write' = [write EXCEPT ![p] = [set |-> d, key |-> k, version |-> versions',
                                      existing |-> partition[d], tries |-> 0]]
    /\ Goes(p, "merged")
    /\ UNCHANGED <<fileVars, tmpFile, dirty, copy, replaced, told, behind, touched>>

\* _deduplicate_dataset_frame keeps the fresh row of a key.
Combined(w) == [w.existing EXCEPT ![w.key] = w.version]

\* atomic_write: the temporary file ...
WriteTmp(p) ==
    /\ writing[p] = "merged"
    /\ tmpFile' = [tmpFile EXCEPT ![p] = TRUE]
    /\ write' = [write EXCEPT ![p].tries = @ + 1]
    /\ Goes(p, "written")
    /\ UNCHANGED <<fileVars, dirty, copy, pastVars>>

\* ... replaces the partition ...
ReplaceFile(p) ==
    /\ writing[p] = "written" /\ tmpFile[p]
    /\ LET w == write[p] IN
       /\ partition' = [partition EXCEPT ![w.set] = Combined(w)]
       /\ replaced' = Append(replaced, [set |-> w.set, key |-> w.key, version |-> w.version,
                                        readBy |-> versions])
    /\ tmpFile' = [tmpFile EXCEPT ![p] = FALSE]
    /\ Goes(p, "replaced")
    /\ UNCHANGED <<inventory, write, dirty, copy, versions, told, behind, touched>>

\* Mutant: the last failure is not raised.
ReplaceFailsQuietly(p) ==
    /\ writing[p] = "written"
    /\ tmpFile' = [tmpFile EXCEPT ![p] = FALSE]
    /\ Goes(p, IF write[p].tries < WriteRetries THEN "merged" ELSE "replaced")
    /\ UNCHANGED <<fileVars, write, dirty, copy, pastVars>>

\* ... unless it is gone or the partition is held by a reader: it is tried again, and the
\* last failure is raised.
ReplaceFails(p) ==
    /\ writing[p] = "written"
    /\ tmpFile' = [tmpFile EXCEPT ![p] = FALSE]
    /\ IF write[p].tries < WriteRetries
       THEN Goes(p, "merged") /\ UNCHANGED write
       ELSE Goes(p, "idle") /\ write' = [write EXCEPT ![p] = NoWrite]
    /\ UNCHANGED <<fileVars, dirty, copy, pastVars>>

\* _upsert_partition_manifest_after_write (the row is left out), _mark_dataset_dirty, and
\* the caller gets its DatasetWriteResult.
MarkDirty(p) ==
    /\ writing[p] = "replaced"
    /\ dirty' = [dirty EXCEPT ![p] = @ \cup {write[p].set}]
    /\ told' = told \cup {write[p].version}
    /\ write' = [write EXCEPT ![p] = NoWrite]
    /\ Goes(p, "idle")
    /\ UNCHANGED <<fileVars, tmpFile, copy, versions, replaced, behind, touched>>

\* A process ends without a refresh of these data sets.
LeavesBehind(p, sets) ==
    /\ behind' = behind \cup sets
    /\ touched' = Touched(p, sets)
    /\ UNCHANGED <<versions, replaced, told>>

\* The manifest row cannot be written: the data set is not marked, the caller gets the
\* error.
ManifestFails(p) ==
    /\ writing[p] = "replaced"
    /\ LeavesBehind(p, {write[p].set})
    /\ write' = [write EXCEPT ![p] = NoWrite]
    /\ Goes(p, "idle")
    /\ UNCHANGED <<fileVars, tmpFile, dirty, copy>>

\* build_views of any process: _cleanup_tmp_parquet_files removes what it finds.
CleanUp(p) ==
    /\ tmpFile[p]
    /\ tmpFile' = [tmpFile EXCEPT ![p] = FALSE]
    /\ UNCHANGED <<fileVars, writing, write, dirty, copy, pastVars>>

-----------------------------------------------------------------------------
(* refresh_dirty_registry                                                  *)

\* Mutant: only the data sets asked for are written.
OthersDropped(d) == NoInventory[d]

\* The rows of the other data sets stay; a file that cannot be read has none.
Others(d) == inventory[d]

\* _scan_dataset_dir counts the rows of the files it finds and takes their last date.
Scanned(d) == partition[d]

\* The inventory is read and the dirty data sets are scanned.
RefreshReads(p) ==
    /\ writing[p] = "idle" /\ dirty[p] # {}
    /\ copy' = [copy EXCEPT ![p] =
          [d \in DataSets |-> IF d \in dirty[p] THEN Scanned(d) ELSE Others(d)]]
    /\ touched' = [touched EXCEPT ![p] = {}]
    /\ Goes(p, "refreshing")
    /\ UNCHANGED <<fileVars, write, tmpFile, dirty, versions, replaced, told, behind>>

\* The copy replaces what others wrote since.
RefreshWrites(p) ==
    /\ writing[p] = "refreshing"
    /\ inventory' = copy[p]
    /\ behind' = (behind \ dirty[p]) \cup touched[p]
    /\ touched' = Touched(p, dirty[p])
    /\ dirty' = [dirty EXCEPT ![p] = {}]
    /\ copy' = [copy EXCEPT ![p] = NoInventory]
    /\ Goes(p, "idle")
    /\ UNCHANGED <<partition, write, tmpFile, versions, replaced, told>>

\* The process is killed, an exception ends its run before the refresh, or the refresh
\* itself raises, which is only logged.  A kill in the middle of the write tears the file.
StoreStops(p, tears) ==
    /\ writing[p] # "idle" \/ dirty[p] # {}
    /\ tears => writing[p] = "refreshing"
    /\ inventory' = IF tears THEN NoInventory ELSE inventory
    /\ LeavesBehind(p, IF tears THEN DataSets
                       ELSE dirty[p] \cup (IF writing[p] = "replaced" THEN {write[p].set} ELSE {}))
    /\ dirty' = [dirty EXCEPT ![p] = {}]
    /\ copy' = [copy EXCEPT ![p] = NoInventory]
    /\ write' = [write EXCEPT ![p] = NoWrite]
    /\ tmpFile' = [tmpFile EXCEPT ![p] = FALSE]     \* it stays, but has no owner
    /\ Goes(p, "idle")
    /\ UNCHANGED partition

StoreNext == \E p \in StoreProcs :
    \/ \E d \in DataSets, k \in RowKeys : UpsertReads(p, d, k)
    \/ WriteTmp(p) \/ ReplaceFile(p) \/ ReplaceFails(p) \/ CleanUp(p)
    \/ MarkDirty(p) \/ ManifestFails(p)
    \/ RefreshReads(p) \/ RefreshWrites(p)
    \/ \E tears \in BOOLEAN : StoreStops(p, tears)

StoreSpec == StoreInit /\ [][StoreNext]_storeVars

-----------------------------------------------------------------------------

\* Overlapped(i): an upsert of the same partition read it before the i-th one had replaced
\* it, and replaced it afterwards.
Overlapped(i) ==
    \E j \in DOMAIN replaced :
        /\ j > i /\ replaced[j].set = replaced[i].set
        /\ replaced[j].version <= replaced[i].readBy

\* A row whose caller was told it is stored was put into its partition, though the
\* temporary file may be removed by the cleanup of another process (duckdb_store.py:109);
\* and a row put there stays, or a newer one of its key does, whatever rows of other keys
\* are written after it.  The one way out is an upsert that had read the partition before
\* and replaces it after: no lock holds the read and the replacement together
\* (parquet_store.py:513).
NoRowLost ==
    /\ \A v \in told : \E i \in DOMAIN replaced : replaced[i].version = v
    /\ \A i \in DOMAIN replaced :
          \/ partition[replaced[i].set][replaced[i].key] >= replaced[i].version
          \/ Overlapped(i)

\* The inventory describes the partition of every data set no process has still to
\* refresh.  The ways out are named: the process that wrote it stopped or failed before
\* its refresh, the copy of another one replaced its row, and a torn inventory
\* (data_registry.py:141).
InventoryAgrees ==
    \A d \in DataSets \ behind :
        \/ \E p \in StoreProcs : d \in dirty[p] \/ (writing[p] = "replaced" /\ write[p].set = d)
        \/ inventory[d] = partition[d]

=============================================================================
