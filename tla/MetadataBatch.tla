---------------------------- MODULE MetadataBatch ----------------------------
(***************************************************************************)
(* PipelineMetadataBatch (file src/pipeline/lifecycle.py) and the tables   *)
(* it is flushed to (file src/storage/metadata_store.py).  Threads add     *)
(* the rows of the tasks they finish; the one that fills the batch takes   *)
(* all rows out and stores them in one transaction, while others go on     *)
(* adding.                                                                 *)
(*                                                                         *)
(* Every add makes a run row and a checkpoint row, numbered alike.  The    *)
(* status rows are treated as the checkpoint rows are, under a shorter     *)
(* key, and are left out.                                                  *)
(***************************************************************************)
EXTENDS Integers, Sequences, SequencesExt, FiniteSets

CONSTANTS
    Threads,
    CheckpointKeys, \* pipeline, dataset, code, start_date and end_date
    NullKeys,       \* those with a NULL among them, which no = finds
    FlushSize,
    MaxAdds         \* bound: rows added

ASSUME BatchAssumption ==
    /\ NullKeys \subseteq CheckpointKeys
    /\ FlushSize \in Nat \ {0} /\ MaxAdds \in Nat

VARIABLES
    runRows, checkRows,     \* the rows not taken out yet, in order
    doingFlush,             \* per thread: "no", "asked", "storing"
    taken,                  \* per thread: the rows it is storing
    flushLock,              \* whether _flush_write_lock is held
    runTable, checkTable,   \* pipeline_runs, pipeline_checkpoints
    added                   \* history: the key of each row added

batchVars == <<runRows, checkRows, doingFlush, taken, flushLock, runTable, checkTable, added>>

NoRows == [runs |-> <<>>, checks |-> <<>>]

\* _create_tables
NoTables == runTable = <<>> /\ checkTable = {}

BatchInit ==
    /\ runRows = <<>> /\ checkRows = <<>>
    /\ doingFlush = [t \in Threads |-> "no"]
    /\ taken = [t \in Threads |-> NoRows]
    /\ flushLock = FALSE
    /\ NoTables /\ added = <<>>

-----------------------------------------------------------------------------

\* Where a key comes first ...
FirstRows(rows) == {n \in DOMAIN rows : \A m \in 1..n - 1 : rows[m].key # rows[n].key}

\* ... and the row in which it comes last.
LastRow(rows, k) ==
    rows[CHOOSE n \in DOMAIN rows :
            rows[n].key = k /\ \A m \in n + 1..Len(rows) : rows[m].key # k]

\* _dedupe_rows: the last row of each key, where its first one was.
Deduped(rows) ==
    LET firsts == FirstRows(rows)
        nth(i) == CHOOSE n \in firsts : Cardinality(firsts \cap 1..n) = i
    IN [i \in 1..Cardinality(firsts) |-> LastRow(rows, rows[nth(i)].key)]

\* success_rows, failure_rows and skipped_rows: the rows of a task, whatever its status.
TaskRows(k, n) == [run |-> n, checkpoint |-> [key |-> k, n |-> n]]

\* add: the rows are appended under the lock; the count tells whether to flush.
AddRows(t, k) ==
    /\ doingFlush[t] = "no" /\ Len(added) < MaxAdds
    /\ added' = Append(added, k)
    /\ LET rows == TaskRows(k, Len(added')) IN
       runRows' = Append(runRows, rows.run) /\ checkRows' = Append(checkRows, rows.checkpoint)
    /\ doingFlush' = [doingFlush EXCEPT ![t] = IF Len(runRows') >= FlushSize THEN "asked" ELSE @]
    /\ UNCHANGED <<taken, flushLock, runTable, checkTable>>

\* PipelineLifecycle.flush and finish.
AskFlush(t) ==
    /\ doingFlush[t] = "no" /\ runRows # <<>>
    /\ doingFlush' = [doingFlush EXCEPT ![t] = "asked"]
    /\ UNCHANGED <<runRows, checkRows, taken, flushLock, runTable, checkTable, added>>

\* Mutant: nothing separates two flushes.
MayTakeAnyway == TRUE

MayTake == ~flushLock

\* The rows are taken out, under both locks.
TakeRows(t) ==
    /\ doingFlush[t] = "asked" /\ MayTake
    /\ IF runRows = <<>>
       THEN /\ doingFlush' = [doingFlush EXCEPT ![t] = "no"]
            /\ UNCHANGED <<runRows, checkRows, taken, flushLock>>
       ELSE /\ doingFlush' = [doingFlush EXCEPT ![t] = "storing"]
            /\ taken' = [taken EXCEPT ![t] = [runs |-> runRows, checks |-> Deduped(checkRows)]]
            /\ runRows' = <<>> /\ checkRows' = <<>> /\ flushLock' = TRUE
    /\ UNCHANGED <<runTable, checkTable, added>>

\* DELETE the rows of the same key, INSERT the new ones.
Upserted(rows) ==
    LET dated == {rows[n].key : n \in DOMAIN rows} \ NullKeys IN
    {row \in checkTable : row.key \notin dated} \cup ToSet(rows)

\* The transaction is committed.
CommitRows(t) ==
    /\ doingFlush[t] = "storing"
    /\ runTable' = runTable \o taken[t].runs
    /\ checkTable' = Upserted(taken[t].checks)
    /\ taken' = [taken EXCEPT ![t] = NoRows]
    /\ doingFlush' = [doingFlush EXCEPT ![t] = "no"] /\ flushLock' = FALSE
    /\ UNCHANGED <<runRows, checkRows, added>>

\* The transaction fails: its rows are put back before those added since, and the
\* exception leaves add.
CommitFails(t) ==
    /\ doingFlush[t] = "storing"
    /\ runRows' = taken[t].runs \o runRows
    /\ checkRows' = taken[t].checks \o checkRows
    /\ taken' = [taken EXCEPT ![t] = NoRows]
    /\ doingFlush' = [doingFlush EXCEPT ![t] = "no"] /\ flushLock' = FALSE
    /\ UNCHANGED <<runTable, checkTable, added>>

BatchNext == \E t \in Threads :
    \/ \E k \in CheckpointKeys : AddRows(t, k)
    \/ AskFlush(t) \/ TakeRows(t) \/ CommitRows(t) \/ CommitFails(t)

BatchSpec == BatchInit /\ [][BatchNext]_batchVars

-----------------------------------------------------------------------------

Occurrences(n) ==
    Cardinality({i \in DOMAIN runTable : runTable[i] = n})
    + Cardinality({i \in DOMAIN runRows : runRows[i] = n})
    + Cardinality({p \in Threads \X (1..MaxAdds) :
                      p[2] \in DOMAIN taken[p[1]].runs /\ taken[p[1]].runs[p[2]] = n})

\* The rows of a key that are in the table, being stored and not taken out yet.
Numbers(rows, k) == {rows[n].n : n \in {m \in DOMAIN rows : rows[m].key = k}}
Kept(k) == {row.n : row \in {r \in checkTable : r.key = k}}
Storing(k) == UNION {Numbers(taken[t].checks, k) : t \in Threads}
Waiting(k) == Numbers(checkRows, k)

Before(S, T) == \A i \in S, j \in T : i < j

\* Whatever threads add while a flush is under way, and whether it fails or not
\* (lifecycle.py:116): no run row is lost or stored twice, and the rows of one task are
\* stored in the order they were added, so that its last outcome is never replaced by an
\* earlier one and is kept until it is stored.  The table has one checkpoint row for a key
\* whose parts are all known.
LastOutcomeWins ==
    /\ \A n \in DOMAIN added : Occurrences(n) = 1
    /\ \A k \in CheckpointKeys :
        /\ Before(Kept(k), Storing(k) \cup Waiting(k)) /\ Before(Storing(k), Waiting(k))
        /\ \A n \in DOMAIN added :
              added[n] = k => \E m \in Kept(k) \cup Storing(k) \cup Waiting(k) : m >= n
        /\ k \notin NullKeys => Cardinality(Kept(k)) <= 1

=============================================================================
