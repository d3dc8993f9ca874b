----------------------------- MODULE CapitalQueue -----------------------------
(***************************************************************************)
(* The queue of capital-structure refreshes: a factor task that stores     *)
(* factors other than before queues the code (update_daily_worker.py), and *)
(* a factor-only update that had no failure ends by draining the queue:    *)
(* one forced AkShare update per code (capital_structure_pending.py).      *)
(*                                                                         *)
(* The queue is one parquet file, replaced as a whole.  Each process has a *)
(* lock around its own reads and writes; nothing separates two processes.  *)
(* The file is a function from codes to the status of their active row, or *)
(* "success" if all their rows are done with, or "none".                   *)
(***************************************************************************)
EXTENDS Integers, FiniteSets

CONSTANTS
    QueueProcs,     \* processes that update factors: the daily run, a run by hand
    QueueCodes,
    MaxAnnounced    \* bound: share changes, of all codes together

NoCode == "no code"

ASSUME QueueAssumption == MaxAnnounced \in Nat /\ NoCode \notin QueueCodes

VARIABLES
    announced,      \* per code: how often its share structure has changed
    factor,         \* what the factor partition reflects
    shares,         \* what the capital-structure partition reflects
    queueFile,
    doing,          \* per process: "idle", "update", "drain"
    owing,          \* its codes with new factors stored and not yet queued
    locked,         \* the code it holds the lock for, with its copy of the file
    drained,        \* its drain: the copy, the rows to go, the code and what was fetched
    seen,           \* the file as it read it
    touched,        \* history: codes other processes queued since
    missed,         \* history: codes whose refresh was never queued
    overwritten     \* history: codes whose row an older copy of the file replaced, or
                    \* whose new structure an older answer replaced

dataVars == <<announced, factor, shares>>
stepVars == <<doing, owing, locked, drained, seen>>
pastVars == <<touched, missed, overwritten>>
queueVars == <<dataVars, queueFile, stepVars, pastVars>>

Retryable == {"pending", "failed_retryable"}
NoDrain == [rest |-> {}, code |-> NoCode, got |-> 0, copy |-> [c \in QueueCodes |-> "none"]]

QueueInit ==
    /\ announced = [c \in QueueCodes |-> 0]
    /\ factor = announced /\ shares = announced
    /\ queueFile = [c \in QueueCodes |-> "none"]
    /\ doing = [p \in QueueProcs |-> "idle"]
    /\ owing = [p \in QueueProcs |-> {}]
    /\ locked = [p \in QueueProcs |-> NoCode]
    /\ drained = [p \in QueueProcs |-> NoDrain]
    /\ seen = [p \in QueueProcs |-> queueFile]
    /\ touched = [p \in QueueProcs |-> {}]
    /\ missed = {} /\ overwritten = {}

-----------------------------------------------------------------------------

Changes == {x \in QueueCodes \X (1..MaxAnnounced) : x[2] <= announced[x[1]]}

\* A company announces a dividend or new shares: factors and share structure change.
Announce(c) ==
    /\ Cardinality(Changes) < MaxAnnounced
    /\ announced' = [announced EXCEPT ![c] = @ + 1]
    /\ UNCHANGED <<factor, shares, queueFile, stepVars, pastVars>>

BeginUpdate(p) ==
    /\ doing[p] = "idle"
    /\ doing' = [doing EXCEPT ![p] = "update"]
    /\ UNCHANGED <<dataVars, queueFile, owing, locked, drained, seen, pastVars>>

\* A task of the pool stores fetched factors that differ from the stored ones.
StoreChanged(p, c) ==
    /\ doing[p] = "update" /\ announced[c] # factor[c]
    /\ factor' = [factor EXCEPT ![c] = announced[c]]
    /\ owing' = [owing EXCEPT ![p] = @ \cup {c}]
    /\ UNCHANGED <<announced, shares, queueFile, doing, locked, drained, seen, pastVars>>

\* The repair tool stores the factors it fetched and queues nothing; the next comparison
\* finds no change.
RepairStores(c) ==
    /\ announced[c] # factor[c]
    /\ factor' = [factor EXCEPT ![c] = announced[c]]
    /\ missed' = missed \cup {c}
    /\ UNCHANGED <<announced, shares, queueFile, stepVars, touched, overwritten>>

\* enqueue_capital_structure_pending, under the process's lock: the file is read ...
EnqueueReads(p, c) ==
    /\ c \in owing[p] /\ locked[p] = NoCode
    /\ locked' = [locked EXCEPT ![p] = c]
    /\ seen' = [seen EXCEPT ![p] = queueFile]
    /\ touched' = [touched EXCEPT ![p] = {}]
    /\ UNCHANGED <<dataVars, queueFile, doing, owing, drained, missed, overwritten>>

\* A process replaces the file by its copy: rows that came after its read are gone.
Gone(p, copy) == {c \in touched[p] : copy[c] \notin Retryable}

\* ... and replaced: the active row of the code is made pending again, or one is added.
EnqueueWrites(p) ==
    /\ locked[p] # NoCode
    /\ LET c == locked[p] IN
       /\ queueFile' = [seen[p] EXCEPT ![c] = "pending"]
       /\ overwritten' = (overwritten \ {c}) \cup Gone(p, queueFile')
       /\ touched' = [q \in QueueProcs |-> IF q = p THEN {} ELSE touched[q] \cup {c}]
       /\ owing' = [owing EXCEPT ![p] = @ \ {c}]
       /\ missed' = missed \ {c}
    /\ locked' = [locked EXCEPT ![p] = NoCode]
    /\ UNCHANGED <<dataVars, doing, drained, seen>>

\* The queue cannot be written; the task logs it and goes on.
EnqueueFails(p) ==
    /\ locked[p] # NoCode
    /\ owing' = [owing EXCEPT ![p] = @ \ {locked[p]}]
    /\ missed' = missed \cup {locked[p]}
    /\ locked' = [locked EXCEPT ![p] = NoCode]
    /\ UNCHANGED <<dataVars, queueFile, doing, drained, seen, touched, overwritten>>

\* Every task is done; only a factor-only update without a failed row drains.
EndUpdate(p) ==
    /\ doing[p] = "update" /\ owing[p] = {}
    /\ doing' = [doing EXCEPT ![p] = "idle"]
    /\ UNCHANGED <<dataVars, queueFile, owing, locked, drained, seen, pastVars>>

\* drain_capital_structure_pending reads the file; an empty one ends it.
DrainReads(p) ==
    /\ doing[p] = "update" /\ owing[p] = {}
    /\ \E c \in QueueCodes : queueFile[c] # "none"
    /\ doing' = [doing EXCEPT ![p] = "drain"]
    /\ seen' = [seen EXCEPT ![p] = queueFile]
    /\ touched' = [touched EXCEPT ![p] = {}]
    /\ drained' = [drained EXCEPT ![p] =
          [NoDrain EXCEPT !.rest = {c \in QueueCodes : queueFile[c] \in Retryable},
                          !.copy = queueFile]]
    /\ UNCHANGED <<dataVars, queueFile, owing, locked, missed, overwritten>>

\* The update of the next code: its one task is planned and fetched.
RefreshFetches(p, c) ==
    /\ doing[p] = "drain" /\ drained[p].code = NoCode /\ c \in drained[p].rest
    /\ drained' = [drained EXCEPT ![p].rest = @ \ {c}, ![p].code = c, ![p].got = announced[c]]
    /\ UNCHANGED <<dataVars, queueFile, doing, owing, locked, seen, pastVars>>

\* _write_task_data: what is unchanged is not written again.
RefreshWrites(p) ==
    /\ doing[p] = "drain" /\ drained[p].code # NoCode
    /\ LET c == drained[p].code IN
       /\ shares' = [shares EXCEPT ![c] = drained[p].got]
       /\ overwritten' = IF drained[p].got < shares[c] THEN overwritten \cup {c} ELSE overwritten
       /\ drained' = [drained EXCEPT ![p].code = NoCode, ![p].copy[c] = "success"]
    /\ UNCHANGED <<announced, factor, queueFile, doing, owing, locked, seen, touched,
                   missed>>

\* Mutant: a failed refresh is given a status no drain looks for.
RefreshFailsForGood(p) ==
    /\ doing[p] = "drain" /\ drained[p].code # NoCode
    /\ drained' = [drained EXCEPT ![p].code = NoCode, ![p].copy[drained[p].code] = "success"]
    /\ UNCHANGED <<dataVars, queueFile, doing, owing, locked, seen, pastVars>>

\* No answer, an empty one for an active code, or a failed write.
RefreshFails(p) ==
    /\ doing[p] = "drain" /\ drained[p].code # NoCode
    /\ drained' = [drained EXCEPT ![p].code = NoCode,
                                  ![p].copy[drained[p].code] = "failed_retryable"]
    /\ UNCHANGED <<dataVars, queueFile, doing, owing, locked, seen, pastVars>>

\* The one write at the end of a drain.
DrainWrites(p) ==
    /\ doing[p] = "drain" /\ drained[p].code = NoCode /\ drained[p].rest = {}
    /\ queueFile' = drained[p].copy
    /\ overwritten' = overwritten \cup Gone(p, queueFile')
    /\ doing' = [doing EXCEPT ![p] = "idle"]
    /\ drained' = [drained EXCEPT ![p] = NoDrain]
    /\ UNCHANGED <<dataVars, owing, locked, seen, touched, missed>>

\* Nothing but the files survives.
QueueCrash(p) ==
    /\ doing[p] # "idle"
    /\ missed' = missed \cup owing[p]
    /\ doing' = [doing EXCEPT ![p] = "idle"]
    /\ owing' = [owing EXCEPT ![p] = {}]
    /\ locked' = [locked EXCEPT ![p] = NoCode]
    /\ drained' = [drained EXCEPT ![p] = NoDrain]
    /\ UNCHANGED <<dataVars, queueFile, seen, touched, overwritten>>

QueueNext ==
    \/ \E c \in QueueCodes : Announce(c) \/ RepairStores(c)
    \/ \E p \in QueueProcs :
        \/ BeginUpdate(p) \/ EnqueueWrites(p) \/ EnqueueFails(p) \/ EndUpdate(p)
        \/ DrainReads(p) \/ RefreshWrites(p) \/ RefreshFails(p) \/ DrainWrites(p)
        \/ QueueCrash(p)
        \/ \E c \in QueueCodes :
            StoreChanged(p, c) \/ EnqueueReads(p, c) \/ RefreshFetches(p, c)

QueueSpec == QueueInit /\ [][QueueNext]_queueVars

-----------------------------------------------------------------------------

\* A code whose stored factors are newer than its stored capital structure is queued, or
\* about to be, through failed refreshes and crashes in the middle of a drain
\* (capital_structure_pending.py:77).  The two ways out are named: the factors were stored
\* by the repair tool or by a task that died or failed before it queued the code
\* (update_daily_worker.py:104), and another process replaced the file by an older copy.
NothingOwedIsLost ==
    \A c \in QueueCodes \ (missed \cup overwritten) :
        shares[c] < factor[c] =>
            queueFile[c] \in Retryable \/ \E p \in QueueProcs : c \in owing[p]

=============================================================================
