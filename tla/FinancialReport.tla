--------------------------- MODULE FinancialReport ---------------------------
(***************************************************************************)
(* update_akshare --target financial_report (file                          *)
(* sina/modules/financial_report_sina.py): which reports an incremental    *)
(* run fetches follows from the disclosure dates stored before, the date   *)
(* the last run without failures reached, and the rows of reports that     *)
(* were due and not there yet.                                             *)
(*                                                                         *)
(* Every code has one report period.  A row has the trigger date of the    *)
(* period and its priority: 1 if it is scheduled, 2 if changed, 3 if       *)
(* disclosed.  The lock of module AkShareKernel admits one run at a time.  *)
(***************************************************************************)
EXTENDS Integers, FiniteSets

CONSTANTS
    ReportCodes,
    MaxDate,        \* bound: the dates are 0..MaxDate
    Priorities,     \* the priorities a row may have
    MaxChanges,     \* bound: rows disclosed, of all codes together
    ReportLookback, \* incremental_lookback_days
    Retention       \* pending_retention_days

ASSUME ReportAssumption ==
    /\ MaxDate \in Nat /\ MaxChanges \in Nat /\ ReportLookback \in Nat /\ Retention \in Nat
    /\ Priorities \subseteq 1..3

Dates == 0..MaxDate
NoRow == [date |-> MaxDate + 1, priority |-> 0]
NoReportDate == MaxDate + 1
Incremental == "incremental"
Full == "full"

VARIABLES
    today,          \* the effective disclosure date: tomorrow from 18:00 on
    changes,        \* how many there were
    disclosed,      \* per code: the row the stored disclosure partitions give
    stored,         \* the codes whose partition has the period
    pendingRows,    \* per code: its row of the pending file
    lastEffective,  \* of the state file
    torn,           \* files a killed run left half written
    run,            \* the run: its mode, plan date, tasks, failures
    lost            \* history: codes a named cause keeps from being found

reportVars ==
    <<today, changes, disclosed, stored, pendingRows, lastEffective, torn, run, lost>>

NoReportRun == [mode |-> "none", date |-> NoReportDate, rest |-> {}, failed |-> FALSE,
                cut |-> {}, came |-> {}]

ReportInit ==
    /\ today = 0 /\ changes = 0
    /\ disclosed = [c \in ReportCodes |-> NoRow]
    /\ stored = {}
    /\ pendingRows = [c \in ReportCodes |-> NoRow]
    /\ lastEffective = NoReportDate /\ torn = {}
    /\ run = NoReportRun /\ lost = {}

Running == run.mode # "none"

-----------------------------------------------------------------------------
(* Plan                                                                    *)

Smaller(a, b) == IF a <= b THEN a ELSE b

\* _incremental_trigger_start_date
TriggerStart(date) ==
    IF lastEffective = NoReportDate THEN date - ReportLookback
    ELSE Smaller(date - ReportLookback, lastEffective)

\* _local_disclosure_candidates
InWindow(date) == {c \in ReportCodes : disclosed[c] # NoRow /\ disclosed[c].date <= date
                                       /\ disclosed[c].date >= TriggerStart(date)}

\* _active_pending_rows
Active(date) == {c \in ReportCodes : pendingRows[c] # NoRow /\ pendingRows[c].date <= date
                                     /\ pendingRows[c].date >= date - Retention}

\* _filter_uncovered_candidates
Uncovered == ReportCodes \ stored

ReportCandidates(date) == (InWindow(date) \cup Active(date)) \cap Uncovered

\* _merge_candidate_rows: the higher priority, then the later date.
MergedRow(a, b) ==
    IF a.priority > b.priority \/ (a.priority = b.priority /\ a.date >= b.date) THEN a ELSE b

TriggerRow(c, date) ==
    LET found == IF c \in InWindow(date) THEN disclosed[c] ELSE NoRow
        kept == IF c \in Active(date) THEN pendingRows[c] ELSE NoRow
    IN MergedRow(found, kept)

\* The pending file is written again with its active rows; --code or max_tasks may cut
\* the tasks.
PlanIncremental(codes) ==
    /\ ~Running /\ torn = {}
    /\ codes \subseteq ReportCandidates(today)
    /\ pendingRows' = [c \in ReportCodes |-> IF c \in Active(today) THEN pendingRows[c] ELSE NoRow]
    /\ run' = [NoReportRun EXCEPT
          !.mode = Incremental, !.date = today, !.cut = ReportCandidates(today) \ codes,
          !.rest = {<<c, TriggerRow(c, today)>> : c \in codes}]
    /\ UNCHANGED <<today, changes, disclosed, stored, lastEffective, torn, lost>>

\* A full run passes over the codes with a file, period or not, unless forced.
PlanFull(codes) ==
    /\ ~Running
    /\ run' = [NoReportRun EXCEPT
          !.mode = Full, !.date = today, !.rest = {<<c, NoRow>> : c \in codes}]
    /\ UNCHANGED <<today, changes, disclosed, stored, pendingRows, lastEffective, torn, lost>>

-----------------------------------------------------------------------------
(* Fetch and record                                                        *)

\* _update_pending_after_success: the row stays, or is added, until the period is there.
KeepRow(task, present) ==
    [pendingRows EXCEPT ![task[1]] = IF present THEN NoRow ELSE MergedRow(task[2], @)]

\* The answer is stored, with or without the period, and the pending file follows.
RecordReport(task, present) ==
    /\ task \in run.rest
    /\ stored' = IF present THEN stored \cup {task[1]} ELSE stored
    /\ pendingRows' = IF run.mode = Incremental THEN KeepRow(task, present) ELSE pendingRows
    /\ run' = [run EXCEPT !.rest = @ \ {task}]
    /\ UNCHANGED <<today, changes, disclosed, lastEffective, torn, lost>>

\* No answer, a failed write of the data or, after it, of the pending file.  A task that is
\* skipped because the circuit opened comes after one that failed.
ReportFails(task, written) ==
    /\ task \in run.rest
    /\ stored' = IF written THEN stored \cup {task[1]} ELSE stored
    /\ run' = [run EXCEPT !.rest = @ \ {task}, !.failed = TRUE]
    /\ UNCHANGED <<today, changes, disclosed, pendingRows, lastEffective, torn, lost>>

\* Mutant: the state moves on after failures too.
MovesOnAnyway == run.mode = Incremental

\* after_completed, which asks for the date again.
MovesOn == run.mode = Incremental /\ ~run.failed

\* Codes this run keeps later ones from finding: cut by --code or max_tasks, disclosed for
\* an earlier date while it ran, due at a date it passed over while it ran or, if it is
\* the first, due before its lookback.
LeftBehind ==
    {c \in ReportCodes : /\ disclosed[c] # NoRow
                         /\ \/ c \in run.cut
                            \/ c \in run.came /\ disclosed[c].date < today
                            \/ run.date < disclosed[c].date /\ disclosed[c].date < today
                            \/ /\ lastEffective = NoReportDate
                               /\ disclosed[c].date < run.date - ReportLookback}

ReportCompleted ==
    /\ Running /\ run.rest = {}
    /\ lastEffective' = IF MovesOn THEN today ELSE lastEffective
    /\ lost' = IF MovesOn THEN lost \cup LeftBehind ELSE lost
    /\ run' = NoReportRun
    /\ UNCHANGED <<today, changes, disclosed, stored, pendingRows, torn>>

\* An exception ends the run, or it is killed, perhaps while it writes a file in place.
ReportStops(file) ==
    /\ Running
    /\ file = "state" => run.rest = {} /\ MovesOn
    /\ file = "pending" => run.mode = Incremental
    /\ torn' = IF file = "no file" THEN torn ELSE torn \cup {file}
    /\ run' = NoReportRun
    /\ UNCHANGED <<today, changes, disclosed, stored, pendingRows, lastEffective, lost>>

-----------------------------------------------------------------------------
(* Around it                                                               *)

TodayMoves ==
    /\ today < MaxDate /\ today' = today + 1
    /\ UNCHANGED <<changes, disclosed, stored, pendingRows, lastEffective, torn, run, lost>>

\* A disclosure update stores a row for a code, or another one in its place.  A date that
\* is behind the last run may be too late.
Disclose(c, row) ==
    /\ changes < MaxChanges /\ changes' = changes + 1
    /\ row.priority >= disclosed[c].priority /\ row # disclosed[c]
    /\ disclosed' = [disclosed EXCEPT ![c] = row]
    /\ lost' = IF lastEffective # NoReportDate /\ row.date < lastEffective THEN lost \cup {c} ELSE lost
    /\ run' = IF Running THEN [run EXCEPT !.came = @ \cup {c}] ELSE run
    /\ UNCHANGED <<today, stored, pendingRows, lastEffective, torn>>

ReportNext ==
    \/ TodayMoves
    \/ \E c \in ReportCodes, row \in [date : Dates, priority : Priorities] : Disclose(c, row)
    \/ \E codes \in SUBSET ReportCodes : PlanIncremental(codes) \/ PlanFull(codes)
    \/ \E task \in run.rest :
        \/ \E present \in BOOLEAN : RecordReport(task, present)
        \/ \E written \in BOOLEAN : ReportFails(task, written)
    \/ ReportCompleted
    \/ \E file \in {"no file", "pending", "state"} : ReportStops(file)

ReportSpec == ReportInit /\ [][ReportNext]_reportVars

-----------------------------------------------------------------------------

\* A report that is due, not older than the retention and not stored is found by the next
\* incremental run for all codes, through failed runs, reports that come late and dates
\* that move (financial_report_sina.py:524).  The ways to lose one are named in LeftBehind
\* and Disclose; a torn file stops all runs.
NoReportForgotten ==
    ~Running /\ torn = {} /\ lastEffective # NoReportDate =>
        \A c \in ReportCodes \ lost :
            /\ disclosed[c] # NoRow /\ c \notin stored
            /\ disclosed[c].date <= today /\ disclosed[c].date >= today - Retention
            => c \in ReportCandidates(today)

=============================================================================
