------------------------------- MODULE DailyRun -------------------------------
(***************************************************************************)
(* The daily orchestrator, src/tools/run_update_daily.py: run_daily_update *)
(* walks the steps of config/daily_workflow.yaml in order, starts each one *)
(* as a child process, and records its status in a state file from which a *)
(* later run resumes.  A status is filed under a key: the natural date,    *)
(* the market date or the run.                                             *)
(*                                                                         *)
(* One orchestrator runs at a time (module ProcessLock).  It may be killed *)
(* between any two actions; its child then lives on.                       *)
(***************************************************************************)
EXTENDS Integers, Sequences

CONSTANTS
    Order,        \* the step ids in the order of the workflow file
    Conf,         \* per step: schedule, key, resume, optional, timed, deps
    MaxDay,       \* bound on the days
    TradingDays,  \* the trading calendar
    FriToSun,     \* the days that are Fridays, Saturdays and Sundays
    Options,      \* the command lines a run may be started with
    MaxFaults,    \* bound on the failures of children and the kills
    NoStep, NoDate

Days == 0 .. MaxDay
Positions == 1 .. Len(Order)
StepIds == {Order[n] : n \in Positions}

KeyPolicies == {"natural_date", "market_date", "run_instance"}

Dependencies == [on : StepIds, key : KeyPolicies, soft : BOOLEAN]

DailySteps ==
    [schedule : {"daily", "market_window"}, key : KeyPolicies,
     resume : {"skip_if_success", "always_run"}, optional : BOOLEAN,
     timed : BOOLEAN, deps : SUBSET Dependencies]

ASSUME WorkflowAssumption ==
    /\ Order \in Seq(StepIds)
    /\ \A m, n \in Positions : Order[m] = Order[n] => m = n
    /\ Conf \in [StepIds -> DailySteps]

\* The repository's workflow lists a step after the steps it depends on, and
\* names each dependency's own key; the code checks neither.
ASSUME OrderAssumption ==
    \A n \in Positions : \A d \in Conf[Order[n]].deps :
        /\ \E m \in 1 .. n - 1 : Order[m] = d.on
        /\ d.key = Conf[d.on].key

ASSUME CalendarAssumption ==
    /\ MaxDay \in Nat \ {0}
    /\ MaxFaults \in Nat
    /\ 0 \in TradingDays
    /\ NoStep \notin StepIds
    /\ NoDate \notin Days

ASSUME OptionsAssumption ==
    Options \subseteq [force : BOOLEAN, ignore_state : BOOLEAN,
                       start_at : StepIds \cup {NoStep},
                       as_of : Days \cup {NoDate}, market : Days \cup {NoDate}]

Failed == {"failed", "failed_resource_locked", "failed_timeout_cleanup", "abandoned"}
Satisfied == {"success", "success_degraded", "skipped"}
Statuses == Failed \cup Satisfied
            \cup {"pending", "running", "blocked", "skipped_timeout"}

TimeoutCode == 124
CleanupFailedCode == 125
Codes == {0, 1, TimeoutCode, CleanupFailedCode}
Killed == -1          \* the orchestrator died: its exit code says nothing

VARIABLES
    day, evening,  \* the local date, and whether it is past 18:00
    pc,            \* where the orchestrator is; "idle" when none runs
    pos,           \* position of the loop in Order
    opt,           \* the options of the last run
    eff,           \* its effective dates, resolved once at its start
    file,          \* the state file: the status of each step under each key
    mem,           \* the orchestrator's copy of it
    degraded,      \* whether the step being run has degraded inputs
    code,          \* the exit code of the child that has just ended
    failed,        \* failed_exit_code, 0 for None
    exit,          \* the exit code of the last run
    faults,        \* failures so far
    stuck,         \* steps of this run whose process could not be killed
    orphans,       \* steps of earlier runs whose process still runs
    cut,           \* ghost: the last run left the loop before its end
    quiet,         \* ghost: no earlier run's process was there at the start
    last,          \* ghost: how the last execution of a step under a key went
    behind         \* ghost: the dependencies a step has not seen the last of

clockVars == <<day, evening>>
runVars == <<pc, pos, opt, eff, mem, degraded, code, failed, exit>>
processVars == <<faults, stuck, orphans>>
ghostVars == <<cut, quiet, last, behind>>
vars == <<clockVars, runVars, file, processVars, ghostVars>>

Rows(S) == [StepIds -> [Days -> S]]

TypeOK ==
    /\ day \in 1 .. MaxDay /\ evening \in BOOLEAN
    /\ pc \in {"idle", "loop", "launch", "child", "result"}
    /\ pos \in 1 .. Len(Order) + 1
    /\ pc \in {"launch", "child", "result"} => pos \in Positions
    /\ opt \in Options
    /\ eff \in [natural : Days, candidate : Days, market : Days, overridden : BOOLEAN]
    /\ file \in Rows(Statuses) /\ mem \in Rows(Statuses)
    /\ degraded \in BOOLEAN
    /\ code \in Codes /\ failed \in Codes /\ exit \in Codes \cup {Killed}
    /\ faults \in 0 .. MaxFaults
    /\ stuck \subseteq StepIds /\ orphans \subseteq StepIds
    /\ cut \in BOOLEAN /\ quiet \in BOOLEAN
    /\ last \in Rows({"none", "started", "ok", "bad"})
    /\ behind \in [StepIds -> SUBSET StepIds]

Init ==
    /\ day = 1 /\ evening = FALSE
    /\ pc = "idle" /\ pos = 1
    /\ opt \in Options
    /\ eff = [natural |-> 1, candidate |-> 0, market |-> 0, overridden |-> FALSE]
    /\ file = [s \in StepIds |-> [d \in Days |-> "pending"]]
    /\ mem = file
    /\ degraded = FALSE
    /\ code = 0 /\ failed = 0 /\ exit = Killed
    /\ faults = 0 /\ stuck = {} /\ orphans = {}
    /\ cut = FALSE /\ quiet = TRUE
    /\ last = [s \in StepIds |-> [d \in Days |-> "none"]]
    /\ behind = [s \in StepIds |-> {}]

-----------------------------------------------------------------------------
(* Dates, schedule and keys                                                *)

\* resolve_daily_effective_dates.
Candidate(o) ==
    IF o.as_of # NoDate THEN o.as_of ELSE IF evening THEN day ELSE day - 1

LatestTradingDay(m, c) ==
    /\ m \in TradingDays /\ m <= c
    /\ \A d \in TradingDays : d <= c => d <= m

MarketDate(m, o) ==
    IF o.market # NoDate THEN m = o.market /\ m <= Candidate(o)
                         ELSE LatestTradingDay(m, Candidate(o))

\* _schedule_policy_matches, for the dates e.
ScheduledOn(s, e) ==
    Conf[s].schedule = "market_window" =>
        \/ e.natural \in FriToSun
        \/ e.candidate # e.market
        \/ e.overridden

Scheduled(s) == ScheduledOn(s, eff)

\* _steps_from_workflow_config drops the dependencies that are not scheduled.
Deps(s) == {d \in Conf[s].deps : Scheduled(d.on)}

\* _state_key_for_policy.  A run has one run_instance key, filed here under 0.
KeyDate(key) ==
    CASE key = "natural_date" -> eff.natural
      [] key = "market_date" -> eff.market
      [] key = "run_instance" -> 0

\* _resolved_dependency_status and _step_row_for_policy.
Status(rows, s) == rows[s][KeyDate(Conf[s].key)]
DepStatus(d) ==
    IF d.key = Conf[d.on].key THEN Status(mem, d.on) ELSE "pending"

\* The daily bar is never built from a degraded AkShare input.
InputRequired(s, d) == s = "build-derived-daily-bar" /\ d.on = "akshare-daily-bar"

\* _blocked_dependencies, and the "blocked" verdict of the loop over the soft
\* dependencies.
Blocked(s) ==
    \E d \in Deps(s) : /\ DepStatus(d) \notin Satisfied
                       /\ d.soft => InputRequired(s, d)

Degraded(s) ==
    \E d \in Deps(s) : \/ d.soft /\ DepStatus(d) \notin Satisfied
                       \/ DepStatus(d) = "success_degraded"

\* The locals of the loop body are not read after the body.
ClearStep == code' = 0 /\ degraded' = FALSE

\* _record_step, and _record_step with _write_state.
Record(s, st) == mem' = [mem EXCEPT ![s][KeyDate(Conf[s].key)] = st]
Save(s, st) == Record(s, st) /\ file' = mem'

-----------------------------------------------------------------------------
(* The orchestrator                                                        *)

\* _mark_abandoned_running_steps_in_state gives up the rows S; the rows of the
\* new run_instance key do not exist yet.
Resumed(S) ==
    [s \in StepIds |-> [d \in Days |->
        IF Conf[s].key = "run_instance" THEN "pending"
        ELSE IF <<s, d>> \in S THEN "abandoned" ELSE file[s][d]]]

RunningRows == {r \in StepIds \X Days : file[r[1]][r[2]] = "running"}

\* The dates are resolved, the lock is taken and the state is read and written
\* back.  A row left "running" is kept when its orchestrator's pid is in use
\* again (or is this run's own), else it is abandoned.
Begin ==
    /\ pc = "idle"
    /\ \E o \in Options, m \in Days :
        LET e == [natural |-> day, candidate |-> Candidate(o), market |-> m,
                  overridden |-> o.market # NoDate]
        IN  /\ MarketDate(m, o)
            /\ o.start_at # NoStep => ScheduledOn(o.start_at, e)
            /\ opt' = o /\ eff' = e
    /\ \E S \in SUBSET RunningRows : mem' = Resumed(S)
    /\ file' = mem'
    /\ pc' = "loop" /\ pos' = 1
    /\ failed' = 0 /\ ClearStep
    /\ stuck' = {} /\ orphans' = orphans \cup stuck
    /\ cut' = FALSE /\ quiet' = (orphans \cup stuck = {})
    /\ last' = [s \in StepIds |->
                  IF Conf[s].key = "run_instance" THEN [d \in Days |-> "none"]
                                                  ELSE last[s]]
    /\ UNCHANGED <<clockVars, exit, faults, behind>>

Current == Order[pos]
AtStep == pc = "loop" /\ pos \in Positions

\* start_seen
Started == opt.start_at = NoStep \/ \E n \in 1 .. pos : Order[n] = opt.start_at

Advance == pos' = pos + 1 /\ pc' = "loop"

\* The step list was filtered by schedule before the loop.
PassOver ==
    /\ AtStep
    /\ ~Scheduled(Current)
    /\ Advance
    /\ UNCHANGED <<clockVars, opt, eff, file, mem, degraded, code, failed, exit,
                   processVars, ghostVars>>

\* A step before start_at; the row reaches the file with the next write.
SkipBeforeStart ==
    /\ AtStep
    /\ Scheduled(Current) /\ ~Started
    /\ Record(Current, "skipped")
    /\ Advance
    /\ UNCHANGED <<clockVars, opt, eff, file, degraded, code, failed, exit,
                   processVars, ghostVars>>

\* Mutant: SkipsSuccess trusts a "running" row, as if its owner were at work.
SkipsRunning(s) ==
    /\ opt.start_at = NoStep /\ ~opt.force /\ ~opt.ignore_state
    /\ Conf[s].resume = "skip_if_success"
    /\ Status(mem, s) \in {"success", "running"}

\* Mutant: SkipsSuccess never retries a blocked step.
SkipsBlocked(s) ==
    /\ opt.start_at = NoStep /\ ~opt.force /\ ~opt.ignore_state
    /\ Conf[s].resume = "skip_if_success"
    /\ Status(mem, s) \in {"success", "blocked"}

\* Mutant: SkipsSuccess forgets --force and --ignore-state.
SkipsAlways(s) ==
    /\ opt.start_at = NoStep
    /\ Conf[s].resume = "skip_if_success"
    /\ Status(mem, s) = "success"

\* should_skip_success
SkipsSuccess(s) ==
    /\ opt.start_at = NoStep /\ ~opt.force /\ ~opt.ignore_state
    /\ Conf[s].resume = "skip_if_success"
    /\ Status(mem, s) = "success"

SkipSuccess ==
    /\ AtStep
    /\ Scheduled(Current) /\ Started /\ SkipsSuccess(Current)
    /\ Advance
    /\ UNCHANGED <<clockVars, opt, eff, file, mem, degraded, code, failed, exit,
                   processVars, ghostVars>>

ToRun == AtStep /\ Scheduled(Current) /\ Started /\ ~SkipsSuccess(Current)

Block ==
    /\ ToRun
    /\ Blocked(Current)
    /\ Save(Current, "blocked")
    /\ Advance
    /\ UNCHANGED <<clockVars, opt, eff, degraded, code, failed, exit,
                   processVars, ghostVars>>

\* Mutant: no _write_state.
RecordRunningInMemory ==
    /\ ToRun
    /\ ~Blocked(Current)
    /\ degraded' = Degraded(Current)
    /\ Record(Current, "running")
    /\ pc' = "launch"
    /\ UNCHANGED <<clockVars, pos, opt, eff, file, code, failed, exit,
                   processVars, ghostVars>>

RecordRunning ==
    /\ ToRun
    /\ ~Blocked(Current)
    /\ degraded' = Degraded(Current)
    /\ Save(Current, "running")
    /\ pc' = "launch"
    /\ UNCHANGED <<clockVars, pos, opt, eff, code, failed, exit, processVars,
                   ghostVars>>

\* Ghosts: from its start on, step s may change what its dependents read.
Touch(s) ==
    behind' = [t \in StepIds |->
                 IF t = s THEN {}
                 ELSE IF \E d \in Conf[t].deps : d.on = s THEN behind[t] \cup {s}
                 ELSE behind[t]]

Outcome(s, o) == last' = [last EXCEPT ![s][KeyDate(Conf[s].key)] = o]

\* _run_subprocess: Popen.
Launch ==
    /\ pc = "launch"
    /\ pc' = "child"
    /\ Outcome(Current, "started")
    /\ Touch(Current)
    /\ UNCHANGED <<clockVars, pos, opt, eff, file, mem, degraded, code, failed,
                   exit, processVars, cut, quiet>>

\* _run_subprocess: the child ends by itself, or is killed at its timeout, or
\* cannot be killed (_terminate_process_tree).
ChildEnds(c) ==
    /\ pc = "child"
    /\ c \in {TimeoutCode, CleanupFailedCode} => Conf[Current].timed
    /\ c # 0 => faults < MaxFaults
    /\ faults' = IF c = 0 THEN faults ELSE faults + 1
    /\ stuck' = IF c = CleanupFailedCode THEN stuck \cup {Current} ELSE stuck
    /\ code' = c
    /\ pc' = "result"
    /\ Outcome(Current, IF c = 0 THEN "ok" ELSE "bad")
    /\ UNCHANGED <<clockVars, pos, opt, eff, file, mem, degraded, failed, exit,
                   orphans, cut, quiet, behind>>

TimedOut == code \in {TimeoutCode, CleanupFailedCode}

\* failed_exit_code keeps the first failure.
NoteFailure == failed' = IF failed = 0 THEN code ELSE failed

Succeed ==
    /\ pc = "result" /\ code = 0
    /\ Save(Current, IF degraded THEN "success_degraded" ELSE "success")
    /\ Advance /\ ClearStep
    /\ UNCHANGED <<clockVars, opt, eff, failed, exit, processVars, ghostVars>>

\* The process tree is still there, or it is gone and left a DuckDB file
\* locked: the loop is left.
Stop ==
    /\ pc = "result" /\ TimedOut
    /\ Save(Current, IF ~Conf[Current].optional THEN "failed"
                     ELSE IF code = CleanupFailedCode THEN "failed_timeout_cleanup"
                     ELSE "failed_resource_locked")
    /\ NoteFailure
    /\ pos' = Len(Order) + 1 /\ pc' = "loop" /\ ClearStep
    /\ cut' = TRUE
    /\ UNCHANGED <<clockVars, opt, eff, exit, processVars, quiet, last, behind>>

\* Mutant: no break after a failed clean-up.
GoesOnAnyway == pc = "result" /\ code # 0

GoesOn == pc = "result" /\ code \notin {0, CleanupFailedCode}

\* Mutant: a status nobody knows.
ContinueTimeout ==
    /\ GoesOn
    /\ Conf[Current].optional
    /\ Save(Current, IF code = TimeoutCode THEN "timeout" ELSE "skipped")
    /\ Advance /\ ClearStep
    /\ UNCHANGED <<clockVars, opt, eff, failed, exit, processVars, ghostVars>>

ContinueOptional ==
    /\ GoesOn
    /\ Conf[Current].optional
    /\ Save(Current, IF code = TimeoutCode THEN "skipped_timeout" ELSE "skipped")
    /\ Advance /\ ClearStep
    /\ UNCHANGED <<clockVars, opt, eff, failed, exit, processVars, ghostVars>>

\* Mutant: a failure leaves the loop.
FailStops ==
    /\ GoesOn
    /\ ~Conf[Current].optional
    /\ Save(Current, "failed")
    /\ NoteFailure
    /\ pos' = Len(Order) + 1 /\ pc' = "loop" /\ ClearStep
    /\ UNCHANGED <<clockVars, opt, eff, exit, processVars, ghostVars>>

Fail ==
    /\ GoesOn
    /\ ~Conf[Current].optional
    /\ Save(Current, "failed")
    /\ NoteFailure
    /\ Advance /\ ClearStep
    /\ UNCHANGED <<clockVars, opt, eff, exit, processVars, ghostVars>>

\* Mutant: the children's exit codes alone decide.
FinalCodeOfChildren == failed

\* _final_exit_code over the scheduled steps.  A failed row carries the exit
\* code of its step, which is not 0; an abandoned or blocked one gives 1.
FinalCode ==
    IF failed # 0 THEN failed
    ELSE IF \E s \in StepIds : Scheduled(s) /\ Status(mem, s) \in Failed \cup {"blocked"}
         THEN 1 ELSE 0

Finish ==
    /\ pc = "loop" /\ pos = Len(Order) + 1
    /\ exit' = FinalCode
    /\ pc' = "idle" /\ pos' = 1 /\ failed' = 0
    /\ UNCHANGED <<clockVars, opt, eff, file, mem, degraded, code, processVars,
                   ghostVars>>

-----------------------------------------------------------------------------
(* The environment                                                         *)

\* The orchestrator is killed, or an exception leaves run_daily_update.
Crash ==
    /\ pc # "idle"
    /\ faults < MaxFaults
    /\ faults' = faults + 1
    /\ orphans' = IF pc = "child" THEN orphans \cup {Current} ELSE orphans
    /\ pc' = "idle" /\ pos' = 1 /\ exit' = Killed
    /\ mem' = file /\ failed' = 0 /\ ClearStep
    /\ UNCHANGED <<clockVars, opt, eff, file, stuck, ghostVars>>

\* A process left behind ends.  Until then it may change its data.
OrphanEnds(s) ==
    /\ s \in orphans \cup stuck
    /\ orphans' = orphans \ {s}
    /\ stuck' = stuck \ {s}
    /\ behind' = [t \in StepIds |->
                    IF \E d \in Conf[t].deps : d.on = s THEN behind[t] \cup {s}
                                                       ELSE behind[t]]
    /\ UNCHANGED <<clockVars, runVars, file, faults, cut, quiet, last>>

Tick ==
    /\ evening => day < MaxDay
    /\ evening' = ~evening
    /\ day' = IF evening THEN day + 1 ELSE day
    /\ UNCHANGED <<runVars, file, processVars, ghostVars>>

-----------------------------------------------------------------------------
LoopStep ==
    PassOver \/ SkipBeforeStart \/ SkipSuccess \/ Block \/ RecordRunning

AfterChild == Succeed \/ Stop \/ ContinueOptional \/ Fail

Run == Begin \/ LoopStep \/ Launch \/ AfterChild \/ Finish

Next ==
    \/ Run
    \/ \E c \in Codes : ChildEnds(c)
    \/ Crash
    \/ \E s \in StepIds : OrphanEnds(s)
    \/ Tick

Spec == Init /\ [][Next]_vars

\* The Task Scheduler starts a run every day, the orchestrator is scheduled,
\* and a child that is not killed ends.
Fairness == WF_vars(Run) /\ WF_vars(\E c \in Codes : ChildEnds(c))

FairSpec == Spec /\ Fairness

-----------------------------------------------------------------------------
(* Properties                                                              *)

Done == {"success", "success_degraded"}

\* A success in the state file is true: the last execution of that step under
\* that key began after the row was last cleared and ended with exit code 0.
\* (A forced rerun, killed half-way, must not leave the old success behind.)
SuccessIsTrue ==
    \A s \in StepIds, d \in Days : file[s][d] \in Done => last[s][d] = "ok"

Ended == pc = "idle" /\ exit # Killed
Row(s) == Status(file, s)

\* The exit code is 0 exactly when every scheduled step's row in the state file
\* says it was done or may be passed over (README.md:88, "If any required
\* upstream step fails or is blocked ... the final exit code will be non-zero").
ExitCodeHonest ==
    Ended =>
        (exit = 0 <=> \A s \in StepIds : Scheduled(s) =>
                          Row(s) \in Satisfied \cup {"skipped_timeout"})

\* A run over the whole workflow that exits with 0 means that every scheduled
\* required step has really succeeded under its key, in this run or before it.
ZeroMeansDone ==
    Ended /\ exit = 0 /\ opt.start_at = NoStep =>
        \A s \in StepIds : Scheduled(s) /\ ~Conf[s].optional =>
            last[s][KeyDate(Conf[s].key)] = "ok"

\* A failure blocks its dependents and nothing else (README.md:447).  In every
\* run over the whole workflow that was not broken off, a blocked step has, by
\* the rows the run ends with, a dependency that did not work out; and when the
\* run takes no earlier success for granted, every step with one is blocked.
LacksInput(s) ==
    \E d \in Deps(s) : /\ Row(d.on) \notin Satisfied
                       /\ d.soft => InputRequired(s, d)

WholeRun == Ended /\ opt.start_at = NoStep /\ ~cut

BlockedByFailureOnly ==
    WholeRun => \A s \in StepIds : Scheduled(s) =>
        /\ Row(s) = "blocked" => LacksInput(s)
        /\ LacksInput(s) /\ (opt.force \/ opt.ignore_state) => Row(s) = "blocked"

\* No step is started while a process of the same run that could not be killed
\* is still there: that is why such a run stops.
OneChildPerRun == pc \in {"launch", "child"} => stuck = {}

\* A run that executes every scheduled step (--force, --ignore-state) and exits
\* with 0 leaves no step that succeeded on less than the last of its scheduled
\* dependencies, provided no process of an earlier run was there.
UpToDate(s) == Row(s) \in Done => \A d \in Deps(s) : d.on \notin behind[s]

FullRunUpToDate ==
    Ended /\ exit = 0 /\ quiet /\ opt.start_at = NoStep
    /\ (opt.force \/ opt.ignore_state) =>
        \A s \in StepIds : Scheduled(s) => UpToDate(s)

\* README.md:76 says of every daily run that it builds the derived tables "after
\* all required upstream steps succeed"; README.md:453 that their step depends
\* on the required upstream steps.
DerivedAfterUpstream ==
    Ended /\ exit = 0 /\ quiet /\ opt.start_at = NoStep =>
        \A s \in StepIds : Scheduled(s) => UpToDate(s)

\* Once nothing fails any more, the runs end with exit code 0: no status that an
\* earlier failure left in the state file blocks a step for ever.
Clean == pc = "idle" => exit = 0

EventuallyClean == <>[]Clean

=============================================================================
