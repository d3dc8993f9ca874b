---------------------------- MODULE DailyRunProofs ----------------------------
(***************************************************************************)
(* Proofs about DailyRun, for every workflow, calendar, set of command     *)
(* lines and number of failures.                                           *)
(***************************************************************************)
EXTENDS DailyRun, TLAPS

LEMMA ConstantTypes ==
    /\ Len(Order) \in Nat
    /\ \A n \in Positions : Order[n] \in StepIds
    /\ 0 \in Days
    /\ Conf \in [StepIds -> DailySteps]
    /\ \A o \in Options : /\ o.start_at \in StepIds \cup {NoStep}
                          /\ o.as_of \in Days \cup {NoDate}
                          /\ o.market \in Days \cup {NoDate}
    BY WorkflowAssumption, CalendarAssumption, OptionsAssumption
    DEF Positions, Days, StepIds

\* A step's row in use is one of its rows.
LEMMA KeyDateType == ASSUME TypeOK, NEW s \in StepIds PROVE KeyDate(Conf[s].key) \in Days
<1>1. Conf[s].key \in KeyPolicies
    BY ConstantTypes DEF DailySteps
<1>2. QED
    BY <1>1, ConstantTypes DEF KeyDate, KeyPolicies, TypeOK

LEMMA CurrentType ==
    ASSUME TypeOK, pos \in Positions
    PROVE  Current \in StepIds /\ KeyDate(Conf[Current].key) \in Days
    BY ConstantTypes, KeyDateType DEF Current

LEMMA RecordType ==
    ASSUME TypeOK, NEW s \in StepIds, NEW st \in Statuses, Record(s, st)
    PROVE  mem' \in Rows(Statuses)
    BY KeyDateType DEF Record, TypeOK, Rows

LEMMA SaveType ==
    ASSUME TypeOK, NEW s \in StepIds, NEW st \in Statuses, Save(s, st)
    PROVE  mem' \in Rows(Statuses) /\ file' \in Rows(Statuses)
    BY RecordType DEF Save

LEMMA OutcomeType ==
    ASSUME TypeOK, NEW s \in StepIds, NEW o \in {"none", "started", "ok", "bad"},
           Outcome(s, o)
    PROVE  last' \in Rows({"none", "started", "ok", "bad"})
    BY KeyDateType DEF Outcome, TypeOK, Rows

LEMMA BeginType == ASSUME TypeOK, Begin PROVE TypeOK'
<1> USE DEF TypeOK, Begin
<1>1. opt' \in Options
    OBVIOUS
<1>2. eff' \in [natural : Days, candidate : Days, market : Days, overridden : BOOLEAN]
    <2>1. PICK o \in Options, m \in Days :
            eff' = [natural |-> day, candidate |-> Candidate(o), market |-> m,
                    overridden |-> o.market # NoDate]
        OBVIOUS
    <2>2. Candidate(o) \in Days
        BY ConstantTypes, CalendarAssumption DEF Candidate, Days
    <2>3. QED
        BY <2>1, <2>2, ConstantTypes DEF Days
<1>3. mem' \in Rows(Statuses) /\ file' \in Rows(Statuses)
    BY DEF Resumed, Rows, Statuses, Failed
<1>4. last' \in Rows({"none", "started", "ok", "bad"})
    BY DEF Rows
<1>5. /\ day' \in 1 .. MaxDay /\ evening' \in BOOLEAN /\ pc' = "loop" /\ pos' = 1
      /\ degraded' \in BOOLEAN /\ code' \in Codes /\ failed' \in Codes
      /\ exit' \in Codes \cup {Killed} /\ faults' \in 0 .. MaxFaults
      /\ stuck' \subseteq StepIds /\ orphans' \subseteq StepIds
      /\ cut' \in BOOLEAN /\ quiet' \in BOOLEAN
      /\ behind' \in [StepIds -> SUBSET StepIds]
    BY DEF clockVars, ClearStep, Codes
<1>6. QED
    BY <1>1, <1>2, <1>3, <1>4, <1>5, ConstantTypes

LEMMA LoopStepType == ASSUME TypeOK, LoopStep PROVE TypeOK'
<1>1. pos \in Positions /\ pc = "loop"
    BY DEF LoopStep, PassOver, SkipBeforeStart, SkipSuccess, Block, RecordRunning,
           ToRun, AtStep
<1>2. Current \in StepIds
    BY <1>1, CurrentType
<1>3. pos + 1 \in 1 .. Len(Order) + 1
    BY <1>1, ConstantTypes DEF Positions
<1> USE DEF TypeOK, Advance, clockVars, processVars, ghostVars
<1>4. CASE PassOver
    BY <1>3, <1>4 DEF PassOver
<1>5. CASE SkipBeforeStart
    <2>1. mem' \in Rows(Statuses)
        BY <1>2, <1>5, RecordType DEF SkipBeforeStart, Statuses, Satisfied
    <2>2. QED
        BY <1>3, <1>5, <2>1 DEF SkipBeforeStart
<1>6. CASE SkipSuccess
    BY <1>3, <1>6 DEF SkipSuccess
<1>7. CASE Block
    <2>1. mem' \in Rows(Statuses) /\ file' \in Rows(Statuses)
        BY <1>2, <1>7, SaveType DEF Block, Statuses
    <2>2. QED
        BY <1>3, <1>7, <2>1 DEF Block
<1>8. CASE RecordRunning
    <2>1. mem' \in Rows(Statuses) /\ file' \in Rows(Statuses)
        BY <1>2, <1>8, SaveType DEF RecordRunning, Statuses
    <2>2. degraded' \in BOOLEAN
        BY <1>8 DEF RecordRunning, Degraded
    <2>3. QED
        BY <1>1, <1>8, <2>1, <2>2 DEF RecordRunning
<1>9. QED
    BY <1>4, <1>5, <1>6, <1>7, <1>8 DEF LoopStep

LEMMA TouchType ==
    ASSUME TypeOK, NEW s \in StepIds, Touch(s)
    PROVE  behind' \in [StepIds -> SUBSET StepIds]
    BY DEF Touch, TypeOK

LEMMA LaunchType == ASSUME TypeOK, Launch PROVE TypeOK'
<1>1. Current \in StepIds /\ pos \in Positions
    BY CurrentType DEF Launch, TypeOK
<1>2. last' \in Rows({"none", "started", "ok", "bad"})
    BY <1>1, OutcomeType DEF Launch
<1>3. behind' \in [StepIds -> SUBSET StepIds]
    BY <1>1, TouchType DEF Launch
<1>4. QED
    BY <1>1, <1>2, <1>3 DEF Launch, TypeOK, clockVars, processVars

LEMMA ChildEndsType == ASSUME TypeOK, NEW c \in Codes, ChildEnds(c) PROVE TypeOK'
<1>1. Current \in StepIds /\ pos \in Positions
    BY CurrentType DEF ChildEnds, TypeOK
<1>2. last' \in Rows({"none", "started", "ok", "bad"})
    BY <1>1, OutcomeType DEF ChildEnds
<1>3. faults' \in 0 .. MaxFaults
    BY CalendarAssumption DEF ChildEnds, TypeOK
<1>4. stuck' \subseteq StepIds
    BY <1>1 DEF ChildEnds, TypeOK
<1>5. QED
    BY <1>1, <1>2, <1>3, <1>4 DEF ChildEnds, TypeOK, clockVars

LEMMA AfterChildType == ASSUME TypeOK, AfterChild PROVE TypeOK'
<1>1. pos \in Positions /\ pc = "result"
    BY DEF AfterChild, Succeed, Stop, ContinueOptional, Fail, GoesOn, TypeOK
<1>2. Current \in StepIds
    BY <1>1, CurrentType
<1>3. pos' \in 1 .. Len(Order) + 1 /\ pc' = "loop"
    BY <1>1, ConstantTypes
    DEF AfterChild, Succeed, Stop, ContinueOptional, Fail, Advance, Positions
<1>4. mem' \in Rows(Statuses) /\ file' \in Rows(Statuses)
    BY <1>2, SaveType
    DEF AfterChild, Succeed, Stop, ContinueOptional, Fail, Statuses, Satisfied, Failed
<1>5. code' \in Codes /\ degraded' \in BOOLEAN /\ failed' \in Codes
    BY DEF AfterChild, Succeed, Stop, ContinueOptional, Fail, ClearStep, NoteFailure,
           Codes, TypeOK
<1>6. /\ UNCHANGED <<clockVars, opt, eff, exit, processVars, quiet, last, behind>>
      /\ cut' \in BOOLEAN
    BY DEF AfterChild, Succeed, Stop, ContinueOptional, Fail, ghostVars, TypeOK
<1>7. QED
    BY <1>3, <1>4, <1>5, <1>6 DEF TypeOK, clockVars, processVars

LEMMA FinishType == ASSUME TypeOK, Finish PROVE TypeOK'
<1>1. exit' \in Codes \cup {Killed}
    BY DEF Finish, FinalCode, Codes, TypeOK
<1>2. QED
    BY <1>1, ConstantTypes DEF Finish, TypeOK, Codes, clockVars, processVars, ghostVars

LEMMA EnvironmentType ==
    ASSUME TypeOK, Crash \/ Tick \/ \E s \in StepIds : OrphanEnds(s)
    PROVE  TypeOK'
<1>1. CASE Crash
    <2>1. orphans' \subseteq StepIds
        BY <1>1, CurrentType DEF Crash, TypeOK
    <2>2. faults' \in 0 .. MaxFaults
        BY <1>1, CalendarAssumption DEF Crash, TypeOK
    <2>3. mem' \in Rows(Statuses) /\ pos' \in 1 .. Len(Order) + 1
        BY <1>1, ConstantTypes DEF Crash, TypeOK
    <2>4. QED
        BY <1>1, <2>1, <2>2, <2>3
        DEF Crash, TypeOK, Codes, ClearStep, clockVars, ghostVars
<1>2. CASE Tick
    BY <1>2, CalendarAssumption DEF Tick, TypeOK, runVars, processVars, ghostVars
<1>3. ASSUME NEW s \in StepIds, OrphanEnds(s) PROVE TypeOK'
    <2>1. behind' \in [StepIds -> SUBSET StepIds]
        BY <1>3 DEF OrphanEnds, TypeOK
    <2>2. QED
        BY <1>3, <2>1 DEF OrphanEnds, TypeOK, clockVars, runVars
<1>4. QED
    BY <1>1, <1>2, <1>3

LEMMA TypeStep == TypeOK /\ [Next]_vars => TypeOK'
<1>1. TypeOK /\ UNCHANGED vars => TypeOK'
    BY DEF TypeOK, vars, clockVars, runVars, processVars, ghostVars
<1>2. QED
    BY <1>1, BeginType, LoopStepType, LaunchType, ChildEndsType, AfterChildType,
       FinishType, EnvironmentType
    DEF Next, Run

\* Every reachable state of the orchestrator and of its state file has its type.
THEOREM TypeCorrect == Spec => []TypeOK
<1>1. Init => TypeOK
    <2> SUFFICES ASSUME Init PROVE TypeOK
        OBVIOUS
    <2>1. file \in Rows(Statuses) /\ mem \in Rows(Statuses)
        BY DEF Init, Rows, Statuses
    <2>2. last \in Rows({"none", "started", "ok", "bad"})
        BY DEF Init, Rows
    <2>3. 1 \in Days /\ 1 \in 1 .. MaxDay /\ 0 \in 0 .. MaxFaults
        BY CalendarAssumption DEF Days
    <2>4. eff \in [natural : Days, candidate : Days, market : Days,
                   overridden : BOOLEAN]
        BY <2>3, ConstantTypes DEF Init
    <2>5. pos \in 1 .. Len(Order) + 1 /\ pc = "idle"
        BY ConstantTypes DEF Init
    <2>6. /\ opt \in Options /\ degraded \in BOOLEAN /\ cut \in BOOLEAN
          /\ quiet \in BOOLEAN /\ evening \in BOOLEAN
          /\ code \in Codes /\ failed \in Codes /\ exit \in Codes \cup {Killed}
          /\ stuck \subseteq StepIds /\ orphans \subseteq StepIds
          /\ behind \in [StepIds -> SUBSET StepIds]
        BY DEF Init, Codes
    <2>7. QED
        BY <2>1, <2>2, <2>3, <2>4, <2>5, <2>6 DEF Init, TypeOK
<1>2. QED
    BY <1>1, TypeStep, PTL DEF Spec

-----------------------------------------------------------------------------
(* A recorded success is true.  The rows of the state file and of the      *)
(* orchestrator's copy say nothing false; while a step is being run its    *)
(* row is no success; and a success is recorded for exit code 0 only.      *)

Truthful(rows) == \A s \in StepIds, d \in Days : rows[s][d] \in Done => last[s][d] = "ok"

CurrentKey == KeyDate(Conf[Current].key)

UnderWay ==
    pc \in {"launch", "child", "result"} =>
        /\ file[Current][CurrentKey] \notin Done
        /\ mem[Current][CurrentKey] \notin Done

ResultTrue == pc = "result" /\ code = 0 => last[Current][CurrentKey] = "ok"

Truth == Truthful(file) /\ Truthful(mem) /\ UnderWay /\ ResultTrue

\* Recording a row that is no success, or one that is true, keeps rows true.
LEMMA SaveTruthful ==
    ASSUME TypeOK, NEW s \in StepIds, NEW st \in Statuses, Record(s, st),
           Truthful(mem), UNCHANGED last,
           st \in Done => last[s][KeyDate(Conf[s].key)] = "ok"
    PROVE  Truthful(mem)'
    BY KeyDateType DEF Record, Truthful, TypeOK, Rows

LEMMA TruthStep == TypeOK /\ Truth /\ [Next]_vars => Truth'
<1> SUFFICES ASSUME TypeOK, Truth, [Next]_vars PROVE Truth'
    OBVIOUS
<1>1. CASE UNCHANGED vars
    BY <1>1
    DEF Truth, Truthful, UnderWay, ResultTrue, CurrentKey, KeyDate, Current, vars,
        runVars, ghostVars
<1>2. CASE Begin
    <2>1. Truthful(mem)'
        BY <1>2 DEF Begin, Resumed, Truth, Truthful, Done
    <2>2. QED
        BY <1>2, <2>1 DEF Begin, Truth, Truthful, UnderWay, ResultTrue
<1>3. CASE PassOver \/ SkipBeforeStart \/ SkipSuccess
    <2>1. CASE SkipBeforeStart
        <3>1. Current \in StepIds
            BY <2>1, CurrentType DEF SkipBeforeStart, AtStep
        <3>2. Truthful(mem)'
            BY <2>1, <3>1, SaveTruthful
            DEF SkipBeforeStart, Statuses, Satisfied, Done, Truth, ghostVars
        <3>3. QED
            BY <2>1, <3>2
            DEF SkipBeforeStart, Advance, Truth, Truthful, UnderWay, ResultTrue, ghostVars
    <2>2. CASE PassOver \/ SkipSuccess
        BY <2>2
        DEF PassOver, SkipSuccess, Advance, Truth, Truthful, UnderWay, ResultTrue, ghostVars
    <2>3. QED
        BY <1>3, <2>1, <2>2
<1>4. CASE Block
    <2>1. Current \in StepIds
        BY <1>4, CurrentType DEF Block, ToRun, AtStep
    <2>2. Truthful(mem)'
        BY <1>4, <2>1, SaveTruthful DEF Block, Save, Statuses, Done, Truth, ghostVars
    <2>3. QED
        BY <1>4, <2>2
        DEF Block, Save, Advance, Truth, Truthful, UnderWay, ResultTrue, ghostVars
<1>5. CASE RecordRunning
    <2>1. Current \in StepIds /\ CurrentKey \in Days
        BY <1>5, CurrentType DEF RecordRunning, ToRun, AtStep, CurrentKey
    <2>2. Truthful(mem)'
        BY <1>5, <2>1, SaveTruthful
        DEF RecordRunning, Save, Statuses, Done, Truth, ghostVars
    <2>3. /\ Current' = Current /\ CurrentKey' = CurrentKey
          /\ mem' = [mem EXCEPT ![Current][CurrentKey] = "running"]
        BY <1>5 DEF RecordRunning, Save, Record, Current, CurrentKey, KeyDate
    <2>4. UnderWay'
        BY <1>5, <2>1, <2>3 DEF RecordRunning, Save, UnderWay, Done, TypeOK, Rows
    <2>5. QED
        BY <1>5, <2>2, <2>4
        DEF RecordRunning, Save, Truth, Truthful, ResultTrue, ghostVars
<1>6. CASE Launch \/ \E c \in Codes : ChildEnds(c)
    <2>1. /\ Current \in StepIds /\ CurrentKey \in Days
          /\ Current' = Current /\ CurrentKey' = CurrentKey
          /\ UNCHANGED <<file, mem>>
        BY <1>6, CurrentType
        DEF Launch, ChildEnds, TypeOK, CurrentKey, Current, KeyDate
    <2>2. PICK o \in {"started", "ok", "bad"} :
            /\ last' = [last EXCEPT ![Current][CurrentKey] = o]
            /\ pc' = "result" /\ code' = 0 => o = "ok"
        BY <1>6 DEF Launch, ChildEnds, Outcome, CurrentKey
    <2>3. Truthful(file)' /\ Truthful(mem)'
        BY <1>6, <2>1, <2>2
        DEF Launch, ChildEnds, Truth, Truthful, UnderWay, TypeOK, Rows
    <2>4. UnderWay'
        BY <1>6, <2>1 DEF Launch, ChildEnds, Truth, UnderWay
    <2>5. ResultTrue'
        BY <2>1, <2>2 DEF ResultTrue, TypeOK, Rows
    <2>6. QED
        BY <2>3, <2>4, <2>5 DEF Truth
<1>7. CASE AfterChild
    <2>1. Current \in StepIds /\ pc = "result"
        BY <1>7, CurrentType
        DEF AfterChild, Succeed, Stop, ContinueOptional, Fail, GoesOn, TypeOK
    <2>2. PICK st \in Statuses :
            Save(Current, st) /\ (st \in Done => code = 0)
        BY <1>7
        DEF AfterChild, Succeed, Stop, ContinueOptional, Fail, Statuses, Satisfied,
            Failed, Done
    <2>3. UNCHANGED last /\ pc' = "loop"
        BY <1>7
        DEF AfterChild, Succeed, Stop, ContinueOptional, Fail, Advance, ghostVars
    <2>4. Truthful(mem)'
        BY <2>1, <2>2, <2>3, SaveTruthful DEF Save, Truth, ResultTrue, CurrentKey
    <2>5. QED
        BY <2>2, <2>3, <2>4 DEF Save, Truth, Truthful, UnderWay, ResultTrue
<1>8. CASE Finish \/ Crash
    BY <1>8 DEF Finish, Crash, Truth, Truthful, UnderWay, ResultTrue, ghostVars
<1>9. CASE Tick \/ \E s \in StepIds : OrphanEnds(s)
    <2>1. UNCHANGED <<pc, pos, eff, mem, code, file, last>>
        BY <1>9 DEF Tick, OrphanEnds, runVars, ghostVars
    <2>2. QED
        BY <2>1 DEF Truth, Truthful, UnderWay, ResultTrue, CurrentKey, Current, KeyDate
<1>10. QED
    BY <1>1, <1>2, <1>3, <1>4, <1>5, <1>6, <1>7, <1>8, <1>9
    DEF Next, Run, LoopStep

\* Whatever fails and whenever the orchestrator is killed, a success in the
\* state file stands for a last execution that ended with exit code 0.
THEOREM SuccessTrue == Spec => []SuccessIsTrue
<1>1. Init => Truth
    <2> SUFFICES ASSUME Init PROVE Truth
        OBVIOUS
    <2>1. \A s \in StepIds, d \in Days : file[s][d] = "pending" /\ mem[s][d] = "pending"
        BY DEF Init
    <2>2. QED
        BY <2>1 DEF Init, Truth, Truthful, UnderWay, ResultTrue, Done
<1>2. Truth => SuccessIsTrue
    BY DEF Truth, Truthful, SuccessIsTrue
<1>3. QED
    BY <1>1, <1>2, TruthStep, TypeCorrect, PTL DEF Spec

-----------------------------------------------------------------------------
(* A process that could not be killed has nothing started after it.        *)

StuckLast ==
    \/ stuck = {}
    \/ pc = "idle"
    \/ pc = "result" /\ code = CleanupFailedCode
    \/ pc = "loop" /\ pos = Len(Order) + 1

LEMMA StuckStep == TypeOK /\ StuckLast /\ [Next]_vars => StuckLast'
<1> SUFFICES ASSUME TypeOK, StuckLast, [Next]_vars PROVE StuckLast'
    OBVIOUS
<1>1. CASE UNCHANGED vars
    BY <1>1 DEF StuckLast, vars, runVars, processVars
<1>2. CASE Begin \/ Finish \/ Crash
    BY <1>2 DEF StuckLast, Begin, Finish, Crash
<1>3. CASE LoopStep
    <2>1. pos \in Positions /\ pc = "loop" /\ UNCHANGED stuck
        BY <1>3
        DEF LoopStep, PassOver, SkipBeforeStart, SkipSuccess, Block, RecordRunning,
            ToRun, AtStep, processVars
    <2>2. pos # Len(Order) + 1
        BY <2>1, ConstantTypes DEF Positions
    <2>3. QED
        BY <2>1, <2>2 DEF StuckLast
<1>4. CASE Launch
    BY <1>4 DEF StuckLast, Launch, processVars
<1>5. ASSUME NEW c \in Codes, ChildEnds(c) PROVE StuckLast'
    BY <1>5 DEF StuckLast, ChildEnds
<1>6. CASE AfterChild
    <2>1. UNCHANGED stuck /\ pc = "result"
        BY <1>6
        DEF AfterChild, Succeed, Stop, ContinueOptional, Fail, GoesOn, processVars
    <2>2. code = CleanupFailedCode => pc' = "loop" /\ pos' = Len(Order) + 1
        BY <1>6
        DEF AfterChild, Succeed, Stop, ContinueOptional, Fail, GoesOn,
            CleanupFailedCode
    <2>3. QED
        BY <2>1, <2>2 DEF StuckLast
<1>7. CASE Tick \/ \E s \in StepIds : OrphanEnds(s)
    <2>1. UNCHANGED <<pc, pos, code>> /\ stuck' \subseteq stuck
        BY <1>7 DEF Tick, OrphanEnds, runVars, processVars
    <2>2. QED
        BY <2>1 DEF StuckLast
<1>8. QED
    BY <1>1, <1>2, <1>3, <1>4, <1>5, <1>6, <1>7 DEF Next, Run

\* A run never starts a step beside a process of its own that it could not kill.
THEOREM OneChild == Spec => []OneChildPerRun
<1>1. Init => StuckLast
    BY DEF Init, StuckLast
<1>2. StuckLast => OneChildPerRun
    BY DEF StuckLast, OneChildPerRun
<1>3. QED
    BY <1>1, <1>2, StuckStep, TypeCorrect, PTL DEF Spec

-----------------------------------------------------------------------------
(* The exit code.  The loop leaves a final row for every scheduled step it *)
(* has passed; a failure it remembers has its row; and once the start step *)
(* is passed the file holds what the orchestrator knows.                   *)

Passable == Satisfied \cup {"skipped_timeout"}
Final == Passable \cup Failed \cup {"blocked"}

BeforeStart ==
    /\ pc = "loop" /\ opt.start_at # NoStep
    /\ \A n \in Positions : n < pos => Order[n] # opt.start_at

Saved == pc # "idle" => file = mem \/ BeforeStart

StartScheduled == pc # "idle" /\ opt.start_at # NoStep => Scheduled(opt.start_at)

RunsScheduled == pc \in {"launch", "child", "result"} => Scheduled(Current)

Visited ==
    pc # "idle" /\ ~cut =>
        \A n \in Positions : n < pos /\ Scheduled(Order[n]) => Status(mem, Order[n]) \in Final

FailureKept ==
    pc # "idle" /\ failed # 0 =>
        \E n \in Positions : n < pos /\ Scheduled(Order[n]) /\ Status(mem, Order[n]) \in Failed

CutFailed == pc # "idle" /\ cut => failed # 0

Honest ==
    /\ Saved /\ StartScheduled /\ RunsScheduled
    /\ Visited /\ FailureKept /\ CutFailed
    /\ ExitCodeHonest

\* A row is written for the step at pos and for no other.
LEMMA OneRow ==
    ASSUME TypeOK, pos \in Positions, NEW st, Record(Current, st), UNCHANGED eff,
           NEW n \in Positions
    PROVE  Status(mem, Order[n])' = IF n = pos THEN st ELSE Status(mem, Order[n])
<1>1. /\ Current \in StepIds /\ KeyDate(Conf[Current].key) \in Days
      /\ Order[n] \in StepIds
    BY CurrentType, ConstantTypes
<1>2. n # pos => Order[n] # Current
    BY WorkflowAssumption DEF Current
<1>3. KeyDate(Conf[Order[n]].key)' = KeyDate(Conf[Order[n]].key)
    BY DEF KeyDate
<1>4. QED
    BY <1>1, <1>2, <1>3 DEF Status, Record, Current, TypeOK, Rows

LEMMA ScheduledSame == UNCHANGED eff => \A s : Scheduled(s)' = Scheduled(s)
    BY DEF Scheduled, ScheduledOn

\* Going on to the next step with a final row for this one.
LEMMA AdvanceKeeps ==
    ASSUME TypeOK, pos \in Positions, pc # "idle", Visited, FailureKept,
           NEW st \in Final, Record(Current, st), pos' = pos + 1,
           UNCHANGED <<eff, cut>>,
           failed' # failed => st \in Failed /\ Scheduled(Current)
    PROVE  Visited' /\ FailureKept'
<1>1. \A n \in Positions :
        /\ Status(mem, Order[n])' = IF n = pos THEN st ELSE Status(mem, Order[n])
        /\ Scheduled(Order[n])' = Scheduled(Order[n])
    BY OneRow, ScheduledSame
<1>2. \A n \in Positions : n < pos' <=> n < pos \/ n = pos
    BY ConstantTypes DEF Positions
<1>3. Visited'
    BY <1>1, <1>2 DEF Visited
<1>4. FailureKept'
    <2>1. CASE failed' # failed
        BY <1>1, <1>2, <2>1 DEF FailureKept, Current
    <2>2. CASE failed' = failed
        <3> SUFFICES ASSUME failed # 0
                     PROVE  \E n \in Positions : n < pos' /\ Scheduled(Order[n])'
                                                 /\ Status(mem, Order[n])' \in Failed
            BY <2>2 DEF FailureKept
        <3>1. PICK n \in Positions : n < pos /\ Scheduled(Order[n])
                                    /\ Status(mem, Order[n]) \in Failed
            BY DEF FailureKept
        <3>2. n # pos
            BY <3>1, ConstantTypes DEF Positions
        <3>3. QED
            BY <1>1, <1>2, <3>1, <3>2
    <2>3. QED
        BY <2>1, <2>2
<1>5. QED
    BY <1>3, <1>4

LEMMA BeginHonest == ASSUME TypeOK, Begin PROVE Honest'
<1>1. pc' = "loop" /\ pos' = 1 /\ file' = mem' /\ cut' = FALSE /\ failed' = 0
    BY DEF Begin
<1>2. StartScheduled'
    BY <1>1 DEF Begin, StartScheduled, Scheduled, ScheduledOn
<1>3. Visited' /\ FailureKept'
    BY <1>1, ConstantTypes DEF Visited, FailureKept, Positions
<1>4. QED
    BY <1>1, <1>2, <1>3
    DEF Honest, Saved, RunsScheduled, CutFailed, ExitCodeHonest, Ended

LEMMA LoopStepHonest == ASSUME TypeOK, Honest, LoopStep PROVE Honest'
<1>1. pos \in Positions /\ pc = "loop"
    BY DEF LoopStep, PassOver, SkipBeforeStart, SkipSuccess, Block, RecordRunning,
           ToRun, AtStep
<1>2. UNCHANGED <<opt, eff, cut, failed>> /\ pc' \in {"loop", "launch"}
    BY DEF LoopStep, PassOver, SkipBeforeStart, SkipSuccess, Block, RecordRunning,
           Advance, ghostVars
<1>3. StartScheduled' /\ CutFailed' /\ ExitCodeHonest'
    BY <1>1, <1>2, ScheduledSame
    DEF Honest, StartScheduled, CutFailed, ExitCodeHonest, Ended
<1>4. \A n \in Positions : n < pos + 1 <=> n < pos \/ n = pos
    BY <1>1, ConstantTypes DEF Positions
<1>5. CASE PassOver
    <2>1. pos' = pos + 1 /\ UNCHANGED <<mem, file>> /\ pc' = "loop" /\ ~Scheduled(Order[pos])
        BY <1>5 DEF PassOver, Advance, Current
    <2>2. \A n \in Positions : /\ Scheduled(Order[n])' = Scheduled(Order[n])
                               /\ Status(mem, Order[n])' = Status(mem, Order[n])
        BY <1>2, <2>1, ScheduledSame DEF Status, KeyDate
    <2>3. Visited' /\ FailureKept'
        BY <1>1, <1>2, <1>4, <2>1, <2>2 DEF Honest, Visited, FailureKept
    <2>4. Saved'
        BY <1>1, <1>2, <1>4, <2>1 DEF Honest, Saved, BeforeStart, StartScheduled
    <2>5. QED
        BY <1>3, <2>1, <2>3, <2>4 DEF Honest, RunsScheduled
<1>6. CASE SkipBeforeStart
    <2>1. /\ Record(Current, "skipped") /\ pos' = pos + 1 /\ pc' = "loop"
          /\ opt.start_at # NoStep /\ \A n \in 1 .. pos : Order[n] # opt.start_at
        BY <1>6 DEF SkipBeforeStart, Advance, Started
    <2>2. Visited' /\ FailureKept'
        BY <1>1, <1>2, <2>1, AdvanceKeeps DEF Honest, Final, Passable, Satisfied
    <2>3. \A n \in Positions : n < pos + 1 => n \in 1 .. pos
        BY <1>1, ConstantTypes DEF Positions
    <2>4. Saved'
        BY <1>2, <2>1, <2>3 DEF Saved, BeforeStart
    <2>5. QED
        BY <1>3, <2>1, <2>2, <2>4 DEF Honest, RunsScheduled
<1>7. CASE SkipSuccess
    <2>1. /\ pos' = pos + 1 /\ UNCHANGED <<mem, file>> /\ pc' = "loop"
          /\ opt.start_at = NoStep /\ Status(mem, Order[pos]) = "success"
        BY <1>7 DEF SkipSuccess, SkipsSuccess, Advance, Current
    <2>2. \A n \in Positions : /\ Scheduled(Order[n])' = Scheduled(Order[n])
                               /\ Status(mem, Order[n])' = Status(mem, Order[n])
        BY <1>2, <2>1, ScheduledSame DEF Status, KeyDate
    <2>3. Visited' /\ FailureKept'
        BY <1>1, <1>2, <1>4, <2>1, <2>2
        DEF Honest, Visited, FailureKept, Final, Passable, Satisfied
    <2>4. Saved'
        BY <1>1, <2>1 DEF Honest, Saved, BeforeStart
    <2>5. QED
        BY <1>3, <2>1, <2>3, <2>4 DEF Honest, RunsScheduled
<1>8. CASE Block
    <2>1. Record(Current, "blocked") /\ file' = mem' /\ pos' = pos + 1 /\ pc' = "loop"
        BY <1>8 DEF Block, Save, Advance
    <2>2. Visited' /\ FailureKept'
        BY <1>1, <1>2, <2>1, AdvanceKeeps DEF Honest, Final
    <2>3. QED
        BY <1>3, <2>1, <2>2 DEF Honest, Saved, RunsScheduled
<1>9. CASE RecordRunning
    <2>1. /\ Record(Current, "running") /\ file' = mem' /\ pos' = pos
          /\ Scheduled(Current)
        BY <1>9 DEF RecordRunning, Save, ToRun
    <2>2. \A n \in Positions : n < pos =>
            /\ Scheduled(Order[n])' = Scheduled(Order[n])
            /\ Status(mem, Order[n])' = Status(mem, Order[n])
        BY <1>1, <1>2, <2>1, OneRow, ScheduledSame, ConstantTypes DEF Positions
    <2>3. Visited' /\ FailureKept'
        BY <1>1, <1>2, <2>1, <2>2 DEF Honest, Visited, FailureKept
    <2>4. RunsScheduled'
        BY <1>2, <2>1, ScheduledSame DEF RunsScheduled, Current
    <2>5. QED
        BY <1>3, <2>1, <2>3, <2>4 DEF Honest, Saved
<1>10. QED
    BY <1>5, <1>6, <1>7, <1>8, <1>9 DEF LoopStep

LEMMA AfterChildHonest == ASSUME TypeOK, Honest, AfterChild PROVE Honest'
<1>1. pc = "result" /\ pos \in Positions /\ Scheduled(Current)
    BY DEF AfterChild, Succeed, Stop, ContinueOptional, Fail, GoesOn, TypeOK, Honest,
           RunsScheduled
<1>2. UNCHANGED <<opt, eff>> /\ pc' = "loop" /\ file' = mem'
    BY DEF AfterChild, Succeed, Stop, ContinueOptional, Fail, Advance, Save
<1>3. StartScheduled' /\ ExitCodeHonest' /\ Saved' /\ RunsScheduled'
    BY <1>1, <1>2, ScheduledSame
    DEF Honest, StartScheduled, ExitCodeHonest, Ended, Saved, RunsScheduled
<1>4. CASE Succeed \/ ContinueOptional \/ Fail
    <2>1. PICK st \in Final :
            /\ Record(Current, st) /\ pos' = pos + 1 /\ UNCHANGED cut
            /\ failed' # failed => st \in Failed /\ failed = 0 /\ failed' # 0
        BY <1>4
        DEF Succeed, ContinueOptional, Fail, GoesOn, NoteFailure, Save, Advance,
            Final, Passable, Satisfied, Failed, ghostVars
    <2>2. Visited' /\ FailureKept'
        BY <1>1, <1>2, <2>1, AdvanceKeeps DEF Honest
    <2>3. CutFailed'
        BY <1>1, <2>1 DEF Honest, CutFailed
    <2>4. QED
        BY <1>3, <2>2, <2>3 DEF Honest
<1>5. CASE Stop
    <2>1. PICK st \in Failed :
            /\ Record(Current, st) /\ pos' = Len(Order) + 1 /\ cut'
            /\ failed' # 0
        BY <1>5
        DEF Stop, TimedOut, TimeoutCode, CleanupFailedCode, NoteFailure, Save, Failed
    <2>2. PICK n \in Positions : n = pos
        BY <1>1
    <2>3. Status(mem, Order[n])' \in Failed /\ Scheduled(Order[n])' /\ n < pos'
        BY <1>1, <1>2, <2>1, <2>2, OneRow, ScheduledSame, ConstantTypes
        DEF Current, Positions
    <2>4. FailureKept'
        BY <2>3 DEF FailureKept
    <2>5. QED
        BY <1>3, <2>1, <2>4 DEF Honest, Visited, CutFailed
<1>6. QED
    BY <1>4, <1>5 DEF AfterChild

LEMMA FinishHonest == ASSUME TypeOK, Honest, Finish PROVE Honest'
<1>1. /\ pc = "loop" /\ pos = Len(Order) + 1 /\ pc' = "idle" /\ exit' = FinalCode
      /\ UNCHANGED <<opt, eff, file>>
    BY DEF Finish
<1>2. \A n \in Positions : n < pos
    BY <1>1, ConstantTypes DEF Positions
<1>3. file = mem
    <2>1. opt.start_at # NoStep => \E n \in Positions : Order[n] = opt.start_at
        BY ConstantTypes DEF TypeOK, StepIds
    <2>2. QED
        BY <1>1, <1>2, <2>1 DEF Honest, Saved, BeforeStart
<1>4. \A s \in StepIds : Scheduled(s)' = Scheduled(s) /\ Row(s)' = Status(mem, s)
    BY <1>1, <1>3, ScheduledSame DEF Row, Status, KeyDate
<1>5. \A s \in StepIds : \E n \in Positions : s = Order[n]
    BY DEF StepIds
<1>6. CASE FinalCode = 0
    <2>1. failed = 0 /\ ~cut
        BY <1>1, <1>6 DEF FinalCode, Honest, CutFailed
    <2>2. \A s \in StepIds : Scheduled(s) => Status(mem, s) \in Passable
        BY <1>1, <1>2, <1>5, <1>6, <2>1 DEF FinalCode, Honest, Visited, Final
    <2>3. QED
        BY <1>1, <1>4, <1>6, <2>2
        DEF Honest, Saved, StartScheduled, RunsScheduled, Visited, FailureKept,
            CutFailed, ExitCodeHonest, Passable
<1>7. CASE FinalCode # 0
    <2>1. \E s \in StepIds : Scheduled(s) /\ Status(mem, s) \in Failed \cup {"blocked"}
        BY <1>1, <1>2, <1>7, ConstantTypes DEF FinalCode, Honest, FailureKept
    <2>2. (Failed \cup {"blocked"}) \cap (Satisfied \cup {"skipped_timeout"}) = {}
        BY DEF Failed, Satisfied
    <2>3. QED
        BY <1>1, <1>4, <1>7, <2>1, <2>2
        DEF Honest, Saved, StartScheduled, RunsScheduled, Visited, FailureKept,
            CutFailed, ExitCodeHonest
<1>8. QED
    BY <1>6, <1>7

LEMMA HonestStep == TypeOK /\ Honest /\ [Next]_vars => Honest'
<1> SUFFICES ASSUME TypeOK, Honest, [Next]_vars PROVE Honest'
    OBVIOUS
<1>1. CASE UNCHANGED vars \/ Tick \/ \E s \in StepIds : OrphanEnds(s)
    <2>1. UNCHANGED <<pc, pos, opt, eff, file, mem, failed, exit, cut>>
        BY <1>1 DEF vars, Tick, OrphanEnds, runVars, ghostVars
    <2>2. QED
        BY <2>1
        DEF Honest, Saved, BeforeStart, StartScheduled, RunsScheduled, Visited,
            FailureKept, CutFailed, ExitCodeHonest, Ended, Row, Status, KeyDate,
            Scheduled, ScheduledOn, Current
<1>2. CASE Launch \/ \E c \in Codes : ChildEnds(c)
    <2>1. /\ UNCHANGED <<pos, opt, eff, file, mem, failed, exit, cut>>
          /\ pc \in {"launch", "child"} /\ pc' \in {"child", "result"}
        BY <1>2 DEF Launch, ChildEnds
    <2>2. QED
        BY <2>1
        DEF Honest, Saved, BeforeStart, StartScheduled, RunsScheduled, Visited,
            FailureKept, CutFailed, ExitCodeHonest, Ended, Status, KeyDate,
            Scheduled, ScheduledOn, Current
<1>3. CASE Crash
    BY <1>3
    DEF Crash, Honest, Saved, StartScheduled, RunsScheduled, Visited, FailureKept,
        CutFailed, ExitCodeHonest, Ended
<1>4. QED
    BY <1>1, <1>2, <1>3, BeginHonest, LoopStepHonest, AfterChildHonest, FinishHonest
    DEF Next, Run

\* The exit code of a run is 0 exactly when every scheduled step's row in the
\* state file is one that may be passed over.
THEOREM ExitCode == Spec => []ExitCodeHonest
<1>1. Init => Honest
    BY DEF Init, Honest, Saved, StartScheduled, RunsScheduled, Visited, FailureKept,
           CutFailed, ExitCodeHonest, Ended
<1>2. Honest => ExitCodeHonest
    BY DEF Honest
<1>3. QED
    BY <1>1, <1>2, HonestStep, TypeCorrect, PTL DEF Spec

-----------------------------------------------------------------------------
(* Exit code 0 means done.  In a run over the whole workflow the loop      *)
(* passes over an optional step only, so that a required one it has passed *)
(* is done or has failed or is blocked; and what it takes for done is      *)
(* true.                                                                   *)

Settled == Done \cup Failed \cup {"blocked"}

Required(s) == Scheduled(s) /\ ~Conf[s].optional

RequiredSettled ==
    pc # "idle" /\ ~cut /\ opt.start_at = NoStep =>
        \A n \in Positions : n < pos /\ Required(Order[n]) => Status(mem, Order[n]) \in Settled

RequiredDone == RequiredSettled /\ ZeroMeansDone

\* Going on to the next step with a row st for this one.
LEMMA AdvanceSettled ==
    ASSUME TypeOK, pos \in Positions, pc # "idle", RequiredSettled,
           NEW st, Record(Current, st), pos' = pos + 1, UNCHANGED <<opt, eff, cut>>,
           Required(Current) => st \in Settled
    PROVE  RequiredSettled'
<1>1. \A n \in Positions :
        /\ Status(mem, Order[n])' = IF n = pos THEN st ELSE Status(mem, Order[n])
        /\ Required(Order[n])' = Required(Order[n])
    BY OneRow, ScheduledSame DEF Required
<1>2. \A n \in Positions : n < pos' <=> n < pos \/ n = pos
    BY ConstantTypes DEF Positions
<1>3. QED
    BY <1>1, <1>2 DEF RequiredSettled, Current

LEMMA LoopStepSettled ==
    ASSUME TypeOK, RequiredSettled, LoopStep
    PROVE  RequiredSettled'
<1>1. pos \in Positions /\ pc = "loop"
    BY DEF LoopStep, PassOver, SkipBeforeStart, SkipSuccess, Block, RecordRunning,
           ToRun, AtStep
<1>2. UNCHANGED <<opt, eff, cut>>
    BY DEF LoopStep, PassOver, SkipBeforeStart, SkipSuccess, Block, RecordRunning,
           Advance, ghostVars
<1>3. CASE PassOver \/ SkipSuccess
    <2>1. /\ pos' = pos + 1 /\ UNCHANGED mem
          /\ Required(Order[pos]) => Status(mem, Order[pos]) \in Settled
        BY <1>3
        DEF PassOver, SkipSuccess, SkipsSuccess, Advance, Current, Required, Settled,
            Done
    <2>2. \A n \in Positions : /\ Required(Order[n])' = Required(Order[n])
                               /\ Status(mem, Order[n])' = Status(mem, Order[n])
        BY <1>2, <2>1, ScheduledSame DEF Required, Status, KeyDate
    <2>3. \A n \in Positions : n < pos + 1 <=> n < pos \/ n = pos
        BY <1>1, ConstantTypes DEF Positions
    <2>4. QED
        BY <1>1, <1>2, <2>1, <2>2, <2>3 DEF RequiredSettled
<1>4. CASE SkipBeforeStart
    BY <1>2, <1>4 DEF SkipBeforeStart, Started, RequiredSettled
<1>5. CASE Block
    <2>1. Record(Current, "blocked") /\ pos' = pos + 1
        BY <1>5 DEF Block, Save, Advance
    <2>2. QED
        BY <1>1, <1>2, <2>1, AdvanceSettled DEF Settled
<1>6. CASE RecordRunning
    <2>1. Record(Current, "running") /\ pos' = pos
        BY <1>6 DEF RecordRunning, Save
    <2>2. \A n \in Positions : n < pos =>
            /\ Required(Order[n])' = Required(Order[n])
            /\ Status(mem, Order[n])' = Status(mem, Order[n])
        BY <1>1, <1>2, <2>1, OneRow, ScheduledSame, ConstantTypes
        DEF Required, Positions
    <2>3. QED
        BY <1>1, <1>2, <2>1, <2>2 DEF RequiredSettled
<1>7. QED
    BY <1>3, <1>4, <1>5, <1>6 DEF LoopStep

LEMMA AfterChildSettled ==
    ASSUME TypeOK, RequiredSettled, AfterChild
    PROVE  RequiredSettled'
<1>1. pc = "result" /\ pos \in Positions /\ UNCHANGED <<opt, eff>>
    BY DEF AfterChild, Succeed, Stop, ContinueOptional, Fail, GoesOn, TypeOK
<1>2. CASE Stop
    BY <1>2 DEF Stop, RequiredSettled
<1>3. CASE Succeed \/ ContinueOptional \/ Fail
    <2>1. PICK st \in Statuses :
            /\ Record(Current, st) /\ pos' = pos + 1 /\ UNCHANGED cut
            /\ Conf[Current].optional \/ st \in Settled
        BY <1>3
        DEF Succeed, ContinueOptional, Fail, Save, Advance, Settled, Done, Failed,
            Statuses, Satisfied, ghostVars
    <2>2. QED
        BY <1>1, <2>1, AdvanceSettled DEF Required
<1>4. QED
    BY <1>2, <1>3 DEF AfterChild

LEMMA FinishDone ==
    ASSUME TypeOK, Truth, Honest, RequiredSettled, Finish
    PROVE  RequiredDone'
<1>1. /\ pc = "loop" /\ pos = Len(Order) + 1 /\ pc' = "idle" /\ exit' = FinalCode
      /\ UNCHANGED <<opt, eff, last>>
    BY DEF Finish, ghostVars
<1>2. \A n \in Positions : n < pos
    BY <1>1, ConstantTypes DEF Positions
<1>3. SUFFICES ASSUME FinalCode = 0, opt.start_at = NoStep,
                      NEW s \in StepIds, Required(s)
               PROVE  last[s][KeyDate(Conf[s].key)] = "ok"
    <2>1. \A t \in StepIds :
            /\ Scheduled(t)' = Scheduled(t)
            /\ KeyDate(Conf[t].key)' = KeyDate(Conf[t].key)
        BY <1>1, ScheduledSame DEF KeyDate
    <2>2. QED
        BY <1>1, <2>1 DEF RequiredDone, RequiredSettled, ZeroMeansDone, Required
<1>4. failed = 0 /\ ~cut
    BY <1>1, <1>3 DEF FinalCode, Honest, CutFailed
<1>5. Status(mem, s) \in Settled
    BY <1>1, <1>2, <1>3, <1>4 DEF RequiredSettled, StepIds
<1>6. Status(mem, s) \notin Failed \cup {"blocked"}
    BY <1>3, <1>4 DEF FinalCode, Required
<1>7. QED
    BY <1>5, <1>6, KeyDateType DEF Settled, Status, Truth, Truthful

LEMMA DoneStep == TypeOK /\ Truth /\ Honest /\ RequiredDone /\ [Next]_vars => RequiredDone'
<1> SUFFICES ASSUME TypeOK, Truth, Honest, RequiredDone, [Next]_vars
             PROVE  RequiredDone'
    OBVIOUS
<1>1. CASE UNCHANGED vars \/ Tick \/ \E s \in StepIds : OrphanEnds(s)
    <2>1. UNCHANGED <<pc, pos, opt, eff, mem, exit, cut, last>>
        BY <1>1 DEF vars, Tick, OrphanEnds, runVars, ghostVars
    <2>2. QED
        BY <2>1
        DEF RequiredDone, RequiredSettled, ZeroMeansDone, Ended, Required, Status,
            KeyDate, Scheduled, ScheduledOn
<1>2. CASE Begin
    <2>1. pc' = "loop" /\ pos' = 1
        BY <1>2 DEF Begin
    <2>2. QED
        BY <2>1, ConstantTypes
        DEF RequiredDone, RequiredSettled, ZeroMeansDone, Ended, Positions
<1>3. CASE Launch \/ \E c \in Codes : ChildEnds(c)
    <2>1. /\ UNCHANGED <<pos, opt, eff, mem, cut>>
          /\ pc # "idle" /\ pc' # "idle"
        BY <1>3 DEF Launch, ChildEnds
    <2>2. QED
        BY <2>1
        DEF RequiredDone, RequiredSettled, ZeroMeansDone, Ended, Required, Status,
            KeyDate, Scheduled, ScheduledOn
<1>4. CASE LoopStep \/ AfterChild
    <2>1. pc' # "idle"
        BY <1>4
        DEF LoopStep, PassOver, SkipBeforeStart, SkipSuccess, Block, RecordRunning,
            AfterChild, Succeed, Stop, ContinueOptional, Fail, Advance
    <2>2. QED
        BY <1>4, <2>1, LoopStepSettled, AfterChildSettled
        DEF RequiredDone, ZeroMeansDone, Ended
<1>5. CASE Crash
    BY <1>5 DEF Crash, RequiredDone, RequiredSettled, ZeroMeansDone, Ended
<1>6. CASE Finish
    BY <1>6, FinishDone DEF RequiredDone
<1>7. QED
    BY <1>1, <1>2, <1>3, <1>4, <1>5, <1>6 DEF Next, Run

\* A run over the whole workflow that exits with 0 means that every scheduled
\* required step has really succeeded: its last execution under the run's key,
\* in this run or before it, ended with exit code 0.
THEOREM ZeroIsDone == Spec => []ZeroMeansDone
<1>1. Init => Truth /\ Honest /\ RequiredDone
    <2> SUFFICES ASSUME Init PROVE Truth /\ Honest /\ RequiredDone
        OBVIOUS
    <2>1. \A s \in StepIds, d \in Days : file[s][d] = "pending" /\ mem[s][d] = "pending"
        BY DEF Init
    <2>2. Truth
        BY <2>1 DEF Init, Truth, Truthful, UnderWay, ResultTrue, Done
    <2>3. QED
        BY <2>2
        DEF Init, Honest, Saved, StartScheduled, RunsScheduled, Visited, FailureKept,
            CutFailed, ExitCodeHonest, RequiredDone, RequiredSettled, ZeroMeansDone,
            Ended
<1>2. RequiredDone => ZeroMeansDone
    BY DEF RequiredDone
<1>3. QED
    BY <1>1, <1>2, TruthStep, HonestStep, DoneStep, TypeCorrect, PTL DEF Spec

-----------------------------------------------------------------------------
(* A failure blocks its dependents and nothing else.  The dependencies of  *)
(* a step come before it in the workflow, so their rows are final when the *)
(* loop decides about it, and the decision still stands at the end.        *)

BlockFits(n) ==
    Scheduled(Order[n]) =>
        /\ Status(mem, Order[n]) = "blocked" => Blocked(Order[n])
        /\ Blocked(Order[n]) /\ (opt.force \/ opt.ignore_state) =>
               Status(mem, Order[n]) = "blocked"

BlocksFit ==
    pc # "idle" /\ ~cut /\ opt.start_at = NoStep =>
        \A n \in Positions : n < pos => BlockFits(n)

RunsUnblocked == pc \in {"launch", "child", "result"} => ~Blocked(Current)

Blocking == BlocksFit /\ RunsUnblocked /\ BlockedByFailureOnly

LEMMA DependencyBefore ==
    ASSUME NEW n \in Positions, NEW d \in Conf[Order[n]].deps
    PROVE  /\ \E m \in Positions : m < n /\ Order[m] = d.on
           /\ DepStatus(d) = Status(mem, d.on)
<1>1. PICK m \in 1 .. n - 1 : Order[m] = d.on
    BY OrderAssumption
<1>2. m \in Positions /\ m < n
    BY ConstantTypes DEF Positions
<1>3. d.key = Conf[d.on].key
    BY OrderAssumption
<1>4. QED
    BY <1>1, <1>2, <1>3 DEF DepStatus

\* What a run knows of a step's inputs does not depend on the step's own row or
\* a later one.
LEMMA BlockedSame ==
    ASSUME TypeOK, pos \in Positions, NEW st, Record(Current, st), UNCHANGED eff,
           NEW n \in Positions, n <= pos
    PROVE  Blocked(Order[n])' = Blocked(Order[n])
<1>1. Deps(Order[n])' = Deps(Order[n])
    BY ScheduledSame DEF Deps
<1>2. ASSUME NEW d \in Conf[Order[n]].deps PROVE DepStatus(d)' = DepStatus(d)
    <2>1. PICK m \in Positions : m < n /\ Order[m] = d.on
        BY DependencyBefore
    <2>2. m # pos
        BY <2>1, ConstantTypes DEF Positions
    <2>3. Status(mem, Order[m])' = Status(mem, Order[m])
        BY <2>2, OneRow
    <2>4. QED
        BY <2>1, <2>3 DEF DepStatus
<1>3. QED
    BY <1>1, <1>2 DEF Blocked, Deps

LEMMA BlockedStays == UNCHANGED <<mem, eff>> => \A s : Blocked(s)' = Blocked(s)
    BY DEF Blocked, Deps, DepStatus, Status, KeyDate, Scheduled, ScheduledOn

LEMMA AdvanceFits ==
    ASSUME TypeOK, pos \in Positions, pc # "idle", BlocksFit,
           NEW st, Record(Current, st), pos' = pos + 1, UNCHANGED <<opt, eff, cut>>,
           st = "blocked" <=> Blocked(Current)
    PROVE  BlocksFit'
<1>1. \A n \in Positions :
        /\ Status(mem, Order[n])' = IF n = pos THEN st ELSE Status(mem, Order[n])
        /\ Scheduled(Order[n])' = Scheduled(Order[n])
        /\ n <= pos => Blocked(Order[n])' = Blocked(Order[n])
    BY OneRow, ScheduledSame, BlockedSame
<1>2. \A n \in Positions : n < pos' <=> n < pos \/ n = pos
    BY ConstantTypes DEF Positions
<1>3. \A n \in Positions : n < pos => n <= pos /\ n # pos
    BY ConstantTypes DEF Positions
<1>4. SUFFICES ASSUME ~cut, opt.start_at = NoStep, NEW n \in Positions, n < pos'
               PROVE  BlockFits(n)'
    BY DEF BlocksFit
<1>5. CASE n = pos
    BY <1>1, <1>5, ConstantTypes DEF BlockFits, Current, Positions
<1>6. CASE n < pos
    BY <1>1, <1>3, <1>4, <1>6 DEF BlockFits, BlocksFit
<1>7. QED
    BY <1>2, <1>4, <1>5, <1>6

LEMMA LoopStepBlocking ==
    ASSUME TypeOK, BlocksFit, LoopStep
    PROVE  BlocksFit' /\ RunsUnblocked'
<1>1. pos \in Positions /\ pc = "loop"
    BY DEF LoopStep, PassOver, SkipBeforeStart, SkipSuccess, Block, RecordRunning,
           ToRun, AtStep
<1>2. UNCHANGED <<opt, eff, cut>>
    BY DEF LoopStep, PassOver, SkipBeforeStart, SkipSuccess, Block, RecordRunning,
           Advance, ghostVars
<1>3. CASE PassOver \/ SkipSuccess
    <2>1. pos' = pos + 1 /\ UNCHANGED mem /\ pc' = "loop"
        BY <1>3 DEF PassOver, SkipSuccess, Advance
    <2>2. BlockFits(pos)
        BY <1>3 DEF PassOver, SkipSuccess, SkipsSuccess, Current, BlockFits
    <2>3. \A n \in Positions : BlockFits(n)' = BlockFits(n)
        BY <1>2, <2>1, ScheduledSame, BlockedStays DEF BlockFits, Status, KeyDate
    <2>4. \A n \in Positions : n < pos + 1 <=> n < pos \/ n = pos
        BY <1>1, ConstantTypes DEF Positions
    <2>5. QED
        BY <1>1, <1>2, <2>1, <2>2, <2>3, <2>4 DEF BlocksFit, RunsUnblocked
<1>4. CASE SkipBeforeStart
    BY <1>2, <1>4 DEF SkipBeforeStart, Started, Advance, BlocksFit, RunsUnblocked
<1>5. CASE Block
    <2>1. /\ Record(Current, "blocked") /\ Blocked(Current)
          /\ pos' = pos + 1 /\ pc' = "loop"
        BY <1>5 DEF Block, Save, Advance
    <2>2. QED
        BY <1>1, <1>2, <2>1, AdvanceFits DEF RunsUnblocked
<1>6. CASE RecordRunning
    <2>1. Record(Current, "running") /\ ~Blocked(Current) /\ pos' = pos
        BY <1>6 DEF RecordRunning, Save
    <2>2. \A n \in Positions : n < pos => n # pos /\ n <= pos
        BY <1>1, ConstantTypes DEF Positions
    <2>3. \A n \in Positions : n < pos => BlockFits(n)' = BlockFits(n)
        BY <1>1, <1>2, <2>1, <2>2, OneRow, BlockedSame, ScheduledSame DEF BlockFits
    <2>4. ~Blocked(Current)'
        <3>1. PICK n \in Positions : n = pos /\ n <= pos
            BY <1>1, ConstantTypes DEF Positions
        <3>2. QED
            BY <1>1, <1>2, <2>1, <3>1, BlockedSame DEF Current
    <2>5. QED
        BY <1>1, <1>2, <2>1, <2>3, <2>4 DEF BlocksFit, RunsUnblocked
<1>7. QED
    BY <1>3, <1>4, <1>5, <1>6 DEF LoopStep

LEMMA AfterChildBlocking ==
    ASSUME TypeOK, BlocksFit, RunsUnblocked, AfterChild
    PROVE  BlocksFit' /\ RunsUnblocked'
<1>1. /\ pc = "result" /\ pos \in Positions /\ pc' = "loop"
      /\ UNCHANGED <<opt, eff>>
    BY DEF AfterChild, Succeed, Stop, ContinueOptional, Fail, GoesOn, Advance, TypeOK
<1>2. CASE Stop
    BY <1>1, <1>2 DEF Stop, BlocksFit, RunsUnblocked
<1>3. CASE Succeed \/ ContinueOptional \/ Fail
    <2>1. PICK st \in Statuses \ {"blocked"} :
            Record(Current, st) /\ pos' = pos + 1 /\ UNCHANGED cut
        BY <1>3
        DEF Succeed, ContinueOptional, Fail, Save, Advance, Failed, Statuses,
            Satisfied, ghostVars
    <2>2. QED
        BY <1>1, <2>1, AdvanceFits DEF RunsUnblocked
<1>4. QED
    BY <1>2, <1>3 DEF AfterChild

LEMMA FinishBlocking ==
    ASSUME TypeOK, Honest, BlocksFit, Finish
    PROVE  Blocking'
<1>1. /\ pc = "loop" /\ pos = Len(Order) + 1 /\ pc' = "idle"
      /\ UNCHANGED <<opt, eff, file, cut>>
    BY DEF Finish, ghostVars
<1>2. \A n \in Positions : n < pos
    BY <1>1, ConstantTypes DEF Positions
<1>3. SUFFICES ASSUME ~cut, opt.start_at = NoStep, NEW s \in StepIds, Scheduled(s)
               PROVE  /\ Row(s)' = "blocked" => LacksInput(s)'
                      /\ LacksInput(s)' /\ (opt.force \/ opt.ignore_state) =>
                             Row(s)' = "blocked"
    BY <1>1, ScheduledSame
    DEF Blocking, BlocksFit, RunsUnblocked, BlockedByFailureOnly, WholeRun
<1>4. file = mem
    BY <1>1, <1>3 DEF Honest, Saved, BeforeStart
<1>5. \A t : Row(t)' = Status(mem, t)
    BY <1>1, <1>4 DEF Row, Status, KeyDate
<1>6. PICK n \in Positions : s = Order[n]
    BY DEF StepIds
<1>7. LacksInput(s)' = Blocked(s)
    <2>1. Deps(s)' = Deps(s)
        BY <1>1, ScheduledSame DEF Deps
    <2>2. \A d \in Deps(s) : DepStatus(d) = Row(d.on)'
        BY <1>5, <1>6, DependencyBefore DEF Deps
    <2>3. QED
        BY <2>1, <2>2 DEF LacksInput, Blocked
<1>8. BlockFits(n)
    BY <1>1, <1>2, <1>3 DEF BlocksFit
<1>9. QED
    BY <1>3, <1>5, <1>6, <1>7, <1>8 DEF BlockFits

LEMMA BlockingStep == TypeOK /\ Honest /\ Blocking /\ [Next]_vars => Blocking'
<1> SUFFICES ASSUME TypeOK, Honest, Blocking, [Next]_vars PROVE Blocking'
    OBVIOUS
<1>1. CASE UNCHANGED vars \/ Tick \/ \E s \in StepIds : OrphanEnds(s)
    <2>1. UNCHANGED <<pc, pos, opt, eff, file, mem, exit, cut>>
        BY <1>1 DEF vars, Tick, OrphanEnds, runVars, ghostVars
    <2>2. BlocksFit' /\ RunsUnblocked'
        BY <2>1, ScheduledSame, BlockedStays
        DEF Blocking, BlocksFit, BlockFits, RunsUnblocked, Status, KeyDate, Current
    <2>3. BlockedByFailureOnly'
        BY <2>1
        DEF Blocking, BlockedByFailureOnly, WholeRun, Ended, LacksInput, Row, Status,
            KeyDate, Deps, Scheduled, ScheduledOn
    <2>4. QED
        BY <2>2, <2>3 DEF Blocking
<1>2. CASE Begin
    <2>1. pc' = "loop" /\ pos' = 1
        BY <1>2 DEF Begin
    <2>2. QED
        BY <2>1, ConstantTypes
        DEF Blocking, BlocksFit, RunsUnblocked, BlockedByFailureOnly, WholeRun, Ended,
            Positions
<1>3. CASE Launch \/ \E c \in Codes : ChildEnds(c)
    <2>1. /\ UNCHANGED <<pos, opt, eff, mem, cut>>
          /\ pc \in {"launch", "child"} /\ pc' \in {"child", "result"}
        BY <1>3 DEF Launch, ChildEnds
    <2>2. QED
        BY <2>1, ScheduledSame, BlockedStays
        DEF Blocking, BlocksFit, BlockFits, RunsUnblocked, BlockedByFailureOnly,
            WholeRun, Ended, Status, KeyDate, Current
<1>4. CASE LoopStep \/ AfterChild
    <2>1. pc' # "idle"
        BY <1>4
        DEF LoopStep, PassOver, SkipBeforeStart, SkipSuccess, Block, RecordRunning,
            AfterChild, Succeed, Stop, ContinueOptional, Fail, Advance
    <2>2. QED
        BY <1>4, <2>1, LoopStepBlocking, AfterChildBlocking
        DEF Blocking, BlockedByFailureOnly, WholeRun, Ended
<1>5. CASE Crash
    BY <1>5
    DEF Crash, Blocking, BlocksFit, RunsUnblocked, BlockedByFailureOnly, WholeRun, Ended
<1>6. CASE Finish
    BY <1>6, FinishBlocking DEF Blocking
<1>7. QED
    BY <1>1, <1>2, <1>3, <1>4, <1>5, <1>6 DEF Next, Run

\* In every run over the whole workflow that was not broken off, a blocked step
\* has a dependency that did not work out; and when the run takes no earlier
\* success for granted, every step with one is blocked.
THEOREM BlockedByFailure == Spec => []BlockedByFailureOnly
<1>1. Init => Honest /\ Blocking
    BY DEF Init, Honest, Saved, StartScheduled, RunsScheduled, Visited, FailureKept,
           CutFailed, ExitCodeHonest, Ended, Blocking, BlocksFit, RunsUnblocked,
           BlockedByFailureOnly, WholeRun
<1>2. Blocking => BlockedByFailureOnly
    BY DEF Blocking
<1>3. QED
    BY <1>1, <1>2, HonestStep, BlockingStep, TypeCorrect, PTL DEF Spec

-----------------------------------------------------------------------------
(* A run that executes every step leaves each one up to date.  A step is   *)
(* launched after the steps it depends on, and later launches concern its  *)
(* dependents only; what remains is a process that outlives its step: none *)
(* of an earlier run is there, and the run stops at one of its own.        *)

\* The step at n has seen the last of its dependencies.
SeenAll(n) == \A d \in Conf[Order[n]].deps : d.on \notin behind[Order[n]]

Executing ==
    /\ pc # "idle" /\ quiet /\ ~cut
    /\ opt.start_at = NoStep /\ (opt.force \/ opt.ignore_state)

NoStrayProcess ==
    Executing =>
        /\ orphans = {}
        /\ stuck # {} =>
               pc = "result" /\ code = CleanupFailedCode /\ stuck = {Current}

InOrder ==
    Executing =>
        /\ \A n \in Positions :
               n < pos /\ Scheduled(Order[n]) /\ Status(mem, Order[n]) \in Done => SeenAll(n)
        /\ pc \in {"child", "result"} => SeenAll(pos)

FullRunOver ==
    /\ Ended /\ exit = 0 /\ quiet
    /\ opt.start_at = NoStep /\ (opt.force \/ opt.ignore_state)

RestsInOrder ==
    FullRunOver =>
        /\ orphans = {} /\ stuck = {}
        /\ \A n \in Positions :
               Scheduled(Order[n]) /\ Status(file, Order[n]) \in Done => SeenAll(n)

Ordered == NoStrayProcess /\ InOrder /\ RestsInOrder

\* The step at pos is no dependency of itself or of an earlier step.
LEMMA CurrentNotBefore ==
    ASSUME pos \in Positions, NEW n \in Positions, n <= pos,
           NEW d \in Conf[Order[n]].deps
    PROVE  d.on # Current
<1>1. PICK m \in Positions : m < n /\ Order[m] = d.on
    BY DependencyBefore
<1>2. m # pos
    BY <1>1, ConstantTypes DEF Positions
<1>3. QED
    BY <1>1, <1>2, WorkflowAssumption DEF Current

LEMMA SeenSame == UNCHANGED behind => \A n : SeenAll(n)' = SeenAll(n)
    BY DEF SeenAll

LEMMA LoopStepOrdered == ASSUME TypeOK, Ordered, LoopStep PROVE Ordered'
<1>1. pos \in Positions /\ pc = "loop"
    BY DEF LoopStep, PassOver, SkipBeforeStart, SkipSuccess, Block, RecordRunning,
           ToRun, AtStep
<1>2. UNCHANGED <<opt, eff, cut, quiet, behind, orphans, stuck>>
    BY DEF LoopStep, PassOver, SkipBeforeStart, SkipSuccess, Block, RecordRunning,
           Advance, ghostVars, processVars
<1>3. pc' \in {"loop", "launch"}
    BY DEF LoopStep, PassOver, SkipBeforeStart, SkipSuccess, Block, RecordRunning,
           Advance
<1>4. NoStrayProcess' /\ RestsInOrder'
    BY <1>1, <1>2, <1>3
    DEF Ordered, NoStrayProcess, Executing, RestsInOrder, FullRunOver, Ended
<1>5. \A n \in Positions : n < pos + 1 <=> n < pos \/ n = pos
    BY <1>1, ConstantTypes DEF Positions
<1>6. \A n \in Positions : Scheduled(Order[n])' = Scheduled(Order[n]) /\ SeenAll(n)' = SeenAll(n)
    BY <1>2, ScheduledSame, SeenSame
<1>7. SUFFICES ASSUME Executing,
                      NEW n \in Positions, n < pos', Scheduled(Order[n]),
                      Status(mem, Order[n])' \in Done
               PROVE  SeenAll(n)
    BY <1>1, <1>2, <1>3, <1>4, <1>6 DEF Ordered, InOrder, Executing
<1>8. n < pos /\ Status(mem, Order[n]) = Status(mem, Order[n])'
    <2>1. CASE PassOver
        <3>1. pos' = pos + 1 /\ UNCHANGED mem /\ ~Scheduled(Order[pos])
            BY <2>1 DEF PassOver, Advance, Current
        <3>2. QED
            BY <1>2, <1>5, <1>7, <3>1 DEF Status, KeyDate
    <2>2. CASE SkipBeforeStart \/ SkipSuccess
        BY <1>7, <2>2 DEF SkipBeforeStart, SkipSuccess, SkipsSuccess, Started, Executing
    <2>3. CASE Block \/ RecordRunning
        <3>1. PICK st \in {"blocked", "running"} :
                /\ Record(Current, st)
                /\ pos' = pos + 1 \/ pos' = pos
            BY <2>3 DEF Block, RecordRunning, Save, Advance
        <3>2. n # pos
            BY <1>1, <1>2, <1>7, <3>1, OneRow DEF Done
        <3>3. QED
            BY <1>1, <1>2, <1>5, <1>7, <3>1, <3>2, OneRow
    <2>4. QED
        BY <2>1, <2>2, <2>3 DEF LoopStep
<1>9. QED
    BY <1>7, <1>8 DEF Ordered, InOrder

LEMMA LaunchOrdered == ASSUME TypeOK, Ordered, Launch PROVE Ordered'
<1>1. /\ pos \in Positions /\ pc = "launch" /\ pc' = "child"
      /\ UNCHANGED <<pos, opt, eff, mem, cut, quiet, orphans, stuck>>
    BY DEF Launch, TypeOK, processVars
<1>2. NoStrayProcess' /\ RestsInOrder'
    BY <1>1
    DEF Ordered, NoStrayProcess, Executing, RestsInOrder, FullRunOver, Ended
<1>3. Current \in StepIds /\ \A n \in Positions : Order[n] \in StepIds
    BY <1>1, CurrentType, ConstantTypes
<1>4. \A t \in StepIds :
        behind'[t] = IF t = Current THEN {}
                     ELSE IF \E d \in Conf[t].deps : d.on = Current
                          THEN behind[t] \cup {Current} ELSE behind[t]
    BY DEF Launch, Touch
<1>5. SeenAll(pos)'
    BY <1>1, <1>3, <1>4 DEF SeenAll, Current
<1>6. ASSUME NEW n \in Positions, n < pos, SeenAll(n) PROVE SeenAll(n)'
    <2>1. n <= pos
        BY <1>1, <1>6, ConstantTypes DEF Positions
    <2>2. \A d \in Conf[Order[n]].deps : d.on # Current
        BY <1>1, <2>1, CurrentNotBefore
    <2>3. QED
        BY <1>3, <1>4, <1>6, <2>2 DEF SeenAll
<1>7. \A n \in Positions : /\ Scheduled(Order[n])' = Scheduled(Order[n])
                           /\ Status(mem, Order[n])' = Status(mem, Order[n])
    BY <1>1, ScheduledSame DEF Status, KeyDate
<1>8. InOrder'
    BY <1>1, <1>5, <1>6, <1>7 DEF Ordered, InOrder, Executing
<1>9. QED
    BY <1>2, <1>8 DEF Ordered

LEMMA ChildEndsOrdered == ASSUME TypeOK, Ordered, NEW c \in Codes, ChildEnds(c) PROVE Ordered'
<1>1. /\ pc = "child" /\ pc' = "result" /\ code' = c
      /\ stuck' = IF c = CleanupFailedCode THEN stuck \cup {Current} ELSE stuck
      /\ UNCHANGED <<pos, opt, eff, mem, cut, quiet, orphans, behind>>
    BY DEF ChildEnds
<1>2. Current' = Current
    BY <1>1 DEF Current
<1>3. NoStrayProcess'
    BY <1>1, <1>2 DEF Ordered, NoStrayProcess, Executing
<1>4. InOrder'
    BY <1>1, ScheduledSame, SeenSame DEF Ordered, InOrder, Executing, Status, KeyDate
<1>5. QED
    BY <1>1, <1>3, <1>4 DEF Ordered, RestsInOrder, FullRunOver, Ended

LEMMA AfterChildOrdered == ASSUME TypeOK, Ordered, AfterChild PROVE Ordered'
<1>1. /\ pc = "result" /\ pos \in Positions /\ pc' = "loop"
      /\ UNCHANGED <<opt, eff, quiet, behind, orphans, stuck>>
    BY DEF AfterChild, Succeed, Stop, ContinueOptional, Fail, GoesOn, Advance, TypeOK,
           ghostVars, processVars
<1>2. CASE Stop
    BY <1>1, <1>2
    DEF Stop, Ordered, NoStrayProcess, InOrder, Executing, RestsInOrder, FullRunOver,
        Ended
<1>3. CASE Succeed \/ ContinueOptional \/ Fail
    <2>1. PICK st : /\ Record(Current, st) /\ pos' = pos + 1
                    /\ UNCHANGED cut /\ code # CleanupFailedCode
        BY <1>3
        DEF Succeed, ContinueOptional, Fail, GoesOn, Save, Advance, CleanupFailedCode,
            ghostVars
    <2>2. NoStrayProcess' /\ RestsInOrder'
        BY <1>1, <2>1
        DEF Ordered, NoStrayProcess, Executing, RestsInOrder, FullRunOver, Ended
    <2>3. \A n \in Positions :
            /\ Scheduled(Order[n])' = Scheduled(Order[n])
            /\ SeenAll(n)' = SeenAll(n)
            /\ n # pos => Status(mem, Order[n])' = Status(mem, Order[n])
        BY <1>1, <2>1, OneRow, ScheduledSame, SeenSame
    <2>4. \A n \in Positions : n < pos + 1 => n = pos \/ (n < pos /\ n # pos)
        BY <1>1, ConstantTypes DEF Positions
    <2>5. InOrder'
        BY <1>1, <2>1, <2>3, <2>4 DEF Ordered, InOrder, Executing
    <2>6. QED
        BY <2>2, <2>5 DEF Ordered
<1>4. QED
    BY <1>2, <1>3 DEF AfterChild

LEMMA FinishOrdered == ASSUME TypeOK, Honest, Ordered, Finish PROVE Ordered'
<1>1. /\ pc = "loop" /\ pos = Len(Order) + 1 /\ pc' = "idle" /\ exit' = FinalCode
      /\ UNCHANGED <<opt, eff, file, cut, quiet, behind, orphans, stuck>>
    BY DEF Finish, ghostVars, processVars
<1>2. \A n \in Positions : n < pos
    BY <1>1, ConstantTypes DEF Positions
<1>3. ASSUME FullRunOver' PROVE Executing /\ file = mem
    <2>1. failed = 0 /\ ~cut
        BY <1>1, <1>3 DEF FullRunOver, FinalCode, Honest, CutFailed
    <2>2. QED
        BY <1>1, <1>3, <2>1 DEF FullRunOver, Executing, Honest, Saved, BeforeStart
<1>4. \A n \in Positions :
        /\ Scheduled(Order[n])' = Scheduled(Order[n])
        /\ SeenAll(n)' = SeenAll(n)
        /\ Status(file, Order[n])' = Status(file, Order[n])
    BY <1>1, ScheduledSame, SeenSame DEF Status, KeyDate
<1>5. RestsInOrder'
    BY <1>1, <1>2, <1>3, <1>4 DEF Ordered, NoStrayProcess, InOrder, RestsInOrder
<1>6. QED
    BY <1>1, <1>5 DEF Ordered, NoStrayProcess, InOrder, Executing

LEMMA OrphanEndsOrdered ==
    ASSUME TypeOK, Ordered, NEW s \in StepIds, OrphanEnds(s)
    PROVE  Ordered'
<1>1. /\ s \in orphans \cup stuck /\ orphans' = orphans \ {s} /\ stuck' = stuck \ {s}
      /\ UNCHANGED <<pc, pos, opt, eff, mem, code, exit, file, cut, quiet>>
    BY DEF OrphanEnds, runVars
<1>2. RestsInOrder'
    BY <1>1 DEF Ordered, RestsInOrder, FullRunOver, Ended
<1>3. CASE ~Executing
    BY <1>1, <1>2, <1>3 DEF Ordered, NoStrayProcess, InOrder, Executing
<1>4. CASE Executing
    <2>1. pc = "result" /\ s = Current /\ orphans = {} /\ stuck = {s}
        BY <1>1, <1>4 DEF Ordered, NoStrayProcess
    <2>2. pos \in Positions
        BY <2>1 DEF TypeOK
    <2>3. ASSUME NEW n \in Positions, n <= pos, SeenAll(n) PROVE SeenAll(n)'
        <3>1. \A d \in Conf[Order[n]].deps : d.on # s
            BY <2>1, <2>2, <2>3, CurrentNotBefore
        <3>2. behind'[Order[n]] = behind[Order[n]]
            BY <3>1, ConstantTypes DEF OrphanEnds
        <3>3. QED
            BY <2>3, <3>2 DEF SeenAll
    <2>4. pos <= pos /\ \A n \in Positions : n < pos => n <= pos
        BY <2>2, ConstantTypes DEF Positions
    <2>5. \A n \in Positions : /\ Scheduled(Order[n])' = Scheduled(Order[n])
                               /\ Status(mem, Order[n])' = Status(mem, Order[n])
        BY <1>1, ScheduledSame DEF Status, KeyDate
    <2>6. InOrder'
        BY <1>1, <1>4, <2>2, <2>3, <2>4, <2>5 DEF Ordered, InOrder, Executing
    <2>7. NoStrayProcess'
        BY <1>1, <2>1 DEF NoStrayProcess
    <2>8. QED
        BY <1>2, <2>6, <2>7 DEF Ordered
<1>5. QED
    BY <1>3, <1>4

LEMMA OrderedStep == TypeOK /\ Honest /\ Ordered /\ [Next]_vars => Ordered'
<1> SUFFICES ASSUME TypeOK, Honest, Ordered, [Next]_vars PROVE Ordered'
    OBVIOUS
<1>1. CASE UNCHANGED vars \/ Tick
    <2>1. UNCHANGED <<pc, pos, opt, eff, file, mem, code, exit, cut, quiet, behind,
                      orphans, stuck>>
        BY <1>1 DEF vars, Tick, runVars, processVars, ghostVars
    <2>2. QED
        BY <2>1, ScheduledSame, SeenSame
        DEF Ordered, NoStrayProcess, InOrder, RestsInOrder, Executing, FullRunOver,
            Ended, Status, KeyDate, Current
<1>2. CASE Begin
    <2>1. /\ pc' = "loop" /\ pos' = 1 /\ stuck' = {}
          /\ quiet' => orphans' = {}
        BY <1>2 DEF Begin
    <2>2. QED
        BY <2>1, ConstantTypes
        DEF Ordered, NoStrayProcess, InOrder, RestsInOrder, Executing, FullRunOver,
            Ended, Positions
<1>3. CASE Crash
    BY <1>3
    DEF Crash, Ordered, NoStrayProcess, InOrder, RestsInOrder, Executing, FullRunOver,
        Ended
<1>4. QED
    BY <1>1, <1>2, <1>3, LoopStepOrdered, LaunchOrdered, ChildEndsOrdered,
       AfterChildOrdered, FinishOrdered, OrphanEndsOrdered
    DEF Next, Run

\* A run that executes every scheduled step and exits with 0, with no process of
\* an earlier run about, leaves no step that succeeded on less than the last of
\* its dependencies.
THEOREM FullRunFresh == Spec => []FullRunUpToDate
<1>1. Init => Honest /\ Ordered
    BY DEF Init, Honest, Saved, StartScheduled, RunsScheduled, Visited, FailureKept,
           CutFailed, ExitCodeHonest, Ended, Ordered, NoStrayProcess, InOrder,
           RestsInOrder, Executing, FullRunOver
<1>2. Ordered => FullRunUpToDate
    <2> SUFFICES ASSUME Ordered, FullRunOver,
                        NEW s \in StepIds, Scheduled(s), Row(s) \in Done,
                        NEW d \in Deps(s)
                 PROVE  d.on \notin behind[s]
        BY DEF FullRunUpToDate, FullRunOver, UpToDate
    <2>1. PICK n \in Positions : s = Order[n]
        BY DEF StepIds
    <2>2. SeenAll(n)
        BY <2>1 DEF Ordered, RestsInOrder, Row
    <2>3. QED
        BY <2>1, <2>2 DEF SeenAll, Deps
<1>3. QED
    BY <1>1, <1>2, HonestStep, OrderedStep, TypeCorrect, PTL DEF Spec

=============================================================================
