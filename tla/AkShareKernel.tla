---------------------------- MODULE AkShareKernel ----------------------------
(***************************************************************************)
(* One module of update_akshare: the main thread keeps up to target_workers*)
(* fetches under way, collects them in batches and records each (file      *)
(* pipeline/execution.py).  A fetch makes one runtime.fetch after another, *)
(* one for each statement of a financial report and a single one for the   *)
(* other targets (file client.py); every runtime.fetch asks the endpoint's *)
(* circuit breaker once, then calls the endpoint on a second pool whose    *)
(* threads a call that timed out keeps (file core/runtime.py).             *)
(*                                                                         *)
(* A pool of one thread stands for the sequential loop, which does the same*)
(* in the main thread.  What record_result writes is in modules of its own.*)
(***************************************************************************)
EXTENDS Integers, Sequences, FiniteSets

CONSTANTS
    TaskCount,          \* selected_tasks, numbered in order
    Policies,           \* ConcurrencyPolicy values: [workers, adaptive, stop]
    Statements,         \* runtime.fetch calls of one task, REPORT_TYPE_TO_SYMBOL or one
    TimeoutThreads,     \* api.akshare.workers
    Retries,            \* max_retries
    FailureThreshold,   \* failure_threshold of the endpoint
    MaxCooldowns,       \* bound: how often a cooldown may pass during a run
    WindowSize, RecoverySuccesses, ConsecutiveFailures  \* of the controller

Fetches == 1..TaskCount
PolicyType == [workers : Nat \ {0}, adaptive : BOOLEAN, stop : BOOLEAN]

ASSUME KernelAssumption ==
    /\ TaskCount \in Nat /\ MaxCooldowns \in Nat
    /\ Statements \in Nat \ {0} /\ TimeoutThreads \in Nat \ {0} /\ Retries \in Nat \ {0}
    /\ FailureThreshold \in Nat \ {0}
    /\ WindowSize \in Nat \ {0} /\ RecoverySuccesses \in Nat \ {0}
    /\ ConsecutiveFailures \in Nat \ {0}
    /\ Policies \subseteq PolicyType

VARIABLES           \* of the main thread
    policy,
    at,             \* where it is
    reportLock,     \* whether akshare_financial_report.lock exists
    nextTask,       \* task_index, from 1
    pending,        \* futures submitted and not collected
    batch,          \* what wait returned and the loop has not come to
    opened,         \* circuit_opened, and with it stop_submitting
    pace,           \* the AdaptiveConcurrencyController
    outcomes,       \* the statuses recorded for each task
    aborted         \* an exception left the loop

VARIABLES           \* of the fetches
    phase, result,
    attempt,        \* attempts of the runtime.fetch under way
    fetched         \* statements answered, which wait for the others

VARIABLES           \* of the endpoint
    failures,       \* consecutive_failures
    circuit,        \* circuit_open_until: none, in the future or in the past
    cooldowns,
    calls,          \* calls waiting for a thread of the timeout pool, in order
    underway,       \* fetches whose call has a thread
    hung,           \* threads still in a call whose caller gave up
    late            \* history: calls begun since the circuit opened

mainVars == <<policy, at, reportLock, nextTask, pending, batch, opened, pace,
              outcomes, aborted>>
fetchVars == <<phase, attempt, result, fetched>>
endpointVars == <<failures, circuit, cooldowns, calls, underway, hung, late>>
kernelVars == <<mainVars, fetchVars, endpointVars>>

KernelInit ==
    /\ policy \in Policies
    /\ at = "start" /\ reportLock \in BOOLEAN
    /\ nextTask = 1 /\ pending = {} /\ batch = {} /\ opened = FALSE
    /\ pace = [target |-> policy.workers, recent |-> <<>>, good |-> 0, bad |-> 0]
    /\ outcomes = [t \in Fetches |-> <<>>] /\ aborted = FALSE
    /\ phase = [t \in Fetches |-> "planned"]
    /\ attempt = [t \in Fetches |-> 0] /\ fetched = [t \in Fetches |-> 0]
    /\ result = [t \in Fetches |-> "none"]
    /\ failures = 0 /\ circuit = "closed" /\ cooldowns = 0
    /\ calls = <<>> /\ underway = {} /\ hung = 0 /\ late = 0

-----------------------------------------------------------------------------
(* AdaptiveConcurrencyController                                           *)

Decreased(p) == IF p.target > 1 THEN p.target - 1 ELSE p.target
Increased(p) == IF p.target < policy.workers THEN p.target + 1 ELSE p.target

Paced(p, success) ==
    LET seen == Append(p.recent, success)
        recent == IF Len(seen) > WindowSize THEN Tail(seen) ELSE seen
        good == IF success THEN p.good + 1 ELSE 0
        bad == IF success THEN 0 ELSE p.bad + 1
        failed == Cardinality({n \in DOMAIN recent : ~recent[n]})
        tooMany == Len(recent) = WindowSize /\ 100 * failed > 15 * WindowSize
    IN CASE ~policy.adaptive -> p
         [] policy.adaptive /\ bad >= ConsecutiveFailures ->
              [target |-> Decreased(p), recent |-> <<>>, good |-> 0, bad |-> 0]
         [] policy.adaptive /\ bad < ConsecutiveFailures /\ tooMany ->
              [target |-> Decreased(p), recent |-> <<>>, good |-> 0, bad |-> bad]
         [] policy.adaptive /\ ~tooMany /\ success /\ good >= RecoverySuccesses ->
              [target |-> Increased(p), recent |-> <<>>, good |-> 0, bad |-> bad]
         [] OTHER -> [target |-> p.target, recent |-> recent, good |-> good, bad |-> bad]

-----------------------------------------------------------------------------
(* The main thread                                                         *)

\* submit_until_target: the tasks it submits when `rest` are pending.
Submissions(rest, from, stop, target) ==
    IF stop THEN {} ELSE {t \in Fetches : from <= t /\ t < from + target - Cardinality(rest)}

Submit(rest, from, stop, target) ==
    LET new == Submissions(rest, from, stop, target) IN
    /\ pending' = rest \cup new
    /\ nextTask' = from + Cardinality(new)
    /\ phase' = [t \in Fetches |-> IF t \in new THEN "submitted" ELSE phase[t]]
    /\ at' = IF rest \cup new = {} THEN "finish" ELSE "wait"

\* _acquire_update_lock, plan, prefilter and the first submissions.
Begin ==
    /\ at = "start" /\ ~reportLock
    /\ reportLock' = TRUE
    /\ Submit({}, 1, FALSE, pace.target)
    /\ UNCHANGED <<policy, batch, opened, pace, outcomes, aborted, attempt, result,
                   fetched, endpointVars>>

\* The lock file is there: nothing tells whether its owner is.
Refused ==
    /\ at = "start" /\ reportLock
    /\ at' = "refused"
    /\ UNCHANGED <<policy, reportLock, nextTask, pending, batch, opened, pace, outcomes,
                   aborted, fetchVars, endpointVars>>

Done(t) == phase[t] = "done"

\* wait(pending, return_when=FIRST_COMPLETED)
WaitReturns ==
    /\ at = "wait"
    /\ batch' = {t \in pending : Done(t)} /\ batch' # {}
    /\ at' = "batch"
    /\ UNCHANGED <<policy, reportLock, nextTask, pending, opened, pace, outcomes, aborted,
                   fetchVars, endpointVars>>

\* Past the last future of a batch the loop submits and waits again.
Collected(t, from, stop, target) ==
    /\ batch' = batch \ {t}
    /\ \/ /\ batch' = {} /\ Submit(pending \ {t}, from, stop, target)
       \/ /\ batch' # {}
          /\ pending' = pending \ {t} /\ nextTask' = from
          /\ UNCHANGED <<phase, at>>

\* Mutant: every late result is skipped, not only the refused ones.
SkipsEvery(t) == opened

SkipsLate(t) == opened /\ result[t] = "open"

CollectLate(t) ==
    /\ at = "batch" /\ t \in batch
    /\ SkipsLate(t)
    /\ outcomes' = [outcomes EXCEPT ![t] = Append(@, "skipped")]
    /\ Collected(t, nextTask, opened, pace.target)
    /\ UNCHANGED <<policy, reportLock, opened, pace, aborted, attempt, result, fetched,
                   endpointVars>>

\* record_result: what was fetched is written, or the write fails.
Recorded(t) == IF result[t] = "ok" THEN {"success", "failed"} ELSE {"failed"}

Collect(t) ==
    /\ at = "batch" /\ t \in batch
    /\ ~SkipsLate(t)
    /\ LET stops == policy.stop /\ result[t] = "open"
           paced == Paced(pace, result[t] = "ok")
           skipped == IF stops THEN nextTask..TaskCount ELSE {}
       IN /\ pace' = paced
          /\ opened' = (opened \/ stops)
          /\ \E status \in Recorded(t) :
                outcomes' = [u \in Fetches |->
                    IF u = t THEN Append(outcomes[t], status)
                    ELSE IF u \in skipped THEN Append(outcomes[u], "skipped")
                    ELSE outcomes[u]]
          /\ Collected(t, IF stops THEN TaskCount + 1 ELSE nextTask, opened', paced.target)
    /\ UNCHANGED <<policy, reportLock, aborted, attempt, result, fetched, endpointVars>>

\* The metadata flush inside record_result fails: the exception leaves the loop,
\* and the pool waits for the fetches under way before it lets it pass.
CollectRaises(t) ==
    /\ at = "batch" /\ t \in batch
    /\ at' = "raised" /\ aborted' = TRUE
    /\ pending' = pending \ {t} /\ batch' = {}
    /\ UNCHANGED <<policy, reportLock, nextTask, opened, pace, outcomes, fetchVars,
                   endpointVars>>

\* lifecycle.finish() and the finally clause.
Finish ==
    /\ \/ at = "finish"
       \/ at = "raised" /\ \A t \in pending : Done(t)
    /\ at' = "returned" /\ reportLock' = FALSE
    /\ UNCHANGED <<policy, nextTask, pending, batch, opened, pace, outcomes, aborted,
                   fetchVars, endpointVars>>

\* The process is killed; the lock file stays.
Killed ==
    /\ at \in {"wait", "batch", "finish", "raised"}
    /\ at' = "killed"
    /\ UNCHANGED <<policy, reportLock, nextTask, pending, batch, opened, pace, outcomes,
                   aborted, fetchVars, endpointVars>>

-----------------------------------------------------------------------------
(* A fetch                                                                 *)

Ends(t, r) == /\ phase' = [phase EXCEPT ![t] = "done"]
              /\ result' = [result EXCEPT ![t] = r]

\* Mutant: the circuit is asked only by endpoints without failures.
RefusesFirst == circuit = "open" /\ failures > FailureThreshold

Refuses == circuit = "open"

\* _raise_if_circuit_open, once for each statement: a refusal throws away the statements
\* already answered.
Enter(t) ==
    /\ phase[t] = "submitted"
    /\ \/ /\ Refuses
          /\ Ends(t, "open")
          /\ UNCHANGED <<circuit, failures>>
       \/ /\ ~Refuses
          /\ phase' = [phase EXCEPT ![t] = "passed"]
          /\ circuit' = IF circuit = "expired" THEN "closed" ELSE circuit
          /\ failures' = IF circuit = "expired" THEN 0 ELSE failures
          /\ UNCHANGED result
    /\ UNCHANGED <<mainVars, attempt, fetched, cooldowns, calls, underway, hung, late>>

Free == Cardinality(underway) + hung < TimeoutThreads

\* One attempt: the call is handed to the timeout pool.
Call(t) ==
    /\ phase[t] = "passed"
    /\ phase' = [phase EXCEPT ![t] = "calling"]
    /\ attempt' = [attempt EXCEPT ![t] = @ + 1]
    /\ calls' = Append(calls, t)
    /\ late' = IF circuit = "open" THEN late + 1 ELSE late
    /\ UNCHANGED <<mainVars, result, fetched, failures, circuit, cooldowns, underway, hung>>

ThreadTakes ==
    /\ Free /\ calls # <<>>
    /\ underway' = underway \cup {Head(calls)} /\ calls' = Tail(calls)
    /\ UNCHANGED <<mainVars, fetchVars, failures, circuit, cooldowns, hung, late>>

RecordSuccess == failures' = 0 /\ circuit' = "closed" /\ late' = 0

RecordFailure ==
    /\ failures' = failures + 1
    /\ circuit' = IF failures' >= FailureThreshold THEN "open" ELSE circuit
    /\ late' = IF circuit' = "open" /\ circuit # "open" THEN 0 ELSE late

\* The next statement is a runtime.fetch of its own; the last one completes the task.
StatementFetched(t) ==
    /\ fetched' = [fetched EXCEPT ![t] = @ + 1]
    /\ \/ /\ fetched[t] + 1 < Statements
          /\ phase' = [phase EXCEPT ![t] = "submitted"]
          /\ attempt' = [attempt EXCEPT ![t] = 0]
          /\ UNCHANGED result
       \/ /\ fetched[t] + 1 >= Statements
          /\ Ends(t, "ok") /\ UNCHANGED attempt

\* The call answered, or raised an error that is not tried again.
Answered(t) ==
    /\ t \in underway
    /\ underway' = underway \ {t}
    /\ \/ RecordSuccess /\ StatementFetched(t)
       \/ /\ Ends(t, "failed")
          /\ \/ RecordFailure                       \* schema drift, empty data
             \/ UNCHANGED <<failures, circuit, late>>  \* None, which the normalizer rejects
          /\ UNCHANGED <<attempt, fetched>>
    /\ UNCHANGED <<mainVars, cooldowns, calls, hung>>

TryAgain(t) ==
    \/ /\ attempt[t] < Retries
       /\ phase' = [phase EXCEPT ![t] = "passed"]
       /\ UNCHANGED <<result, failures, circuit, late>>
    \/ attempt[t] >= Retries /\ RecordFailure /\ Ends(t, "failed")

CallFails(t) ==
    /\ t \in underway
    /\ underway' = underway \ {t}
    /\ TryAgain(t)
    /\ UNCHANGED <<mainVars, attempt, fetched, cooldowns, calls, hung>>

\* Mutant: the time of a call runs from when a thread takes it.
TimesOutTaken(t) ==
    /\ t \in underway
    /\ underway' = underway \ {t} /\ hung' = hung + 1
    /\ TryAgain(t)
    /\ UNCHANGED <<mainVars, attempt, fetched, cooldowns, calls>>

\* cancel() of the nth call that waits.
Without(n) == SubSeq(calls, 1, n - 1) \o SubSeq(calls, n + 1, Len(calls))

\* future.result(timeout): the time runs from the submission.  cancel() takes back a
\* call that waits for a thread; one that runs keeps its thread.
TimesOut(t) ==
    /\ phase[t] = "calling"
    /\ \/ \E n \in DOMAIN calls :
             /\ calls[n] = t /\ calls' = Without(n)
             /\ UNCHANGED <<underway, hung>>
       \/ /\ t \in underway
          /\ underway' = underway \ {t} /\ hung' = hung + 1
          /\ UNCHANGED calls
    /\ TryAgain(t)
    /\ UNCHANGED <<mainVars, attempt, fetched, cooldowns>>

\* The provider lets go of a call nobody waits for.
HungReturns ==
    /\ hung > 0 /\ hung' = hung - 1
    /\ UNCHANGED <<mainVars, fetchVars, failures, circuit, cooldowns, calls, underway, late>>

CooldownPasses ==
    /\ circuit = "open" /\ cooldowns < MaxCooldowns
    /\ circuit' = "expired" /\ cooldowns' = cooldowns + 1 /\ late' = 0
    /\ UNCHANGED <<mainVars, fetchVars, failures, calls, underway, hung>>

-----------------------------------------------------------------------------

MainThread ==
    \/ Begin \/ Refused \/ WaitReturns \/ Finish
    \/ \E t \in Fetches : CollectLate(t) \/ Collect(t)

Fetch(t) == Enter(t) \/ Call(t) \/ TimesOut(t)

KernelNext ==
    \/ MainThread \/ Killed
    \/ \E t \in Fetches : CollectRaises(t)
    \/ /\ at # "killed"
       /\ \/ ThreadTakes \/ HungReturns \/ CooldownPasses
          \/ \E t \in Fetches : Fetch(t) \/ Answered(t) \/ CallFails(t)

KernelFairness ==
    /\ WF_kernelVars(MainThread)
    /\ \A t \in Fetches : WF_kernelVars(at # "killed" /\ Fetch(t))

KernelSpec == KernelInit /\ [][KernelNext]_kernelVars /\ KernelFairness

-----------------------------------------------------------------------------

\* Every task a run selected has one outcome, whatever order results and the opening of
\* the circuit come in (execution.py:192).  A task is reported as skipped only if it was
\* never submitted or the circuit refused one of its statements, after it had stopped the
\* run; what came back complete is never skipped, only what came back complete is stored
\* (client.py:164), and a run that ends without an exception has an outcome for each.
OneOutcome ==
    /\ \A t \in Fetches :
        /\ Len(outcomes[t]) <= 1
        /\ outcomes[t] = <<"skipped">> => opened /\ (phase[t] = "planned" \/ result[t] = "open")
        /\ outcomes[t] = <<"success">> => result[t] = "ok" /\ fetched[t] = Statements
    /\ at = "returned" /\ ~aborted => \A t \in Fetches : Len(outcomes[t]) = 1

\* While the circuit of an endpoint is open, only fetches that had asked before it opened
\* still call it: the others of the pool, for the attempts the statement they are at has
\* left (runtime.py:90 asks once for all attempts).
CircuitHolds == late <= (policy.workers - 1) * Retries

\* A run that got the lock returns and removes the lock file, even if no call to the
\* endpoint ever returns, unless the process is killed.
UpdateEnds == at = "wait" ~> (at = "returned" /\ ~reportLock) \/ at = "killed"

=============================================================================
