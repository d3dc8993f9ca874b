------------------------------ MODULE UpdatePool ------------------------------
(***************************************************************************)
(* The dispatcher of src/sources/baostock/update_daily.py: the main thread *)
(* makes every provider call and submits what came back to a thread pool,  *)
(* at most MaxPending tasks at a time; a task may answer with the request  *)
(* for another fetch, which the main thread makes when it collects the     *)
(* result, in the middle of whatever it was doing.                         *)
(*                                                                         *)
(* The main thread is a position in the loop over the codes and the stack  *)
(* of the calls it is in: submit_background, the rest of a drain_completed *)
(* and the flush_ordered_run_records that ends a collect_completed.  What  *)
(* the tasks do to the files is module BaostockDaily.                      *)
(***************************************************************************)
EXTENDS Integers, Sequences, FiniteSets

CONSTANTS
    UpdateCodes,    \* the codes to update, in order, each of them once
    Workers,        \* pipeline.background_workers
    MaxPending,     \* pipeline.background_max_pending
    Targets         \* what runs ask for: "factor", "unadjusted", "adjusted"

Stocks == {UpdateCodes[n] : n \in DOMAIN UpdateCodes}

Factor(c) == [kind |-> "factor", code |-> c]
DailyTask(c) == [kind |-> "daily", code |-> c]
Refetch(c) == [kind |-> "refetch", code |-> c]

CodeTask == [kind : {"factor", "daily", "refetch"}, code : Stocks]
FlushTask == [kind |-> "flush"]
Tasks == CodeTask \cup {FlushTask}

ASSUME PoolAssumption ==
    /\ UpdateCodes \in Seq(Stocks)
    /\ \A m, n \in DOMAIN UpdateCodes : UpdateCodes[m] = UpdateCodes[n] => m = n
    /\ Workers \in Nat \ {0} /\ MaxPending \in Nat \ {0}
    /\ Targets \subseteq {"factor", "unadjusted", "adjusted"}

VARIABLES
    targets,    \* the targets of this run
    at,         \* what the main thread does next, outside every call
    next,       \* the code it is at
    calls,      \* the calls it is in, the innermost last
    order,      \* every task submitted so far: its place is its sequence number
    pending,    \* submitted and not yet collected
    completed,  \* collected
    recorded,   \* next_record_sequence: how many results are in run_records
    queue,      \* submitted and not yet taken by a thread
    running,    \* taken by a thread and not done
    begun,      \* those past the wait for their factor task
    done,       \* futures that are done
    asking,     \* done, with a request in the result
    factored,   \* codes with a factor state
    plans,      \* codes with daily plans
    blind       \* history: tasks that looked for one of them and found none

mainVars == <<targets, at, next, calls>>
resultVars == <<order, pending, completed, recorded>>
poolVars == <<queue, running, begun, done, asking>>
stateVars == <<factored, plans, blind>>
dispatcherVars == <<mainVars, resultVars, poolVars, stateVars>>

Submit(t) == [call |-> "submit", task |-> t]
Drain(S) == [call |-> "drain", rest |-> S]
RecordCall == [call |-> "record"]

Frames == [call : {"submit"}, task : Tasks] \cup [call : {"drain"}, rest : SUBSET Tasks]
          \cup {RecordCall}

Idle == calls = <<>>
Top == calls[Len(calls)]
Below == SubSeq(calls, 1, Len(calls) - 1)
Is(call) == ~Idle /\ Top.call = call

Submitted == {order[n] : n \in DOMAIN order}

PoolInit ==
    /\ targets \in Targets
    /\ at = "factor" /\ next = 1 /\ calls = <<>>
    /\ order = <<>> /\ pending = {} /\ completed = {} /\ recorded = 0
    /\ queue = <<>> /\ running = {} /\ begun = {} /\ done = {} /\ asking = {}
    /\ factored = {} /\ plans = {} /\ blind = {}

-----------------------------------------------------------------------------
(* The calls of the main thread                                            *)

\* Mutant: one more than the limit.
FullLate == Cardinality(pending) > MaxPending

Full == Cardinality(pending) >= MaxPending

\* Mutant: futures that are not done are collected too.
ReadyAll == pending

\* The futures a drain_completed finds done.
Ready == pending \cap done

\* submit_background, past its loop.
SubmitNow ==
    /\ Is("submit") /\ ~Full
    /\ order' = Append(order, Top.task)
    /\ queue' = Append(queue, Top.task)
    /\ pending' = pending \cup {Top.task}
    /\ calls' = Below
    /\ UNCHANGED <<targets, at, next, completed, recorded, running, begun, done,
                   asking, stateVars>>

\* In its loop: drain_completed(block=True).
SubmitWaits ==
    /\ Is("submit") /\ Full
    /\ Ready # {}
    /\ calls' = Append(calls, Drain(Ready))
    /\ UNCHANGED <<targets, at, next, resultVars, poolVars, stateVars>>

\* t has the lowest sequence number in S.
FirstOf(t, S) ==
    \E n \in DOMAIN order :
        /\ order[n] = t /\ t \in S
        /\ \A m \in DOMAIN order : order[m] \in S => n <= m

\* Mutant: a result that asks for the bars asks for the factors too.
RequestsTwo(t) == IF t \in asking THEN <<Refetch(t.code), Factor(t.code)>> ELSE <<>>

\* The fetches a result asks for; each is made, and its data submitted.
RequestsOf(t) == IF t \in asking THEN <<Refetch(t.code)>> ELSE <<>>

\* collect_completed up to the provider calls: the calls to come are stacked,
\* the first one on top.
Collect ==
    /\ Is("drain")
    /\ \E t \in Top.rest :
        /\ FirstOf(t, Top.rest)
        /\ t \in pending        \* else pending.remove raises
        /\ pending' = pending \ {t}
        /\ completed' = completed \cup {t}
        /\ LET r == RequestsOf(t)
               submits == [n \in DOMAIN r |-> Submit(r[Len(r) + 1 - n])]
           IN  calls' = Below \o <<Drain(Top.rest \ {t}), RecordCall>> \o submits
    /\ UNCHANGED <<targets, at, next, order, recorded, poolVars, stateVars>>

DrainReturns ==
    /\ Is("drain") /\ Top.rest = {}
    /\ calls' = Below
    /\ UNCHANGED <<targets, at, next, resultVars, poolVars, stateVars>>

\* Mutant: if in place of while.
InOrderOne(n) ==
    n = IF recorded < Len(order) /\ order[recorded + 1] \in completed
        THEN recorded + 1 ELSE recorded

\* The first n results are there, and no more of them.
InOrder(n) ==
    /\ \A m \in recorded + 1 .. n : order[m] \in completed
    /\ n < Len(order) => order[n + 1] \notin completed

\* flush_ordered_run_records
RecordInOrder ==
    /\ Is("record")
    /\ \E n \in recorded .. Len(order) : InOrder(n) /\ recorded' = n
    /\ calls' = Below
    /\ UNCHANGED <<targets, at, next, order, pending, completed, poolVars, stateVars>>

-----------------------------------------------------------------------------
(* The loop over the codes.  A fetch that fails is submitted as well, with *)
(* its error in place of the data.                                         *)

CurrentCode == UpdateCodes[next]
InLoop(l) == Idle /\ at = l /\ next <= Len(UpdateCodes)

\* The factors are fetched, unless no adjusted bars are asked for or the
\* checkpoint of the stored ones is current.
FetchFactor ==
    /\ InLoop("factor")
    /\ \/ /\ targets # "unadjusted"
          /\ calls' = <<Submit(Factor(CurrentCode))>>
          /\ UNCHANGED factored
       \/ /\ targets = "adjusted"
          /\ factored' = factored \cup {CurrentCode}
          /\ UNCHANGED calls
       \/ /\ targets = "unadjusted"
          /\ UNCHANGED <<calls, factored>>
    /\ at' = "daily"
    /\ UNCHANGED <<targets, next, resultVars, poolVars, plans, blind>>

FetchBars ==
    /\ InLoop("daily")
    /\ calls' = IF targets = "factor" THEN <<>> ELSE <<Submit(DailyTask(CurrentCode))>>
    /\ at' = "poll"
    /\ UNCHANGED <<targets, next, resultVars, poolVars, stateVars>>

\* drain_completed(block=False)
Poll ==
    /\ InLoop("poll")
    /\ calls' = <<Drain(Ready)>>
    /\ at' = "factor" /\ next' = next + 1
    /\ UNCHANGED <<targets, resultVars, poolVars, stateVars>>

\* while pending: drain_completed(block=True), after the loop and once more
\* after the flush.
WaitForAll ==
    /\ Idle
    /\ at = "flushed" \/ (at = "factor" /\ next > Len(UpdateCodes))
    /\ Ready # {}
    /\ calls' = <<Drain(Ready)>>
    /\ UNCHANGED <<targets, at, next, resultVars, poolVars, stateVars>>

SubmitFlush ==
    /\ Idle /\ at = "factor" /\ next > Len(UpdateCodes)
    /\ pending = {}
    /\ calls' = <<Submit(FlushTask)>>
    /\ at' = "flushed"
    /\ UNCHANGED <<targets, next, resultVars, poolVars, stateVars>>

RunReturns ==
    /\ Idle /\ at = "flushed" /\ pending = {}
    /\ at' = "returned"
    /\ UNCHANGED <<targets, next, calls, resultVars, poolVars, stateVars>>

\* A file that cannot be read while the plans are made ends the loop; the
\* executor still runs what was submitted.
Raise ==
    /\ InLoop("factor") \/ InLoop("daily")
    /\ at' = "raised"
    /\ UNCHANGED <<targets, next, calls, resultVars, poolVars, stateVars>>

-----------------------------------------------------------------------------
(* The threads of the pool                                                 *)

\* Mutant: the newest task is taken first.
TakeNewest ==
    /\ queue # <<>> /\ Cardinality(running) < Workers
    /\ running' = running \cup {queue[Len(queue)]}
    /\ queue' = SubSeq(queue, 1, Len(queue) - 1)
    /\ UNCHANGED <<mainVars, resultVars, begun, done, asking, stateVars>>

\* A thread takes the oldest task.
Take ==
    /\ queue # <<>> /\ Cardinality(running) < Workers
    /\ running' = running \cup {Head(queue)}
    /\ queue' = Tail(queue)
    /\ UNCHANGED <<mainVars, resultVars, begun, done, asking, stateVars>>

\* Mutant: the bars do not wait.
NoWait(t) == FALSE

\* process_daily_after_factor: factor_future.result() holds the thread.
Waits(t) ==
    /\ t.kind = "daily"
    /\ Factor(t.code) \in Submitted \ done

NeedsFactors(t) == targets = "adjusted" /\ t.kind \in {"daily", "refetch"}

\* The task reads what was set for its code; _set_daily_plans.
BeginTask(t) ==
    /\ t \in running \ begun /\ ~Waits(t)
    /\ begun' = begun \cup {t}
    /\ plans' = IF t.kind = "daily" THEN plans \cup {t.code} ELSE plans
    /\ blind' = IF \/ NeedsFactors(t) /\ t.code \notin factored
                   \/ t.kind = "refetch" /\ t.code \notin plans
                THEN blind \cup {t} ELSE blind
    /\ UNCHANGED <<mainVars, resultVars, queue, running, done, asking, factored>>

FinishTask(t) ==
    /\ t \in running \cap begun
    /\ running' = running \ {t}
    /\ begun' = begun \ {t}
    /\ done' = done \cup {t}
    /\ UNCHANGED <<mainVars, resultVars, queue, blind>>

\* The factors are stored, and set for the bars unless none are asked for.
FinishFactor(t) ==
    /\ t.kind = "factor"
    /\ FinishTask(t)
    /\ factored' = IF targets = "adjusted" THEN factored \cup {t.code} ELSE factored
    /\ UNCHANGED <<asking, plans>>

\* _release_code_state
Release(c) == factored' = factored \ {c} /\ plans' = plans \ {c}

\* Mutant: process_daily_initial releases the code in any case.
FinishReleasing(t) ==
    /\ t.kind \in {"daily", "refetch"}
    /\ FinishTask(t)
    /\ \/ UNCHANGED asking
       \/ t.kind = "daily" /\ asking' = asking \cup {t}
    /\ Release(t.code)

\* The bars are stored, or fail, or have to be fetched again.
FinishBars(t) ==
    /\ t.kind \in {"daily", "refetch"}
    /\ FinishTask(t)
    /\ \/ UNCHANGED asking /\ Release(t.code)
       \/ /\ t.kind = "daily"
          /\ asking' = asking \cup {t}
          /\ UNCHANGED <<factored, plans>>

FinishFlush(t) ==
    /\ t = FlushTask
    /\ FinishTask(t)
    /\ UNCHANGED <<asking, factored, plans>>

-----------------------------------------------------------------------------
Main ==
    \/ SubmitNow \/ SubmitWaits \/ Collect \/ DrainReturns \/ RecordInOrder
    \/ FetchFactor \/ FetchBars \/ Poll
    \/ WaitForAll \/ SubmitFlush \/ RunReturns

Work(t) == BeginTask(t) \/ FinishFactor(t) \/ FinishBars(t) \/ FinishFlush(t)

PoolNext == Main \/ Raise \/ Take \/ \E t \in Tasks : Work(t)

PoolSpec == PoolInit /\ [][PoolNext]_dispatcherVars

\* The operating system runs every thread that can go on, and a provider call
\* returns.
PoolFairness ==
    /\ WF_dispatcherVars(Main) /\ WF_dispatcherVars(Take)
    /\ \A t \in Tasks : WF_dispatcherVars(Work(t))

PoolFairSpec == PoolSpec /\ PoolFairness

-----------------------------------------------------------------------------
(* Properties                                                              *)

PoolTypeOK ==
    /\ targets \in {"factor", "unadjusted", "adjusted"}
    /\ at \in {"factor", "daily", "poll", "flushed", "returned", "raised"}
    /\ next \in 1 .. Len(UpdateCodes) + 1
    /\ calls \in Seq(Frames)
    /\ order \in Seq(Tasks) /\ queue \in Seq(Tasks)
    /\ pending \subseteq Submitted /\ completed \subseteq Submitted
    /\ recorded \in 0 .. Len(order)
    /\ begun \subseteq running /\ running \subseteq Submitted
    /\ done \subseteq Submitted /\ completed \subseteq done
    /\ asking \subseteq {DailyTask(c) : c \in Stocks} \cap done
    /\ factored \subseteq Stocks /\ plans \subseteq Stocks
    /\ blind \subseteq Tasks

\* The memory the fetched frames take is bounded (update_daily.py:591).
PendingBounded == Cardinality(pending) <= MaxPending

\* A fetch made while results are being collected never has to wait for room:
\* it would collect results the outer drain still holds, and pending.remove
\* would raise KeyError on them (update_daily.py:642).
DrainingFrames == {n \in DOMAIN calls : calls[n].call = "drain"}

NoNestedDrain ==
    /\ Cardinality(DrainingFrames) <= 1
    /\ \A n \in DrainingFrames : calls[n].rest \subseteq pending

\* No task finds the factors or the plans of its code missing: adjusted bars
\* would be computed without factors, a refetch would store nothing.
InputsAtHand == blind = {}

\* A run that returns has collected every task, has put every result in
\* run_records (of which the exit code is computed) and holds no code's state.
AllRecorded ==
    at = "returned" =>
        /\ recorded = Len(order) /\ completed = Submitted
        /\ \A c \in Stocks : targets # "factor" => DailyTask(c) \in completed
        /\ \A t \in asking : Refetch(t.code) \in completed
        /\ factored = {} /\ plans = {}

\* The loop ends and so does every task: no two threads, and not the main
\* thread and the pool, wait for one another.
Over == at \in {"returned", "raised"} /\ queue = <<>> /\ running = {}

RunEnds == <>[]Over

\* The tasks of one code follow one another as in module CodeTasks.
StageOf(c) ==
    CASE Refetch(c) \in done -> "stored"
      [] Refetch(c) \in begun -> "refetch"
      [] DailyTask(c) \in asking /\ Refetch(c) \notin begun \cup done -> "asked"
      [] DailyTask(c) \in done \ asking -> "stored"
      [] DailyTask(c) \in begun -> "daily"
      [] Factor(c) \in done /\ DailyTask(c) \notin begun \cup done -> "priced"
      [] Factor(c) \in begun /\ DailyTask(c) \notin begun \cup done -> "factor"
      [] OTHER -> "todo"

PerCode == INSTANCE CodeTasks WITH stage <- [c \in Stocks |-> StageOf(c)]
TasksInTurn == PerCode!Spec

=============================================================================
